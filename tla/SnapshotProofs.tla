--------------------------- MODULE SnapshotProofs ---------------------------
(***************************************************************************)
(* Proofs about SnapshotStore, for any keys, processes, sessions, caps and *)
(* saves: committed snapshots survive, the index knows what it owns, its   *)
(* maps agree, and evictions take the newest last.                         *)
(***************************************************************************)
EXTENDS SnapshotStore, ProofFacts

(***************************************************************************)
(* Types                                                                   *)
(***************************************************************************)
Lineages == Sessions \cup {Nobody}
Dirs == {NoDir, Rest} \cup
        [state : {"whole", "torn"}, kind : Kinds, used : Nat, sess : Lineages, blobs : Kinds]
Saving == [at : {"write", "check", "aside", "in", "back", "clean", "insert", "lineage", "fit"},
           key : Keys, kind : Kinds, sess : Lineages, used : Nat, moved : BOOLEAN]
SaveAts == {"write", "check", "aside", "in", "back", "clean", "insert", "lineage", "fit"}
Restoring == [at : {"restore", "evict"}, key : Keys, long : BOOLEAN] \cup
             [at : {"blobs", "touch", "evict"}, key : Keys, long : BOOLEAN, kind : Kinds]
Stamping == [at : {"stamp"}, key : Keys, kind : Kinds, sess : Lineages, used : Nat]

DiskTypes ==
  /\ world \in Worlds /\ now \in Nat
  /\ disk \in [Keys -> Dirs]
  /\ tmp \in [Pids -> [Keys -> Dirs]] /\ old \in [Pids -> [Keys -> Dirs]]

ProcTypes ==
  /\ alive \in SUBSET Pids
  /\ pc \in [Pids -> {Idle} \cup Saving \cup Restoring \cup Stamping]
  /\ \A p \in Pids : p \notin alive => pc[p] = Idle
  /\ owner \in [Keys -> alive \cup {Nobody, Left}]

\* A save has moved nothing aside before it is about to rename, and only a save
\* under a session evicts by lineage.
SaveSteps ==
  \A p \in Pids :
    /\ pc[p].at \in {"write", "check", "aside"} => ~ pc[p].moved
    /\ pc[p].at = "lineage" => pc[p].sess # Nobody

TypeOK == DiskTypes /\ ProcTypes /\ SaveSteps

(***************************************************************************)
(* Committed snapshots                                                     *)
(***************************************************************************)
\* Where a snapshot survives: nobody dies between the two renames, a rename back
\* works, and removals finish while two servers overlap.
Survivable(w) ==
  /\ w.faults \cap {"back", "crashAside"} = {}
  /\ w.overlap => w.faults \cap {"remove", "cut"} = {}

\* What is about to be committed is whole.
TmpWhole ==
  \A p \in alive : pc[p].at \in {"check", "aside", "in"} => Whole(tmp[p][pc[p].key])
OneAtATime == world.overlap \/ \A p, q \in alive : p = q
\* Servers that overlap find every directory whole; ...
AllWhole ==
  world.overlap =>
    \A k \in Keys : /\ disk[k] = NoDir \/ Whole(disk[k])
                    /\ \A p \in Pids : old[p][k] = NoDir \/ Whole(old[p][k])
\* ... one alone finds the place of what it moved aside free.
AsideKept ==
  \A p \in alive :
    /\ pc[p].at = "back" => pc[p].moved
    /\ BetweenRenames(p) => /\ old[p][pc[p].key] # NoDir
                            /\ world.overlap \/ disk[pc[p].key] = NoDir
Kept(k) ==
  \/ Whole(disk[k])
  \/ \E p \in alive : Whole(old[p][k]) /\ BetweenRenames(p) /\ pc[p].key = k
KeptInv ==
  /\ Survivable(world) /\ TmpWhole /\ OneAtATime /\ AllWhole /\ AsideKept
  /\ \A k \in Keys : owner[k] # Nobody => Kept(k)

\* Every meta.json of a key, read or yet to be written, and all its blobs are of
\* a kind the key is saved as; ...
Everywhere(k) == {disk[k]} \cup {tmp[p][k] : p \in Pids} \cup {old[p][k] : p \in Pids}
OfKey(k, d) == HasMeta(d) => {d.kind, d.blobs} \subseteq KindsOf(k)
KindsInv ==
  /\ alive \subseteq DOMAIN world.work
  /\ \A k \in Keys : \A d \in Everywhere(k) : OfKey(k, d)
  /\ \A p \in Pids : pc[p].at \in SaveAts \cup {"stamp"} => pc[p].kind \in KindsOf(pc[p].key)
\* ... of a server alone, meta.json and blobs are of one kind, also what it is
\* about to write back.
Matched(d) == HasMeta(d) => d.kind = d.blobs
MatchInv ==
  ~ world.overlap =>
    /\ \A k \in Keys : \A d \in Everywhere(k) : Matched(d)
    /\ \A p \in Pids : pc[p].at = "stamp" =>
         HasMeta(disk[pc[p].key]) /\ disk[pc[p].key].kind = pc[p].kind

(***************************************************************************)
(* The index                                                               *)
(***************************************************************************)
EntryVals == [used : Nat, sess : Lineages, bytes : {0, 1, 2}]
IndexVals == [ent : [Keys -> EntryVals], byUsed : SUBSET (Nat \X Keys),
              bySess : [Sessions -> Seq(Keys)], bytes : Nat]

LineageOf(ix, s) == {k \in Held(ix) : ix.ent[k].sess = s}
EntryBytes(ix) == [k \in Keys |-> ix.ent[k].bytes]
\* The maps of one index agree.
Agree(ix) ==
  /\ ix \in IndexVals
  /\ \A k \in Held(ix) : ix.ent[k].bytes # 0
  /\ ix.byUsed = {<<ix.ent[k].used, k>> : k \in Held(ix)}
  /\ ix.bytes = SumFunctionOnSet(EntryBytes(ix), Held(ix))
  /\ \A s \in Sessions : IsInjective(ix.bySess[s]) /\ ToSet(ix.bySess[s]) = LineageOf(ix, s)
IndexInv == \A p \in Pids : Agree(index[p])

\* What a process owns is in its index. ...
OwnersKnow ==
  \A p \in alive, k \in Keys : owner[k] = p /\ ~Inserting(p, k) => k \in Held(index[p])
\* ... In a Tidy world it knows every directory, the one it has moved aside included,
CountedBy(p) ==
  /\ pc[p].at \in {"check", "aside", "in"} => HasMeta(tmp[p][pc[p].key])
  /\ pc[p].at = "back" => pc[p].moved
  /\ BetweenRenames(p) => HasMeta(old[p][pc[p].key]) /\ pc[p].key \in Held(index[p])
  /\ \A k \in Keys : disk[k] # NoDir /\ ~Inserting(p, k) => k \in Held(index[p])
\* ... and the next process to load will find a meta.json in each.
CountInv ==
  Tidy => /\ \A p, q \in alive : p = q
          /\ \A k \in Keys : disk[k] # NoDir => HasMeta(disk[k])
          /\ \A p \in alive : CountedBy(p)

\* Nothing was used in the future, ...
Until(d, t) == HasMeta(d) => d.used <= t
DirsPast ==
  /\ \A k \in Keys : Until(disk[k], now)
  /\ \A p \in Pids, k \in Keys : Until(tmp[p][k], now) /\ Until(old[p][k], now)
IndexPast == \A p \in Pids, k \in Keys : index[p].ent[k].used <= now
\* ... no touch writes a later time than now, ...
StampsPast == \A p \in Pids : pc[p].at = "stamp" => pc[p].used <= now
\* ... and nothing a process has indexed after the snapshot it is saving, which
\* stands last in its lineage and is evicted last.
LastOf(seq, k) == seq # <<>> /\ seq[Len(seq)] = k
Stamped == {"check", "aside", "in", "back", "clean", "insert", "lineage", "fit"}
SavedBy(p) ==
  LET c == pc[p]
      ix == index[p] IN
  /\ c.at \in Stamped => c.used <= now /\ \A k \in Keys : ix.ent[k].used <= c.used
  /\ c.at \in {"lineage", "fit"} =>
       IF c.key \in Held(ix) THEN ix.ent[c.key].used = c.used
       ELSE \A k \in Held(ix) : ix.ent[k].used >= c.used
  /\ c.at = "lineage" =>
       /\ c.key \in Held(ix) /\ ix.ent[c.key].sess = c.sess
       /\ LastOf(ix.bySess[c.sess], c.key)
AgeInv == DirsPast /\ IndexPast /\ StampsPast /\ \A p \in Pids : SavedBy(p)

(***************************************************************************)
(* The operations of an index                                              *)
(***************************************************************************)
LEMMA AgreeFacts ==
  ASSUME NEW ix, Agree(ix)
  PROVE  /\ ix.ent \in [Keys -> EntryVals] /\ ix.byUsed \in SUBSET (Nat \X Keys)
         /\ ix.bySess \in [Sessions -> Seq(Keys)] /\ ix.bytes \in Nat
         /\ \A k \in Keys : ix.ent[k].used \in Nat /\ ix.ent[k].sess \in Lineages
                            /\ ix.ent[k].bytes \in {0, 1, 2}
         /\ Held(ix) \subseteq Keys /\ IsFiniteSet(Held(ix))
BY FS_Subset, SnapshotAssumption DEF Agree, IndexVals, EntryVals, Held

LEMMA EmptyAgrees == Agree(Empty) /\ \A k \in Keys : Empty.ent[k] = NoEntry
<1>1. Held(Empty) = {}
  BY DEF Held, Empty
<1>2. Empty \in IndexVals
  BY SnapshotAssumption DEF Empty, IndexVals, NoEntry, EntryVals, Lineages
<1>3. Empty.bytes = SumFunctionOnSet(EntryBytes(Empty), Held(Empty))
  BY <1>1, SumEmpty DEF Empty
<1>4. \A s \in Sessions : Empty.bySess[s] = <<>> /\ LineageOf(Empty, s) = {}
  BY <1>1 DEF LineageOf, Empty
<1>5. Empty.byUsed = {}
  BY DEF Empty
<1> QED
  BY <1>1, <1>2, <1>3, <1>4, <1>5, EmptyFacts DEF Agree, Empty

LEMMA DroppedAgrees ==
  ASSUME NEW ix, Agree(ix), NEW k \in Keys
  PROVE  /\ Agree(Dropped(ix, k))
         /\ Dropped(ix, k).ent[k] = NoEntry
         /\ \A j \in Keys \ {k} : Dropped(ix, k).ent[j] = ix.ent[j]
         /\ Held(Dropped(ix, k)) = Held(ix) \ {k}
         /\ \A s \in Sessions : Dropped(ix, k).bySess[s] =
              IF s = ix.ent[k].sess /\ ix.ent[k] # NoEntry THEN Without(ix.bySess[s], {k})
              ELSE ix.bySess[s]
<1>1. CASE ix.ent[k] = NoEntry
  BY <1>1 DEF Dropped, Held
<1>2. CASE ix.ent[k] # NoEntry
  <2> DEFINE e == ix.ent[k]
             x == Dropped(ix, k)
  <2>1. /\ x.ent = [ix.ent EXCEPT ![k] = NoEntry]
        /\ x.byUsed = ix.byUsed \ {<<e.used, k>>}
        /\ x.bySess = IF e.sess = Nobody THEN ix.bySess
                      ELSE [ix.bySess EXCEPT ![e.sess] = Without(@, {k})]
        /\ x.bytes = ix.bytes - e.bytes
        /\ x = [ent |-> x.ent, byUsed |-> x.byUsed, bySess |-> x.bySess, bytes |-> x.bytes]
    BY <1>2 DEF Dropped
  <2>2. k \in Held(ix) /\ e.used \in Nat /\ e.sess \in Lineages /\ e.bytes \in {0, 1, 2}
    BY <1>2, AgreeFacts DEF Held
  <2> HIDE DEF x
  <2>3. x.ent \in [Keys -> EntryVals] /\ x.ent[k] = NoEntry /\ \A j \in Keys \ {k} : x.ent[j] = ix.ent[j]
    BY <2>1, AgreeFacts DEF NoEntry, EntryVals, Lineages
  <2>4. Held(x) = Held(ix) \ {k}
    BY <2>3 DEF Held
  <2>5. \A s \in Sessions :
          x.bySess[s] = IF s = e.sess THEN Without(ix.bySess[s], {k}) ELSE ix.bySess[s]
    <3>1. CASE e.sess = Nobody
      BY <2>1, <3>1, SnapshotAssumption
    <3>2. CASE e.sess # Nobody
      BY <2>1, <3>2, AgreeFacts
    <3> QED BY <3>1, <3>2
  <2>6. ASSUME NEW s \in Sessions
        PROVE  /\ x.bySess[s] \in Seq(Keys) /\ IsInjective(x.bySess[s])
               /\ ToSet(x.bySess[s]) = LineageOf(x, s)
    <3>1. ix.bySess[s] \in Seq(Keys) /\ IsInjective(ix.bySess[s])
            /\ ToSet(ix.bySess[s]) = LineageOf(ix, s)
      BY AgreeFacts DEF Agree
    <3>2. LineageOf(x, s) = LineageOf(ix, s) \ {k}
      BY <2>3, <2>4, AgreeFacts DEF LineageOf
    <3>3. CASE s = e.sess
      <4>1. x.bySess[s] = Without(ix.bySess[s], {k})
        BY <2>5, <3>3
      <4> QED BY <3>1, <3>2, <4>1, WithoutKeeps
    <3>4. CASE s # e.sess
      <4>1. k \notin LineageOf(ix, s)
        BY <3>4 DEF LineageOf
      <4> QED BY <2>5, <3>1, <3>2, <3>4, <4>1
    <3> QED BY <3>3, <3>4
  <2>7. x.bySess \in [Sessions -> Seq(Keys)]
    <3>1. DOMAIN x.bySess = Sessions /\ x.bySess = [s \in DOMAIN x.bySess |-> x.bySess[s]]
      BY <2>1, AgreeFacts
    <3> QED BY <2>6, <3>1
  <2>8. x.byUsed = {<<x.ent[j].used, j>> : j \in Held(x)}
    BY <2>1, <2>3, <2>4 DEF Agree
  <2>9. x.bytes \in Nat /\ x.bytes = SumFunctionOnSet(EntryBytes(x), Held(x))
    <3> DEFINE w == EntryBytes(ix)
               v == EntryBytes(x)
               S == Held(ix)
    <3>1. IsFiniteSet(S) /\ IsFiniteSet(S \ {k}) /\ S \ {k} = Held(x) /\ k \in S
      BY <2>2, <2>4, AgreeFacts, FS_RemoveElement
    <3>2. \A j \in S : w[j] \in Nat
      BY AgreeFacts DEF EntryBytes
    <3>3. \A j \in S \ {k} : w[j] \in Nat /\ v[j] = w[j]
      <4> SUFFICES ASSUME NEW j \in S, j # k PROVE w[j] \in Nat /\ v[j] = w[j]
        OBVIOUS
      <4>1. j \in Keys \ {k}
        BY AgreeFacts
      <4>2. x.ent[j] = ix.ent[j]
        BY <2>3, <4>1
      <4>3. v[j] = w[j]
        BY <4>1, <4>2 DEF EntryBytes
      <4> HIDE DEF v, w
      <4> QED BY <3>2, <4>3
    <3>4. w[k] = e.bytes
      BY DEF EntryBytes
    <3>5. ix.bytes = SumFunctionOnSet(w, S) /\ ix.bytes \in Nat
      BY AgreeFacts DEF Agree
    <3> HIDE DEF w, v, S, e
    <3>6. SumFunctionOnSet(w, S) = w[k] + SumFunctionOnSet(w, S \ {k})
      BY <3>1, <3>2, SumRemove
    <3>7. SumFunctionOnSet(v, S \ {k}) = SumFunctionOnSet(w, S \ {k})
      BY <3>1, <3>3, SumSame
    <3>8. SumFunctionOnSet(w, S \ {k}) \in Nat
      BY <3>1, <3>3, SumNat
    <3>9. x.bytes = SumFunctionOnSet(w, S \ {k})
      BY <2>1, <2>2, <3>4, <3>5, <3>6, <3>8
    <3> QED BY <3>1, <3>7, <3>8, <3>9 DEF v
  <2>10. x \in IndexVals
    <3>1. x.byUsed \in SUBSET (Nat \X Keys)
      BY <2>1, AgreeFacts
    <3> QED BY <2>1, <2>3, <2>7, <2>9, <3>1 DEF IndexVals
  <2>11. \A j \in Held(x) : x.ent[j].bytes # 0
    BY <2>3, <2>4, AgreeFacts DEF Agree
  <2>12. Agree(x)
    BY <2>6, <2>8, <2>9, <2>10, <2>11 DEF Agree
  <2> QED BY <1>2, <2>3, <2>4, <2>5, <2>12 DEF x
<1> QED BY <1>1, <1>2

\* an entry whose key is new to the index
IsInserted(y, x, k, e) ==
  /\ y.ent = [x.ent EXCEPT ![k] = e]
  /\ y.byUsed = x.byUsed \cup {<<e.used, k>>}
  /\ y.bySess = IF e.sess = Nobody THEN x.bySess
                ELSE [x.bySess EXCEPT ![e.sess] = Append(@, k)]
  /\ y.bytes = x.bytes + e.bytes

LEMMA InsertedAgrees ==
  ASSUME NEW x, Agree(x), NEW k \in Keys, k \notin Held(x),
         NEW e \in EntryVals, e.bytes # 0, NEW y \in IndexVals, IsInserted(y, x, k, e)
  PROVE  Agree(y) /\ Held(y) = Held(x) \cup {k}
<1> USE DEF IsInserted
<1>1. e.used \in Nat /\ e.sess \in Lineages /\ e.bytes \in {1, 2} /\ e # NoEntry
  BY DEF EntryVals, NoEntry
<1>2. y.ent[k] = e /\ \A j \in Keys \ {k} : y.ent[j] = x.ent[j]
  BY AgreeFacts
<1>3. Held(y) = Held(x) \cup {k}
  BY <1>1, <1>2 DEF Held
<1>4. ASSUME NEW s \in Sessions
      PROVE  IsInjective(y.bySess[s]) /\ ToSet(y.bySess[s]) = LineageOf(y, s)
  <2>1. x.bySess[s] \in Seq(Keys) /\ IsInjective(x.bySess[s])
          /\ ToSet(x.bySess[s]) = LineageOf(x, s)
    BY AgreeFacts DEF Agree
  <2>2. k \notin LineageOf(x, s) /\ s # Nobody
    BY SnapshotAssumption DEF LineageOf
  <2>3. CASE s = e.sess
    <3>1. y.bySess[s] = Append(x.bySess[s], k)
      BY <2>2, <2>3, AgreeFacts
    <3>2. LineageOf(y, s) = LineageOf(x, s) \cup {k}
      BY <1>2, <1>3, <2>3, AgreeFacts DEF LineageOf
    <3> QED BY <2>1, <2>2, <3>1, <3>2, ToSetAppend, InjectiveAppend
  <2>4. CASE s # e.sess
    <3>1. y.bySess[s] = x.bySess[s]
      BY <1>1, <2>4, AgreeFacts
    <3>2. LineageOf(y, s) = LineageOf(x, s)
      BY <1>2, <1>3, <2>4, AgreeFacts DEF LineageOf
    <3> QED BY <2>1, <3>1, <3>2
  <2> QED BY <2>3, <2>4
<1>5. y.byUsed = {<<y.ent[j].used, j>> : j \in Held(y)}
  BY <1>2, <1>3, AgreeFacts DEF Agree
<1>6. y.bytes = SumFunctionOnSet(EntryBytes(y), Held(y))
  <2> DEFINE w == EntryBytes(x)
             v == EntryBytes(y)
             S == Held(x)
  <2>1. IsFiniteSet(S) /\ k \notin S /\ Held(y) = S \cup {k}
    BY <1>3, AgreeFacts
  <2>2. \A j \in S : w[j] \in Nat /\ v[j] = w[j]
    <3> SUFFICES ASSUME NEW j \in S PROVE w[j] \in Nat /\ v[j] = w[j]
      OBVIOUS
    <3>1. j \in Keys \ {k} /\ x.ent[j].bytes \in Nat
      BY AgreeFacts
    <3> QED BY <1>2, <3>1 DEF EntryBytes
  <2>3. v[k] = e.bytes /\ v[k] \in Nat
    BY <1>1, <1>2 DEF EntryBytes
  <2>4. x.bytes = SumFunctionOnSet(w, S) /\ x.bytes \in Nat
    BY AgreeFacts DEF Agree
  <2> HIDE DEF w, v, S
  <2>5. SumFunctionOnSet(v, S) = SumFunctionOnSet(w, S)
    BY <2>1, <2>2, SumSame
  <2>6. \A j \in S : v[j] \in Nat
    BY <2>2
  <2>7. SumFunctionOnSet(v, S \cup {k}) = v[k] + SumFunctionOnSet(v, S)
    BY <2>1, <2>3, <2>6, SumAdd
  <2>8. y.bytes = SumFunctionOnSet(v, S \cup {k})
    BY <1>1, <2>3, <2>4, <2>5, <2>7
  <2> QED BY <2>1, <2>8 DEF v
<1>7. \A j \in Held(y) : y.ent[j].bytes # 0
  BY <1>2, <1>3, AgreeFacts DEF Agree
<1> QED BY <1>3, <1>4, <1>5, <1>6, <1>7 DEF Agree

LEMMA AddedAgrees ==
  ASSUME NEW ix, Agree(ix), NEW k \in Keys, NEW e \in EntryVals, e.bytes # 0
  PROVE  /\ Agree(Added(ix, k, e))
         /\ Added(ix, k, e).ent[k] = e
         /\ \A j \in Keys \ {k} : Added(ix, k, e).ent[j] = ix.ent[j]
         /\ Held(Added(ix, k, e)) = Held(ix) \cup {k}
         /\ e.sess \in Sessions => LastOf(Added(ix, k, e).bySess[e.sess], k)
<1> DEFINE x == Dropped(ix, k)
           y == Added(ix, k, e)
<1>1. /\ y.ent = [x.ent EXCEPT ![k] = e]
      /\ y.byUsed = x.byUsed \cup {<<e.used, k>>}
      /\ y.bySess = IF e.sess = Nobody THEN x.bySess
                    ELSE [x.bySess EXCEPT ![e.sess] = Append(@, k)]
      /\ y.bytes = x.bytes + e.bytes
      /\ y = [ent |-> y.ent, byUsed |-> y.byUsed, bySess |-> y.bySess, bytes |-> y.bytes]
  BY DEF Added
<1>2. /\ Agree(x) /\ x.ent[k] = NoEntry /\ Held(x) = Held(ix) \ {k}
      /\ \A j \in Keys \ {k} : x.ent[j] = ix.ent[j]
  BY DroppedAgrees
<1> HIDE DEF x, y
<1>3. /\ x.ent \in [Keys -> EntryVals] /\ x.byUsed \in SUBSET (Nat \X Keys)
      /\ x.bySess \in [Sessions -> Seq(Keys)] /\ x.bytes \in Nat
  BY <1>2, AgreeFacts
<1>4. e.used \in Nat /\ e.sess \in Lineages /\ e.bytes \in {0, 1, 2}
  BY DEF EntryVals
<1>5. y \in IndexVals
  <2>1. y.ent \in [Keys -> EntryVals] /\ y.byUsed \in SUBSET (Nat \X Keys) /\ y.bytes \in Nat
    BY <1>1, <1>3, <1>4
  <2>2. y.bySess \in [Sessions -> Seq(Keys)]
    BY <1>1, <1>3, <1>4 DEF Lineages
  <2> QED BY <1>1, <2>1, <2>2 DEF IndexVals
<1>6. k \notin Held(x)
  BY <1>2
<1>7. Agree(y) /\ Held(y) = Held(x) \cup {k}
  <2>1. IsInserted(y, x, k, e)
    BY <1>1 DEF IsInserted
  <2> QED BY <2>1, <1>2, <1>5, <1>6, InsertedAgrees
<1>8. y.ent[k] = e /\ \A j \in Keys \ {k} : y.ent[j] = ix.ent[j]
  BY <1>1, <1>2, <1>3
<1>9. ASSUME e.sess \in Sessions PROVE LastOf(y.bySess[e.sess], k)
  <2>1. y.bySess[e.sess] = Append(x.bySess[e.sess], k) /\ x.bySess[e.sess] \in Seq(Keys)
    BY <1>1, <1>3, <1>9, SnapshotAssumption
  <2> DEFINE q == x.bySess[e.sess]
  <2>2. q \in Seq(Keys) /\ y.bySess[e.sess] = Append(q, k)
    BY <2>1
  <2> HIDE DEF q
  <2>3. Append(q, k) # <<>> /\ Append(q, k)[Len(Append(q, k))] = k
    BY <2>2
  <2> QED BY <2>2, <2>3 DEF LastOf
<1>10. Held(y) = Held(ix) \cup {k}
  BY <1>2, <1>7
<1> QED BY <1>7, <1>8, <1>9, <1>10 DEF y

LEMMA TouchedAgrees ==
  ASSUME NEW ix, Agree(ix), NEW k \in Keys, now \in Nat
  PROVE  /\ Agree(Touched(ix, k)) /\ Held(Touched(ix, k)) = Held(ix)
         /\ \A j \in Keys : Touched(ix, k).ent[j].used \in {ix.ent[j].used, now}
<1>1. CASE ix.ent[k] = NoEntry
  BY <1>1 DEF Touched
<1>2. CASE ix.ent[k] # NoEntry
  <2> DEFINE y == Touched(ix, k)
             e == ix.ent[k]
             ne == [e EXCEPT !.used = now]
  <2>1. e \in EntryVals /\ k \in Held(ix) /\ e.bytes # 0
    BY <1>2, AgreeFacts DEF Held, Agree
  <2>2. ne \in EntryVals /\ ne.used = now /\ ne.sess = e.sess /\ ne.bytes = e.bytes /\ ne # NoEntry
    BY <2>1 DEF EntryVals, NoEntry
  <2>3. /\ y.ent = [ix.ent EXCEPT ![k] = ne]
        /\ y.byUsed = (ix.byUsed \ {<<e.used, k>>}) \cup {<<now, k>>}
        /\ y.bySess = ix.bySess /\ y.bytes = ix.bytes
        /\ y = [ent |-> y.ent, byUsed |-> y.byUsed, bySess |-> y.bySess, bytes |-> y.bytes]
    BY <1>2, AgreeFacts DEF Touched, Agree, IndexVals
  <2> HIDE DEF y, ne
  <2>4. y.ent[k] = ne /\ \A j \in Keys \ {k} : y.ent[j] = ix.ent[j]
    BY <2>3, AgreeFacts
  <2>5. Held(y) = Held(ix)
    BY <2>1, <2>2, <2>4 DEF Held
  <2>6. y \in IndexVals
    <3>1. y.ent \in [Keys -> EntryVals] /\ y.byUsed \in SUBSET (Nat \X Keys)
      BY <2>2, <2>3, AgreeFacts
    <3> QED BY <2>3, <3>1, AgreeFacts DEF IndexVals
  <2>7. y.byUsed = {<<y.ent[j].used, j>> : j \in Held(y)}
    <3>1. ix.byUsed = {<<ix.ent[j].used, j>> : j \in Held(ix)}
      BY DEF Agree
    <3> QED BY <2>1, <2>2, <2>3, <2>4, <2>5, <3>1, AgreeFacts
  <2>8. y.bytes = SumFunctionOnSet(EntryBytes(y), Held(y))
    <3>1. EntryBytes(y) = EntryBytes(ix)
      BY <2>2, <2>4 DEF EntryBytes
    <3> QED BY <2>3, <2>5, <3>1 DEF Agree
  <2>9. \A s \in Sessions : LineageOf(y, s) = LineageOf(ix, s)
    BY <2>2, <2>4, <2>5, AgreeFacts DEF LineageOf
  <2>10. \A j \in Held(y) : y.ent[j].bytes # 0
    BY <2>1, <2>2, <2>4, <2>5, AgreeFacts DEF Agree
  <2>11. Agree(y)
    BY <2>3, <2>6, <2>7, <2>8, <2>9, <2>10 DEF Agree
  <2>12. \A j \in Keys : y.ent[j].used \in {ix.ent[j].used, now}
    BY <2>2, <2>4
  <2> QED BY <2>5, <2>11, <2>12 DEF y
<1> QED BY <1>1, <1>2

\* An order of a finite set lists all of it.
LEMMA OrderedAll ==
  ASSUME NEW ks, IsFiniteSet(ks), NEW o \in Orders(ks)
  PROVE  o \in Seq(ks) /\ IsInjective(o) /\ ToSet(o) = ks
<1>1. /\ o \in [1 .. Cardinality(ks) -> ks]
      /\ \A i, j \in 1 .. Cardinality(ks) : o[i] = o[j] => i = j
  BY DEF Orders
<1> QED BY <1>1, ListsAll

LEMMA LastWithout ==
  ASSUME NEW S, NEW q \in Seq(S), NEW R, NEW k, LastOf(q, k), k \notin R
  PROVE  LastOf(Without(q, R), k)
<1>1. PICK p \in [0 .. Len(q) -> Seq(S)] : Prefixwise(p, q, R)
  BY WithoutPrefixes
<1> DEFINE n == Len(q)
<1>2. n \in Nat /\ n # 0 /\ q[n] = k
  BY DEF LastOf
<1>3. p[n] = Append(p[n - 1], k) /\ p[n - 1] \in Seq(S) /\ Without(q, R) = p[n]
  <2>1. n \in 1 .. n /\ n - 1 \in 0 .. n
    BY <1>2
  <2>2. p[n] = IF q[n] \in R THEN p[n - 1] ELSE Append(p[n - 1], q[n])
    BY <1>1, <2>1 DEF Prefixwise
  <2> QED BY <1>1, <1>2, <2>1, <2>2 DEF Prefixwise
<1> DEFINE a == p[n - 1]
<1>4. a \in Seq(S) /\ Without(q, R) = Append(a, k)
  BY <1>3
<1> HIDE DEF a
<1>5. Append(a, k) # <<>> /\ Append(a, k)[Len(Append(a, k))] = k
  <2>1. k \in S /\ Len(a) \in Nat
    <3>1. n \in DOMAIN q
      BY <1>2
    <3> QED BY <1>2, <1>4, <3>1
  <2>2. Len(Append(a, k)) = Len(a) + 1 /\ Append(a, k)[Len(a) + 1] = k
    BY <1>4, <2>1
  <2> DEFINE t == Append(a, k)
  <2>3. Len(t) = Len(a) + 1 /\ t[Len(t)] = k
    BY <2>2
  <2> HIDE DEF t
  <2>4. Len(t) # 0
    BY <2>1, <2>3
  <2>5. t # <<>>
    BY <2>4
  <2> QED BY <2>3, <2>5 DEF t
<1> QED BY <1>4, <1>5 DEF LastOf

LEMMA LoadedAgrees ==
  ASSUME disk \in [Keys -> Dirs], NEW ks \in SUBSET Keys, NEW o \in Orders(ks),
         \A k \in ks : HasMeta(disk[k])
  PROVE  /\ Agree(Loaded(ks, o)) /\ Held(Loaded(ks, o)) = ks
         /\ \A k \in Keys : Loaded(ks, o).ent[k].used \in {0} \cup {disk[j].used : j \in ks}
<1> DEFINE x == Loaded(ks, o)
           E(k) == Entry(disk[k].kind, disk[k].used, disk[k].sess)
<1>1. /\ x.ent = [k \in Keys |-> IF k \in ks THEN E(k) ELSE NoEntry]
      /\ x.byUsed = {<<disk[k].used, k>> : k \in ks}
      /\ x.bySess = [s \in Sessions |-> Without(o, {k \in ks : disk[k].sess # s})]
      /\ x.bytes = SumFunctionOnSet([k \in ks |-> Bytes(disk[k].kind)], ks)
      /\ x = [ent |-> x.ent, byUsed |-> x.byUsed, bySess |-> x.bySess, bytes |-> x.bytes]
  BY DEF Loaded
<1>2. \A k \in ks : /\ disk[k].kind \in Kinds /\ disk[k].used \in Nat /\ disk[k].sess \in Lineages
  BY DEF Dirs, HasMeta, NoDir, Rest
<1>3. \A k \in ks : /\ E(k).used = disk[k].used /\ E(k).sess = disk[k].sess
                    /\ E(k).bytes = Bytes(disk[k].kind) /\ E(k).bytes \in {1, 2}
                    /\ E(k) \in EntryVals /\ E(k) # NoEntry
  BY <1>2 DEF Entry, EntryVals, Bytes, NoEntry
<1> HIDE DEF x, E
<1>4. \A k \in Keys : x.ent[k] = IF k \in ks THEN E(k) ELSE NoEntry
  BY <1>1
<1>5. Held(x) = ks
  BY <1>3, <1>4 DEF Held
<1>6. NoEntry \in EntryVals /\ NoEntry.used = 0
  BY DEF NoEntry, EntryVals, Lineages
<1>7. x.ent \in [Keys -> EntryVals]
  BY <1>1, <1>3, <1>6
<1>8. IsFiniteSet(ks)
  BY SnapshotAssumption, FS_Subset
<1>9. o \in Seq(Keys) /\ IsInjective(o) /\ ToSet(o) = ks
  <2>1. o \in Seq(ks) /\ IsInjective(o) /\ ToSet(o) = ks
    BY <1>8, OrderedAll
  <2> QED BY <2>1
<1>10. ASSUME NEW s \in Sessions
       PROVE  /\ x.bySess[s] \in Seq(Keys) /\ IsInjective(x.bySess[s])
              /\ ToSet(x.bySess[s]) = LineageOf(x, s)
  <2> DEFINE R == {k \in ks : disk[k].sess # s}
  <2>1. x.bySess[s] = Without(o, R)
    BY <1>1
  <2>2. LineageOf(x, s) = ks \ R
    BY <1>3, <1>4, <1>5 DEF LineageOf
  <2> HIDE DEF R
  <2> QED BY <1>9, <2>1, <2>2, WithoutKeeps
<1>11. x.bySess \in [Sessions -> Seq(Keys)]
  <2>1. DOMAIN x.bySess = Sessions /\ x.bySess = [s \in Sessions |-> x.bySess[s]]
    BY <1>1
  <2> QED BY <1>10, <2>1
<1>12. x.byUsed = {<<x.ent[k].used, k>> : k \in Held(x)} /\ x.byUsed \in SUBSET (Nat \X Keys)
  <2>1. \A k \in ks : x.ent[k].used = disk[k].used
    BY <1>3, <1>4
  <2>2. {<<disk[k].used, k>> : k \in ks} = {<<x.ent[k].used, k>> : k \in ks}
    BY <2>1
  <2>3. {<<disk[k].used, k>> : k \in ks} \in SUBSET (Nat \X Keys)
    BY <1>2
  <2> QED BY <1>1, <1>5, <2>2, <2>3
<1>13. x.bytes = SumFunctionOnSet(EntryBytes(x), Held(x)) /\ x.bytes \in Nat
  <2> DEFINE w == [k \in ks |-> Bytes(disk[k].kind)]
             v == EntryBytes(x)
  <2>1. \A k \in ks : w[k] \in Nat /\ v[k] = w[k]
    BY <1>3, <1>4 DEF EntryBytes
  <2>2. x.bytes = SumFunctionOnSet(w, ks)
    BY <1>1
  <2> HIDE DEF w, v
  <2>3. SumFunctionOnSet(v, ks) = SumFunctionOnSet(w, ks) /\ SumFunctionOnSet(w, ks) \in Nat
    BY <1>8, <2>1, SumSame, SumNat
  <2> QED BY <1>5, <2>2, <2>3 DEF v
<1>14. x \in IndexVals
  BY <1>1, <1>7, <1>11, <1>12, <1>13 DEF IndexVals
<1>15. \A k \in Held(x) : x.ent[k].bytes # 0
  BY <1>3, <1>4, <1>5
<1>16. Agree(x)
  BY <1>10, <1>12, <1>13, <1>14, <1>15 DEF Agree
<1>17. \A k \in Keys : x.ent[k].used \in {0} \cup {disk[j].used : j \in ks}
  BY <1>3, <1>4, <1>6
<1> QED BY <1>5, <1>16, <1>17 DEF x

-----------------------------------------------------------------------------
(* The victims *)

LEMMA OldestFacts ==
  ASSUME NEW ix, Agree(ix), NEW s \in Sessions, ix.bySess[s] # <<>>
  PROVE  LET seq == ix.bySess[s] IN
         \E i \in DOMAIN seq :
           /\ Oldest(ix, s) = seq[i]
           /\ \A j \in DOMAIN seq :
                \/ ix.ent[seq[i]].used < ix.ent[seq[j]].used
                \/ ix.ent[seq[i]].used = ix.ent[seq[j]].used /\ i <= j
<1> DEFINE seq == ix.bySess[s]
           used(i) == ix.ent[seq[i]].used
           First(i) == \A j \in DOMAIN seq :
                         \/ ix.ent[seq[i]].used < ix.ent[seq[j]].used
                         \/ ix.ent[seq[i]].used = ix.ent[seq[j]].used /\ i <= j
           T == {used(i) : i \in DOMAIN seq}
<1>1. seq \in Seq(Keys) /\ seq # <<>>
  BY AgreeFacts
<1>2. DOMAIN seq \subseteq Nat /\ DOMAIN seq # {} /\ \A i \in DOMAIN seq : used(i) \in Nat
  <2>1. Len(seq) \in Nat /\ DOMAIN seq = 1 .. Len(seq) /\ Len(seq) # 0
    BY <1>1
  <2>2. \A i \in DOMAIN seq : seq[i] \in Keys
    BY <1>1, <2>1
  <2>3. 1 \in DOMAIN seq
    BY <2>1
  <2> QED BY <2>1, <2>2, <2>3, AgreeFacts
<1> HIDE DEF seq, used
<1>3. PICK i \in DOMAIN seq : \A j \in DOMAIN seq : used(i) <= used(j)
  <2>1. T \subseteq Nat /\ T # {}
    BY <1>2
  <2>2. PICK u \in T : \A y \in T : u <= y
    <3> HIDE DEF T
    <3> QED BY <2>1, Least
  <2> QED BY <2>2
<1> DEFINE F == {j \in DOMAIN seq : used(j) = used(i)}
<1>4. PICK m \in F : \A j \in F : m <= j
  <2>1. F \subseteq Nat /\ F # {}
    BY <1>2, <1>3
  <2> HIDE DEF F
  <2> QED BY <2>1, Least
<1>5. m \in DOMAIN seq /\ First(m)
  BY <1>2, <1>3, <1>4 DEF used
<1>6. PICK c \in DOMAIN seq : c = (CHOOSE i1 \in DOMAIN seq : First(i1)) /\ First(c)
  <2> HIDE DEF First
  <2> QED BY <1>5
<1>7. Oldest(ix, s) = seq[c]
  BY <1>6 DEF Oldest, seq
<1> QED BY <1>6, <1>7 DEF seq

\* The newest of a lineage of several is not its oldest.
LEMMA OldestOther ==
  ASSUME NEW ix, Agree(ix), NEW s \in Sessions, Len(ix.bySess[s]) > PerLineage,
         NEW k, LastOf(ix.bySess[s], k), \A j \in Keys : ix.ent[j].used <= ix.ent[k].used
  PROVE  Oldest(ix, s) \in Keys \ {k}
<1> DEFINE seq == ix.bySess[s]
<1>1. seq \in Seq(Keys) /\ IsInjective(seq) /\ Len(seq) \in Nat /\ Len(seq) > 1 /\ seq[Len(seq)] = k
  BY AgreeFacts, SnapshotAssumption DEF Agree, LastOf
<1>2. DOMAIN seq = 1 .. Len(seq) /\ \A i \in DOMAIN seq : seq[i] \in Keys /\ ix.ent[seq[i]].used \in Nat
  BY <1>1, AgreeFacts
<1>3. PICK i \in DOMAIN seq :
        /\ Oldest(ix, s) = seq[i]
        /\ \A j \in DOMAIN seq : \/ ix.ent[seq[i]].used < ix.ent[seq[j]].used
                                 \/ ix.ent[seq[i]].used = ix.ent[seq[j]].used /\ i <= j
  <2>1. seq # <<>>
    BY <1>1
  <2> QED BY <2>1, OldestFacts
<1> HIDE DEF seq
<1>4. i # Len(seq)
  <2>1. 1 \in DOMAIN seq /\ Len(seq) \in DOMAIN seq
    BY <1>1, <1>2
  <2>2. ix.ent[seq[1]].used <= ix.ent[k].used
    BY <1>2, <2>1
  <2> QED BY <1>1, <1>2, <1>3, <2>1, <2>2
<1>5. seq[i] # k
  BY <1>1, <1>2, <1>4 DEF IsInjective
<1> QED BY <1>2, <1>3, <1>5

LEMMA LeastRecentFacts ==
  ASSUME NEW ix, Agree(ix), ix.bytes > 0
  PROVE  /\ LeastRecent(ix) \in Held(ix)
         /\ \A k \in Held(ix) : ix.ent[LeastRecent(ix)].used <= ix.ent[k].used
<1> DEFINE B == ix.byUsed
           First(u) == \A v \in B : u[1] < v[1] \/ (u[1] = v[1] /\ u[2] <= v[2])
<1>1. B \subseteq Nat \X Keys /\ Keys \subseteq Nat
  BY AgreeFacts, SnapshotAssumption
<1>2. Held(ix) # {}
  BY SumEmpty DEF Agree
<1>3. B = {<<ix.ent[k].used, k>> : k \in Held(ix)}
  BY DEF Agree
<1> HIDE DEF B
<1>4. \A u \in B : u[1] \in Nat /\ u[2] \in Nat
  BY <1>1
<1>5. PICK u \in B : \A v \in B : u[1] <= v[1]
  <2> DEFINE T == {v[1] : v \in B}
  <2>1. T \subseteq Nat /\ T # {}
    BY <1>2, <1>3, <1>4
  <2>2. PICK t \in T : \A y \in T : t <= y
    <3> HIDE DEF T
    <3> QED BY <2>1, Least
  <2> QED BY <2>2
<1>6. PICK w \in B : w[1] = u[1] /\ \A v \in B : v[1] = u[1] => w[2] <= v[2]
  <2> DEFINE T == {v[2] : v \in {x \in B : x[1] = u[1]}}
  <2>1. T \subseteq Nat /\ T # {}
    BY <1>4, <1>5
  <2>2. PICK t \in T : \A y \in T : t <= y
    <3> HIDE DEF T
    <3> QED BY <2>1, Least
  <2> QED BY <2>2
<1>7. First(w)
  BY <1>4, <1>5, <1>6
<1>8. PICK c \in B : c = (CHOOSE u1 \in B : First(u1)) /\ First(c)
  <2> HIDE DEF First
  <2> QED BY <1>6, <1>7
<1>9. LeastRecent(ix) = c[2]
  BY <1>8 DEF LeastRecent, B
<1>10. c[2] \in Held(ix) /\ ix.ent[c[2]].used = c[1]
  <2>1. PICK k \in Held(ix) : c = <<ix.ent[k].used, k>>
    BY <1>3
  <2> QED BY <2>1
<1>11. ASSUME NEW k \in Held(ix) PROVE c[1] <= ix.ent[k].used
  <2>1. <<ix.ent[k].used, k>> \in B
    BY <1>3
  <2> QED BY <1>4, <1>8, <2>1
<1> QED BY <1>9, <1>10, <1>11

(***************************************************************************)
(* Type correctness                                                        *)
(***************************************************************************)
\* What a process is at tells what it is doing.
LEMMA PcFacts ==
  ASSUME ProcTypes, NEW p \in Pids
  PROVE  /\ pc[p].at \in SaveAts =>
              /\ pc[p] \in Saving /\ pc[p].key \in Keys /\ pc[p].kind \in Kinds
              /\ pc[p].sess \in Lineages /\ pc[p].used \in Nat /\ pc[p].moved \in BOOLEAN
         /\ pc[p].at \in {"restore", "blobs", "touch", "evict"} =>
              /\ pc[p] \in Restoring /\ pc[p].key \in Keys /\ pc[p].long \in BOOLEAN
              /\ pc[p].at \in {"blobs", "touch"} => pc[p].kind \in Kinds
         /\ pc[p].at = "stamp" =>
              /\ pc[p] \in Stamping /\ pc[p].key \in Keys /\ pc[p].kind \in Kinds
              /\ pc[p].sess \in Lineages /\ pc[p].used \in Nat
         /\ pc[p].at \notin {"idle"} => p \in alive
BY DEF ProcTypes, Saving, Restoring, Stamping, Idle, SaveAts

LEMMA GotoFacts ==
  ASSUME ProcTypes, NEW p \in Pids, pc[p].at \in SaveAts, NEW where \in SaveAts, Goto(p, where)
  PROVE  /\ pc'[p] \in Saving /\ pc'[p].at = where
         /\ pc'[p].key = pc[p].key /\ pc'[p].kind = pc[p].kind /\ pc'[p].sess = pc[p].sess
         /\ pc'[p].used = pc[p].used /\ pc'[p].moved = pc[p].moved
         /\ \A q \in Pids \ {p} : pc'[q] = pc[q]
         /\ pc' = [q \in Pids |-> pc'[q]]
<1>1. pc[p] \in Saving
  BY PcFacts
<1>2. pc' = [pc EXCEPT ![p].at = where] /\ DOMAIN pc = Pids
  BY DEF Goto, ProcTypes
<1>3. pc'[p] = [pc[p] EXCEPT !.at = where]
  BY <1>2
<1> QED BY <1>1, <1>2, <1>3 DEF Saving, SaveAts

LEMMA RestsFacts ==
  ASSUME ProcTypes, NEW p \in Pids, Rests(p)
  PROVE  /\ pc'[p] = Idle /\ pc'[p].at = "idle"
         /\ \A q \in Pids \ {p} : pc'[q] = pc[q]
         /\ pc' = [q \in Pids |-> pc'[q]]
BY DEF Rests, ProcTypes, Idle

LEMMA RemovedTypes ==
  ASSUME NEW d \in Dirs
  PROVE  /\ Removed(d) \subseteq Dirs /\ Remains(d) \subseteq Dirs
         /\ Rest \in Dirs /\ NoDir \in Dirs
<1>1. Remains(d) \subseteq Dirs
  BY DEF Remains, Dirs, HasMeta, NoDir, Rest
<1> QED BY <1>1 DEF Removed, Dirs

\* What a step of a live process must keep.
LEMMA ProcStep ==
  ASSUME TypeOK, NEW p \in alive, alive' = alive,
         pc' = [q \in Pids |-> pc'[q]],
         pc'[p] \in {Idle} \cup Saving \cup Restoring \cup Stamping,
         pc'[p].at \in {"write", "check", "aside"} => ~ pc'[p].moved,
         pc'[p].at = "lineage" => pc'[p].sess # Nobody,
         \A q \in Pids \ {p} : pc'[q] = pc[q],
         owner' \in [Keys -> alive \cup {Nobody, Left}]
  PROVE  ProcTypes' /\ SaveSteps'
<1> DEFINE V == {Idle} \cup Saving \cup Restoring \cup Stamping
<1>1. \A q \in Pids : pc'[q] \in V
  BY DEF TypeOK, ProcTypes
<1>2. pc' \in [Pids -> V]
  <2> HIDE DEF V
  <2> QED BY <1>1
<1>3. \A q \in Pids : q \notin alive' => pc'[q] = Idle
  BY DEF TypeOK, ProcTypes
<1>4. ProcTypes'
  BY <1>2, <1>3 DEF TypeOK, ProcTypes
<1>5. SaveSteps'
  BY DEF TypeOK, SaveSteps
<1> QED BY <1>4, <1>5

\* one directory of a process changes
LEMMA PutDir ==
  ASSUME NEW f \in [Pids -> [Keys -> Dirs]], NEW p \in Pids, NEW k \in Keys, NEW d \in Dirs,
         NEW g, g = [f EXCEPT ![p][k] = d]
  PROVE  /\ g \in [Pids -> [Keys -> Dirs]] /\ g[p][k] = d
         /\ \A q \in Pids, j \in Keys : q # p \/ j # k => g[q][j] = f[q][j]
OBVIOUS

LEMMA StartSaveTypes ==
  ASSUME TypeOK, NEW p \in Pids, NEW k \in Keys, NEW kind \in Kinds, NEW s \in Lineages,
         StartSave(p, k, kind, s)
  PROVE  TypeOK'
<1>1. p \in alive /\ alive' = alive /\ owner' = owner /\ tmp' = [tmp EXCEPT ![p][k] = Rest]
  BY DEF StartSave, At
<1>2. /\ pc'[p] = [at |-> "write", key |-> k, kind |-> kind, sess |-> s, used |-> 0, moved |-> FALSE]
      /\ \A q \in Pids \ {p} : pc'[q] = pc[q]
      /\ pc' = [q \in Pids |-> pc'[q]]
  BY DEF StartSave, TypeOK, ProcTypes
<1>3. pc'[p] \in Saving /\ pc'[p].at = "write" /\ ~ pc'[p].moved
  BY <1>2 DEF Saving
<1>4. ProcTypes' /\ SaveSteps'
  BY <1>1, <1>2, <1>3, ProcStep DEF TypeOK, ProcTypes
<1>5. tmp' \in [Pids -> [Keys -> Dirs]]
  BY <1>1, PutDir DEF TypeOK, DiskTypes, Dirs
<1> QED
  BY <1>4, <1>5 DEF StartSave, TypeOK, DiskTypes

LEMMA WriteFilesTypes ==
  ASSUME TypeOK, NEW p \in Pids, WriteFiles(p)
  PROVE  TypeOK' /\ pc'[p].at = "check" /\ pc'[p].used = now /\ pc'[p].key = pc[p].key
         /\ pc'[p].moved = pc[p].moved /\ pc'[p].kind = pc[p].kind
         /\ \A q \in Pids \ {p} : pc'[q] = pc[q]
<1> DEFINE c == pc[p]
<1>0. p \in alive /\ c \in Saving /\ ~ c.moved
  BY PcFacts DEF WriteFiles, At, TypeOK, SaveAts, SaveSteps
<1>1. alive' = alive /\ owner' = owner /\ tmp' = [tmp EXCEPT ![p][c.key] = Dir(c.kind, now, c.sess)]
  BY DEF WriteFiles
<1>2. /\ pc'[p] = [[c EXCEPT !.at = "check"] EXCEPT !.used = now]
      /\ \A q \in Pids \ {p} : pc'[q] = pc[q]
      /\ pc' = [q \in Pids |-> pc'[q]]
  BY DEF WriteFiles, TypeOK, ProcTypes
<1> HIDE DEF c
<1>3. /\ pc'[p] \in Saving /\ ~ pc'[p].moved /\ pc'[p].at = "check" /\ pc'[p].used = now
      /\ pc'[p].key = c.key /\ pc'[p].moved = c.moved /\ pc'[p].kind = c.kind
  BY <1>0, <1>2 DEF Saving, TypeOK, DiskTypes
<1>4. ProcTypes' /\ SaveSteps'
  BY <1>0, <1>1, <1>2, <1>3, ProcStep DEF TypeOK, ProcTypes
<1>5. Dir(c.kind, now, c.sess) \in Dirs /\ c.key \in Keys
  BY <1>0 DEF Dir, Dirs, Saving, TypeOK, DiskTypes
<1>6. tmp' \in [Pids -> [Keys -> Dirs]]
  BY <1>1, <1>5, PutDir DEF TypeOK, DiskTypes
<1> QED
  BY <1>2, <1>3, <1>4, <1>6 DEF WriteFiles, TypeOK, DiskTypes, c

\* a save that is given up
LEMMA GiveUpFacts ==
  ASSUME TypeOK, NEW p \in alive, pc[p].at \in SaveAts, GiveUp(p)
  PROVE  /\ tmp' \in [Pids -> [Keys -> Dirs]]
         /\ pc'[p] = Idle /\ \A q \in Pids \ {p} : pc'[q] = pc[q] /\ tmp'[q] = tmp[q]
         /\ alive' = alive /\ owner' = owner => ProcTypes' /\ SaveSteps'
         /\ \E left \in Removed(tmp[p][pc[p].key]) : tmp' = [tmp EXCEPT ![p][pc[p].key] = left]
<1>1. p \in Pids /\ ProcTypes /\ pc[p].key \in Keys
  BY PcFacts DEF TypeOK, ProcTypes
<1>2. tmp[p][pc[p].key] \in Dirs
  BY <1>1 DEF TypeOK, DiskTypes
<1>3. PICK left \in Removed(tmp[p][pc[p].key]) : tmp' = [tmp EXCEPT ![p][pc[p].key] = left]
  BY DEF GiveUp
<1>4. left \in Dirs
  BY <1>2, <1>3, RemovedTypes
<1>5. /\ tmp' \in [Pids -> [Keys -> Dirs]] /\ \A q \in Pids \ {p} : tmp'[q] = tmp[q]
  BY <1>1, <1>3, <1>4 DEF TypeOK, DiskTypes
<1>6. /\ pc'[p] = Idle /\ pc'[p].at = "idle" /\ \A q \in Pids \ {p} : pc'[q] = pc[q]
      /\ pc' = [q \in Pids |-> pc'[q]]
  BY <1>1, RestsFacts DEF GiveUp
<1>7. ASSUME alive' = alive, owner' = owner PROVE ProcTypes' /\ SaveSteps'
  BY <1>1, <1>6, <1>7, ProcStep DEF TypeOK, ProcTypes
<1> QED BY <1>3, <1>5, <1>6, <1>7

\* A process goes on with its save.
LEMMA GoesOn ==
  ASSUME TypeOK, NEW p \in alive, pc[p].at \in SaveAts, NEW where \in SaveAts, Goto(p, where),
         where \in {"check", "aside"} => ~ pc[p].moved, where # "write",
         where = "lineage" => pc[p].sess # Nobody,
         alive' = alive, owner' \in [Keys -> alive \cup {Nobody, Left}]
  PROVE  ProcTypes' /\ SaveSteps'
<1>1. p \in Pids /\ ProcTypes
  BY DEF TypeOK, ProcTypes
<1>2. /\ pc'[p] \in Saving /\ pc'[p].at = where
      /\ pc'[p].sess = pc[p].sess /\ pc'[p].moved = pc[p].moved
      /\ \A q \in Pids \ {p} : pc'[q] = pc[q]
      /\ pc' = [q \in Pids |-> pc'[q]]
  BY <1>1, GotoFacts
<1> QED
  BY <1>1, <1>2, ProcStep

LEMMA SaveTypes ==
  ASSUME TypeOK, NEW p \in Pids,
         WriteFails(p) \/ CheckDir(p) \/ MoveAside(p) \/ AsideFails(p) \/ MoveIn(p)
           \/ InFails(p) \/ PutBack(p) \/ RemoveOld(p) \/ Insert(p)
  PROVE  TypeOK'
<1> DEFINE k == pc[p].key
<1>1. /\ p \in alive /\ pc[p].at \in SaveAts /\ pc[p] \in Saving /\ k \in Keys
      /\ pc[p].sess \in Lineages /\ ProcTypes /\ alive \subseteq Pids
      /\ tmp[p][k] \in Dirs /\ old[p][k] \in Dirs /\ disk[k] \in Dirs
  <2>1. p \in alive /\ pc[p].at \in SaveAts
    BY DEF WriteFails, CheckDir, MoveAside, AsideFails, MoveIn, InFails, PutBack, RemoveOld, Insert, At, SaveAts
  <2> QED BY <2>1, PcFacts DEF TypeOK, ProcTypes, DiskTypes
<1>2. /\ disk \in [Keys -> Dirs] /\ tmp \in [Pids -> [Keys -> Dirs]] /\ old \in [Pids -> [Keys -> Dirs]]
      /\ owner \in [Keys -> alive \cup {Nobody, Left}]
  BY DEF TypeOK, ProcTypes, DiskTypes
<1> HIDE DEF k
<1>3. CASE WriteFails(p)
  BY <1>1, <1>3, GiveUpFacts DEF WriteFails, TypeOK, DiskTypes
<1>4. CASE CheckDir(p)
  <2>1. CASE disk[k] = NoDir
    <3>1. Goto(p, "in") /\ old' = old /\ alive' = alive /\ owner' = owner
      BY <1>4, <2>1 DEF CheckDir, k
    <3>2. ProcTypes' /\ SaveSteps'
      BY <1>1, <1>2, <3>1, GoesOn DEF SaveAts
    <3> QED BY <1>4, <3>1, <3>2 DEF CheckDir, TypeOK, DiskTypes
  <2>2. CASE disk[k] # NoDir
    <3>1. Goto(p, "aside") /\ alive' = alive /\ owner' = owner /\ ~ pc[p].moved
      BY <1>4, <2>2 DEF CheckDir, At, k, TypeOK, SaveSteps
    <3>2. ProcTypes' /\ SaveSteps'
      BY <1>1, <1>2, <3>1, GoesOn DEF SaveAts
    <3>3. PICK left \in Removed(old[p][k]) : old' = [old EXCEPT ![p][k] = left]
      BY <1>4, <2>2 DEF CheckDir, k
    <3>4. old' \in [Pids -> [Keys -> Dirs]]
      BY <1>1, <1>2, <3>3, RemovedTypes, PutDir
    <3> QED BY <1>4, <3>2, <3>4 DEF CheckDir, TypeOK, DiskTypes
  <2> QED BY <2>1, <2>2
<1>5. CASE MoveAside(p)
  <2>1. /\ old' = [old EXCEPT ![p][k] = disk[k]] /\ disk' = [disk EXCEPT ![k] = NoDir]
        /\ alive' = alive /\ owner' = owner
        /\ pc'[p] = [[pc[p] EXCEPT !.at = "in"] EXCEPT !.moved = TRUE]
        /\ \A q \in Pids \ {p} : pc'[q] = pc[q]
        /\ pc' = [q \in Pids |-> pc'[q]]
    BY <1>5 DEF MoveAside, k, TypeOK, ProcTypes
  <2>2. pc'[p] \in Saving /\ pc'[p].at = "in"
    BY <1>1, <2>1 DEF Saving
  <2>3. ProcTypes' /\ SaveSteps'
    BY <1>1, <1>2, <2>1, <2>2, ProcStep
  <2>4. old' \in [Pids -> [Keys -> Dirs]] /\ disk' \in [Keys -> Dirs]
    BY <1>1, <1>2, <2>1, PutDir DEF Dirs
  <2> QED BY <1>5, <2>3, <2>4 DEF MoveAside, TypeOK, DiskTypes
<1>6. CASE AsideFails(p)
  BY <1>1, <1>6, GiveUpFacts DEF AsideFails, TypeOK, DiskTypes
<1>7. CASE MoveIn(p)
  <2>1. /\ disk' = [disk EXCEPT ![k] = tmp[p][k]] /\ tmp' = [tmp EXCEPT ![p][k] = NoDir]
        /\ owner' = [owner EXCEPT ![k] = p] /\ alive' = alive
        /\ Goto(p, IF pc[p].moved THEN "clean" ELSE "insert")
    BY <1>7 DEF MoveIn, k
  <2>2. ProcTypes' /\ SaveSteps'
    <3>1. owner' \in [Keys -> alive \cup {Nobody, Left}]
      BY <1>1, <1>2, <2>1
    <3> QED BY <1>1, <2>1, <3>1, GoesOn DEF SaveAts
  <2>3. disk' \in [Keys -> Dirs] /\ tmp' \in [Pids -> [Keys -> Dirs]]
    BY <1>1, <1>2, <2>1, PutDir, RemovedTypes
  <2> QED BY <1>7, <2>2, <2>3 DEF MoveIn, TypeOK, DiskTypes
<1>8. CASE InFails(p)
  <2>1. CASE pc[p].moved
    <3>1. Goto(p, "back") /\ tmp' = tmp /\ alive' = alive /\ owner' = owner
      BY <1>8, <2>1 DEF InFails
    <3>2. ProcTypes' /\ SaveSteps'
      BY <1>1, <1>2, <3>1, GoesOn DEF SaveAts
    <3> QED BY <1>8, <3>1, <3>2 DEF InFails, TypeOK, DiskTypes
  <2>2. CASE ~ pc[p].moved
    BY <1>1, <1>8, <2>2, GiveUpFacts DEF InFails, TypeOK, DiskTypes
  <2> QED BY <2>1, <2>2
<1>9. CASE PutBack(p)
  <2>1. disk' \in [Keys -> Dirs] /\ old' \in [Pids -> [Keys -> Dirs]]
    <3>1. CASE disk' = [disk EXCEPT ![k] = old[p][k]] /\ old' = [old EXCEPT ![p][k] = NoDir]
      BY <1>1, <1>2, <3>1, PutDir, RemovedTypes
    <3>2. CASE disk' = disk /\ old' = old
      BY <1>2, <3>2
    <3> QED BY <1>9, <3>1, <3>2 DEF PutBack, k
  <2> QED BY <1>1, <1>9, <2>1, GiveUpFacts DEF PutBack, TypeOK, DiskTypes
<1>10. CASE RemoveOld(p)
  <2>1. PICK left \in Removed(old[p][k]) : old' = [old EXCEPT ![p][k] = left]
    BY <1>10 DEF RemoveOld, k
  <2>2. old' \in [Pids -> [Keys -> Dirs]]
    BY <1>1, <1>2, <2>1, RemovedTypes, PutDir
  <2>3. Goto(p, "insert") /\ alive' = alive /\ owner' = owner
    BY <1>10 DEF RemoveOld
  <2>4. ProcTypes' /\ SaveSteps'
    BY <1>1, <1>2, <2>3, GoesOn DEF SaveAts
  <2> QED BY <1>10, <2>2, <2>4 DEF RemoveOld, TypeOK, DiskTypes
<1>11. CASE Insert(p)
  <2>1. Goto(p, IF pc[p].sess = Nobody THEN "fit" ELSE "lineage") /\ alive' = alive /\ owner' = owner
    BY <1>11 DEF Insert
  <2>2. ProcTypes' /\ SaveSteps'
    BY <1>1, <1>2, <2>1, GoesOn DEF SaveAts
  <2> QED BY <1>11, <2>2 DEF Insert, TypeOK, DiskTypes
<1> QED
  BY <1>3, <1>4, <1>5, <1>6, <1>7, <1>8, <1>9, <1>10, <1>11

\* The effect of remove_entry on the disk.
LEMMA RemoveEntryFacts ==
  ASSUME TypeOK, NEW p \in Pids, NEW k \in Keys, RemoveEntry(p, k)
  PROVE  /\ disk' \in [Keys -> Dirs] /\ disk'[k] \in Removed(disk[k])
         /\ \A j \in Keys \ {k} : disk'[j] = disk[j] /\ owner'[j] = owner[j]
         /\ owner' \in [Keys -> alive \cup {Nobody, Left}] /\ owner'[k] = Nobody
<1>1. PICK left \in Removed(disk[k]) : disk' = [disk EXCEPT ![k] = left]
  BY DEF RemoveEntry
<1>2. left \in Dirs /\ disk \in [Keys -> Dirs]
  BY <1>1, RemovedTypes DEF TypeOK, DiskTypes
<1>3. owner' = [owner EXCEPT ![k] = Nobody] /\ owner \in [Keys -> alive \cup {Nobody, Left}]
  BY DEF RemoveEntry, TypeOK, ProcTypes
<1> QED BY <1>1, <1>2, <1>3

\* The entry an eviction takes is there.
LEMMA EvictedKeys ==
  ASSUME TypeOK, IndexInv, NEW p \in Pids
  PROVE  /\ pc[p].at = "lineage" /\ Len(index[p].bySess[pc[p].sess]) > PerLineage =>
              pc[p].sess \in Sessions /\ Oldest(index[p], pc[p].sess) \in Keys
         /\ index[p].bytes > CapBytes =>
              LeastRecent(index[p]) \in Keys
<1> DEFINE ix == index[p]
<1>1. Agree(ix)
  BY DEF IndexInv
<1> HIDE DEF ix
<1>2. ASSUME pc[p].at = "lineage", Len(ix.bySess[pc[p].sess]) > PerLineage
      PROVE  pc[p].sess \in Sessions /\ Oldest(ix, pc[p].sess) \in Keys
  <2>1. pc[p].sess \in Sessions
    BY <1>2, PcFacts DEF TypeOK, SaveSteps, SaveAts, Lineages
  <2> DEFINE s == pc[p].sess
             seq == ix.bySess[s]
  <2>2. seq \in Seq(Keys) /\ Len(seq) \in Nat /\ Len(seq) > PerLineage
    BY <1>1, <1>2, <2>1, AgreeFacts
  <2>3. seq # <<>>
    BY <2>2, SnapshotAssumption
  <2>4. PICK i \in DOMAIN seq : Oldest(ix, s) = seq[i]
    BY <1>1, <2>1, <2>3, OldestFacts
  <2> QED BY <2>1, <2>2, <2>4
<1>3. ASSUME ix.bytes > CapBytes PROVE LeastRecent(ix) \in Keys
  BY <1>1, <1>3, LeastRecentFacts, AgreeFacts, SnapshotAssumption
<1> QED BY <1>2, <1>3 DEF ix

LEMMA EvictTypes ==
  ASSUME TypeOK, IndexInv, NEW p \in Pids, EvictLineage(p) \/ EvictToFit(p) \/ Evict(p)
  PROVE  TypeOK'
<1>1. /\ p \in alive /\ ProcTypes /\ alive' = alive
      /\ owner \in [Keys -> alive \cup {Nobody, Left}] /\ disk \in [Keys -> Dirs]
      /\ world' = world /\ now' = now /\ tmp' = tmp /\ old' = old
  BY DEF EvictLineage, EvictToFit, Evict, At, TypeOK, ProcTypes, DiskTypes
<1>2. ASSUME NEW k \in Keys, RemoveEntry(p, k), pc' = pc
      PROVE  TypeOK'
  <2>1. disk' \in [Keys -> Dirs] /\ owner' \in [Keys -> alive \cup {Nobody, Left}]
    BY <1>2, RemoveEntryFacts
  <2> QED BY <1>1, <1>2, <2>1 DEF TypeOK, ProcTypes, DiskTypes, SaveSteps
<1>3. CASE EvictLineage(p)
  <2>1. CASE Len(index[p].bySess[pc[p].sess]) > PerLineage
    BY <1>2, <1>3, <2>1, EvictedKeys DEF EvictLineage, At
  <2>2. CASE ~ (Len(index[p].bySess[pc[p].sess]) > PerLineage)
    <3>1. Goto(p, "fit") /\ disk' = disk /\ owner' = owner /\ pc[p].at \in SaveAts
      BY <1>3, <2>2 DEF EvictLineage, At, SaveAts
    <3>2. ProcTypes' /\ SaveSteps'
      BY <1>1, <3>1, GoesOn DEF SaveAts
    <3> QED BY <1>1, <3>1, <3>2 DEF TypeOK, DiskTypes
  <2> QED BY <2>1, <2>2
<1>4. CASE EvictToFit(p)
  <2>1. CASE index[p].bytes > CapBytes
    BY <1>2, <1>4, <2>1, EvictedKeys DEF EvictToFit
  <2>2. CASE ~ (index[p].bytes > CapBytes)
    <3>1. Rests(p) /\ disk' = disk /\ owner' = owner
      BY <1>4, <2>2 DEF EvictToFit
    <3>2. ProcTypes' /\ SaveSteps'
      BY <1>1, <3>1, RestsFacts, ProcStep
    <3> QED BY <1>1, <3>1, <3>2 DEF TypeOK, DiskTypes
  <2> QED BY <2>1, <2>2
<1>5. CASE Evict(p)
  <2>1. pc[p].key \in Keys /\ Rests(p)
    BY <1>1, <1>5, PcFacts DEF Evict, At
  <2>2. disk' \in [Keys -> Dirs] /\ owner' \in [Keys -> alive \cup {Nobody, Left}]
    BY <1>5, <2>1, RemoveEntryFacts DEF Evict
  <2>3. ProcTypes' /\ SaveSteps'
    BY <1>1, <2>1, <2>2, RestsFacts, ProcStep
  <2> QED BY <1>1, <2>2, <2>3 DEF TypeOK, DiskTypes
<1> QED BY <1>3, <1>4, <1>5

\* The steps of a request, up to the eviction of what it could not read.
Requests(p) ==
  \/ \E k \in Keys, long \in BOOLEAN : Probe(p, k, long)
  \/ ReadMeta(p) \/ ReadBlobs(p) \/ NotResumed(p) \/ RestoreFails(p)
  \/ Touch(p) \/ Stamp(p) \/ StampFails(p)

\* the steps of a request by the place where it arrives
LEMMA RequestMoves ==
  ASSUME TypeOK, NEW p \in Pids, Requests(p)
  PROVE  /\ p \in alive /\ alive' = alive /\ world' = world /\ now' = now
         /\ tmp' = tmp /\ old' = old /\ owner' = owner
         /\ pc[p].at \in {"idle", "restore", "blobs", "touch", "stamp"}
         /\ pc[p].at = "stamp" => pc'[p] = Idle
         /\ pc'[p] \in {Idle} \cup Restoring \cup Stamping
         /\ pc'[p].at \in {"idle", "restore", "blobs", "touch", "stamp", "evict"}
         /\ \A q \in Pids \ {p} : pc'[q] = pc[q]
         /\ pc' = [q \in Pids |-> pc'[q]]
         /\ index' = index \/ Touch(p)
         /\ disk' = disk \/ Stamp(p)
         /\ pc'[p].at = "touch" =>
              ReadBlobs(p) /\ pc'[p].kind = pc[p].kind /\ pc'[p].long = pc[p].long
         /\ pc'[p].at = "stamp" => Touch(p)
<1>1. /\ p \in alive /\ alive' = alive /\ world' = world /\ now' = now
      /\ tmp' = tmp /\ old' = old /\ owner' = owner
      /\ pc[p].at \in {"idle", "restore", "blobs", "touch", "stamp"}
      /\ index' = index \/ Touch(p)
      /\ disk' = disk \/ Stamp(p)
  BY DEF Requests, Probe, ReadMeta, ReadBlobs, NotResumed, RestoreFails, Touch, Stamp, StampFails, At
<1>2. /\ pc \in [Pids -> {Idle} \cup Saving \cup Restoring \cup Stamping] /\ ProcTypes
      /\ disk \in [Keys -> Dirs] /\ now \in Nat
  BY DEF TypeOK, ProcTypes, DiskTypes
<1>3. ASSUME NEW v, pc' = [pc EXCEPT ![p] = v]
      PROVE  /\ pc'[p] = v /\ \A q \in Pids \ {p} : pc'[q] = pc[q]
             /\ pc' = [q \in Pids |-> pc'[q]]
  BY <1>2, <1>3
<1>4. CASE \E k \in Keys, long \in BOOLEAN : Probe(p, k, long)
  <2>1. PICK k \in Keys, long \in BOOLEAN : Probe(p, k, long)
    BY <1>4
  <2> DEFINE v == [at |-> "restore", key |-> k, long |-> long]
  <2>2. pc' = [pc EXCEPT ![p] = v] /\ pc[p].at = "idle"
    BY <2>1 DEF Probe, At
  <2>3. v \in Restoring /\ v.at = "restore"
    BY DEF Restoring
  <2> HIDE DEF v
  <2> QED BY <1>1, <1>3, <2>2, <2>3
<1>5. CASE ReadMeta(p)
  <2> DEFINE v == [at |-> "blobs", key |-> pc[p].key, long |-> pc[p].long,
                   kind |-> disk[pc[p].key].kind]
  <2>1. /\ pc' = [pc EXCEPT ![p] = v] /\ pc[p].at = "restore" /\ pc[p].key \in Keys
        /\ pc[p].long \in BOOLEAN /\ HasMeta(disk[pc[p].key])
    BY <1>2, <1>5, PcFacts DEF ReadMeta, At
  <2>2. disk[pc[p].key].kind \in Kinds
    BY <1>2, <2>1 DEF Dirs, HasMeta, NoDir, Rest
  <2>3. v \in Restoring /\ v.at = "blobs"
    BY <2>1, <2>2 DEF Restoring
  <2> HIDE DEF v
  <2> QED BY <1>1, <1>3, <2>1, <2>3
<1>6. CASE ReadBlobs(p)
  <2> DEFINE v == [pc[p] EXCEPT !.at = "touch"]
  <2>1. pc' = [pc EXCEPT ![p] = v] /\ pc[p].at = "blobs" /\ pc[p] \in Restoring
    BY <1>2, <1>6, PcFacts DEF ReadBlobs, At, Goto
  <2>2. v \in Restoring /\ v.at = "touch" /\ v.kind = pc[p].kind /\ v.long = pc[p].long
    BY <2>1 DEF Restoring
  <2> HIDE DEF v
  <2> QED BY <1>1, <1>3, <1>6, <2>1, <2>2
<1>7. CASE RestoreFails(p)
  <2> DEFINE v == [pc[p] EXCEPT !.at = "evict"]
  <2>1. pc' = [pc EXCEPT ![p] = v] /\ pc[p].at \in {"restore", "blobs"} /\ pc[p] \in Restoring
    BY <1>2, <1>7, PcFacts DEF RestoreFails, At, Goto
  <2>2. v \in Restoring /\ v.at = "evict"
    BY <2>1 DEF Restoring
  <2> HIDE DEF v
  <2> QED BY <1>1, <1>3, <2>1, <2>2
<1>8. CASE Touch(p)
  <2> DEFINE d == disk[pc[p].key]
             v == [at |-> "stamp", key |-> pc[p].key, kind |-> d.kind, sess |-> d.sess, used |-> now]
  <2>1. /\ pc' = [pc EXCEPT ![p] = IF HasMeta(d) THEN v ELSE Idle]
        /\ pc[p].at = "touch" /\ pc[p].key \in Keys
    BY <1>2, <1>8, PcFacts DEF Touch, At
  <2>2. HasMeta(d) => v \in Stamping
    BY <1>2, <2>1 DEF Dirs, HasMeta, NoDir, Rest, Stamping
  <2>3. v.at = "stamp" /\ Idle.at = "idle"
    BY DEF Idle
  <2> HIDE DEF v, d
  <2> QED BY <1>1, <1>3, <1>8, <2>1, <2>2, <2>3
<1>9. CASE NotResumed(p) \/ Stamp(p) \/ StampFails(p)
  <2>1. pc'[p] = Idle /\ pc'[p].at = "idle" /\ (\A q \in Pids \ {p} : pc'[q] = pc[q])
        /\ pc' = [q \in Pids |-> pc'[q]]
    BY <1>2, <1>9, RestsFacts DEF NotResumed, Stamp, StampFails
  <2> QED BY <1>1, <2>1
<1> QED BY <1>4, <1>5, <1>6, <1>7, <1>8, <1>9 DEF Requests

\* meta.json is written into the directory that is there.
LEMMA StampFacts ==
  ASSUME TypeOK, NEW p \in Pids, Stamp(p)
  PROVE  LET k == pc[p].key
             e == WithMeta(disk[k], pc[p])
         IN /\ k \in Keys /\ disk' = [disk EXCEPT ![k] = e] /\ disk' \in [Keys -> Dirs]
            /\ e \in Dirs /\ HasMeta(e) /\ disk[k] # NoDir
            /\ Whole(e) <=> Whole(disk[k])
<1> DEFINE k == pc[p].key
           e == WithMeta(disk[k], pc[p])
<1>1. /\ k \in Keys /\ pc[p].kind \in Kinds /\ pc[p].sess \in Lineages /\ pc[p].used \in Nat
      /\ pc[p].at = "stamp" /\ p \in alive
  BY PcFacts DEF Stamp, At, TypeOK
<1>2. disk \in [Keys -> Dirs] /\ disk[k] \in Dirs /\ disk[k] # NoDir /\ disk' = [disk EXCEPT ![k] = e]
  BY <1>1 DEF Stamp, TypeOK, DiskTypes
<1>3. HasMeta(disk[k]) => disk[k].blobs \in Kinds
  BY <1>2 DEF HasMeta, Dirs, NoDir, Rest
<1>4. /\ e \in Dirs /\ HasMeta(e)
      /\ Whole(e) <=> Whole(disk[k])
  BY <1>1, <1>3 DEF WithMeta, HasMeta, Whole, Dirs
<1> HIDE DEF k, e
<1>5. disk' \in [Keys -> Dirs]
  BY <1>1, <1>2, <1>4
<1> QED BY <1>1, <1>2, <1>4, <1>5 DEF k, e

LEMMA RequestTypes ==
  ASSUME TypeOK, NEW p \in Pids, Requests(p)
  PROVE  TypeOK'
<1>1. /\ p \in alive /\ alive' = alive /\ world' = world /\ now' = now
      /\ tmp' = tmp /\ old' = old /\ owner' = owner
      /\ pc'[p] \in {Idle} \cup Saving \cup Restoring \cup Stamping
      /\ pc'[p].at \notin {"write", "check", "aside", "lineage"}
      /\ \A q \in Pids \ {p} : pc'[q] = pc[q]
      /\ pc' = [q \in Pids |-> pc'[q]]
      /\ disk' = disk \/ Stamp(p)
  BY RequestMoves
<1>2. ProcTypes' /\ SaveSteps'
  BY <1>1, ProcStep DEF TypeOK, ProcTypes
<1>3. disk' \in [Keys -> Dirs]
  BY <1>1, StampFacts DEF TypeOK, DiskTypes
<1> QED BY <1>1, <1>2, <1>3 DEF TypeOK, DiskTypes

\* Who owns a snapshot after p died.
LEMMA OrphanedFacts ==
  ASSUME NEW p \in Pids, NEW own \in [Keys -> alive \cup {Nobody, Left}],
         alive' = alive \ {p}, alive \subseteq Pids
  PROVE  /\ Orphaned(own, p) \in [Keys -> alive' \cup {Nobody, Left}]
         /\ \A k \in Keys : /\ Orphaned(own, p)[k] = Nobody <=> own[k] = Nobody
                            /\ Orphaned(own, p)[k] \in alive' => own[k] = Orphaned(own, p)[k]
BY SnapshotAssumption DEF Orphaned

LEMMA RestartTypes ==
  ASSUME TypeOK, NEW p \in Pids, Load(p) \/ Crash(p) \/ CrashRemoving(p)
  PROVE  TypeOK'
<1>1. /\ ProcTypes /\ owner \in [Keys -> alive \cup {Nobody, Left}] /\ disk \in [Keys -> Dirs]
      /\ tmp \in [Pids -> [Keys -> Dirs]] /\ old \in [Pids -> [Keys -> Dirs]]
      /\ alive \subseteq Pids /\ world \in Worlds /\ now \in Nat
      /\ pc \in [Pids -> {Idle} \cup Saving \cup Restoring \cup Stamping]
      /\ \A q \in Pids : q \notin alive => pc[q] = Idle
      /\ SaveSteps
  BY DEF TypeOK, ProcTypes, DiskTypes
<1>2. CASE Load(p)
  <2>1. tmp' \in [Pids -> [Keys -> Dirs]] /\ old' \in [Pids -> [Keys -> Dirs]]
    BY <1>1, <1>2 DEF Load, Dirs
  <2>2. alive' = alive \cup {p} /\ pc' = pc /\ world' = world /\ now' = now /\ disk' = disk
    BY <1>2 DEF Load
  <2>3. owner' = [k \in Keys |-> IF Whole(disk[k]) THEN p ELSE owner[k]]
    BY <1>2 DEF Load
  <2>4. owner' \in [Keys -> alive' \cup {Nobody, Left}]
    BY <1>1, <2>2, <2>3
  <2> QED BY <1>1, <2>1, <2>2, <2>4 DEF TypeOK, DiskTypes, ProcTypes, SaveSteps
<1>3. ASSUME Dies(p), disk' \in [Keys -> Dirs], owner' \in [Keys -> alive' \cup {Nobody, Left}],
             world' = world, now' = now, tmp' = tmp, old' = old
      PROVE  TypeOK'
  <2>1. /\ alive' = alive \ {p} /\ pc'[p] = Idle /\ pc'[p].at = "idle"
        /\ \A q \in Pids \ {p} : pc'[q] = pc[q]
        /\ pc' = [q \in Pids |-> pc'[q]]
    BY <1>1, <1>3, RestsFacts DEF Dies
  <2>2. pc' \in [Pids -> {Idle} \cup Saving \cup Restoring \cup Stamping]
    <3> DEFINE V == {Idle} \cup Saving \cup Restoring \cup Stamping
    <3>1. \A q \in Pids : pc'[q] \in V
      BY <1>1, <2>1
    <3> HIDE DEF V
    <3>2. pc' \in [Pids -> V]
      BY <2>1, <3>1
    <3> QED BY <3>2 DEF V
  <2> QED BY <1>1, <1>3, <2>1, <2>2 DEF TypeOK, DiskTypes, ProcTypes, SaveSteps
<1>4. CASE Crash(p)
  <2>1. owner' = Orphaned(owner, p) /\ alive' = alive \ {p}
    BY <1>4 DEF Crash, Dies
  <2>2. owner' \in [Keys -> alive' \cup {Nobody, Left}]
    BY <1>1, <2>1, OrphanedFacts
  <2> QED BY <1>1, <1>3, <1>4, <2>2 DEF Crash
<1>5. CASE CrashRemoving(p)
  <2>1. PICK k \in Keys : /\ \E left \in Remains(disk[k]) : disk' = [disk EXCEPT ![k] = left]
                          /\ owner' = Orphaned([owner EXCEPT ![k] = Nobody], p)
    BY <1>5 DEF CrashRemoving
  <2>2. PICK left \in Remains(disk[k]) : disk' = [disk EXCEPT ![k] = left]
    BY <2>1
  <2>3. left \in Dirs
    BY <1>1, <2>2, RemovedTypes
  <2>4. [owner EXCEPT ![k] = Nobody] \in [Keys -> alive \cup {Nobody, Left}] /\ alive' = alive \ {p}
    BY <1>1, <1>5 DEF CrashRemoving, Dies
  <2>5. owner' \in [Keys -> alive' \cup {Nobody, Left}]
    BY <1>1, <2>1, <2>4, OrphanedFacts
  <2> QED BY <1>1, <1>3, <1>5, <2>2, <2>3, <2>5 DEF CrashRemoving
<1> QED BY <1>2, <1>4, <1>5

LEMMA TypeStep ==
  ASSUME TypeOK, IndexInv, [Next]_vars
  PROVE  TypeOK'
<1>1. CASE Tick
  BY <1>1 DEF Tick, TypeOK, DiskTypes, ProcTypes, SaveSteps
<1>2. CASE UNCHANGED vars
  BY <1>2 DEF vars, TypeOK, DiskTypes, ProcTypes, SaveSteps
<1>3. ASSUME NEW p \in Pids, Save(p) PROVE TypeOK'
  BY <1>3, WriteFilesTypes, SaveTypes, EvictTypes DEF Save
<1>4. ASSUME NEW p \in Pids, NEW k \in Keys, NEW kind \in Kinds, NEW s \in Sessions \cup {Nobody},
             StartSave(p, k, kind, s)
      PROVE  TypeOK'
  BY <1>4, StartSaveTypes DEF Lineages
<1>5. ASSUME NEW p \in Pids, Requests(p) PROVE TypeOK'
  BY <1>5, RequestTypes
<1>6. ASSUME NEW p \in Pids, Evict(p) \/ Load(p) \/ Crash(p) \/ CrashRemoving(p) PROVE TypeOK'
  BY <1>6, EvictTypes, RestartTypes
<1> QED
  BY <1>1, <1>2, <1>3, <1>4, <1>5, <1>6 DEF Next, Requests

LEMMA TypeInit == Init => TypeOK
BY SnapshotAssumption DEF Init, TypeOK, DiskTypes, ProcTypes, SaveSteps, Dirs, Idle

(***************************************************************************)
(* The maps of an index agree                                              *)
(***************************************************************************)
LEMMA EntryFacts ==
  ASSUME TypeOK, NEW p \in Pids, pc[p].at = "insert"
  PROVE  LET e == Entry(pc[p].kind, pc[p].used, pc[p].sess) IN
         /\ e \in EntryVals /\ e.bytes # 0 /\ e.used = pc[p].used /\ e.sess = pc[p].sess
         /\ pc[p].key \in Keys /\ e # NoEntry
<1>1. pc[p] \in Saving /\ pc[p].key \in Keys
  BY PcFacts DEF TypeOK, SaveAts
<1> QED BY <1>1 DEF Saving, Entry, EntryVals, Bytes, Kinds, NoEntry

\* An index is left alone, or goes through one of the operations.
IndexStep(p) ==
  \/ index'[p] = index[p]
  \/ alive' = alive \ {p} /\ index'[p] = Empty
  \/ \E k \in Keys : index'[p] = Dropped(index[p], k)
  \/ pc[p].at = "insert" /\ index'[p] =
       Added(index[p], pc[p].key, Entry(pc[p].kind, pc[p].used, pc[p].sess))
  \/ pc[p].at = "touch" /\ index'[p] = Touched(index[p], pc[p].key)
  \/ Load(p) /\ \E o \in Orders({k \in Keys : HasMeta(disk[k])}) :
       index'[p] = Loaded({k \in Keys : HasMeta(disk[k])}, o)

IndexTyped == index = [q \in Pids |-> index[q]]

LEMMA OneIndexMoves ==
  ASSUME IndexTyped, NEW p \in Pids, NEW x, index' = [index EXCEPT ![p] = x]
  PROVE  index'[p] = x /\ \A q \in Pids \ {p} : index'[q] = index[q]
BY DEF IndexTyped

LEMMA IndexMoves ==
  ASSUME TypeOK, IndexInv, IndexTyped, [Next]_vars
  PROVE  IndexTyped' /\ \A q \in Pids : IndexStep(q)
<1>1. ASSUME index' = index PROVE IndexTyped' /\ \A q \in Pids : IndexStep(q)
  BY <1>1 DEF IndexStep, IndexTyped
<1>2. ASSUME NEW p \in Pids, NEW x, index' = [index EXCEPT ![p] = x],
             x = index'[p] => IndexStep(p)
      PROVE  IndexTyped' /\ \A q \in Pids : IndexStep(q)
  <2>1. index'[p] = x /\ \A q \in Pids \ {p} : index'[q] = index[q]
    BY <1>2, OneIndexMoves
  <2>2. IndexTyped'
    BY <1>2 DEF IndexTyped
  <2>3. ASSUME NEW q \in Pids \ {p} PROVE IndexStep(q)
    BY <2>1 DEF IndexStep
  <2> QED BY <1>2, <2>1, <2>2, <2>3
<1>3. ASSUME NEW p \in Pids, NEW k \in Keys, RemoveEntry(p, k)
      PROVE  IndexTyped' /\ \A q \in Pids : IndexStep(q)
  <2> DEFINE x == Dropped(index[p], k)
  <2>1. index' = [index EXCEPT ![p] = x]
    BY <1>3 DEF RemoveEntry
  <2>2. x = index'[p] => IndexStep(p)
    BY DEF IndexStep
  <2> HIDE DEF x
  <2> QED BY <1>2, <2>1, <2>2
<1>4. ASSUME NEW p \in Pids, Insert(p) PROVE IndexTyped' /\ \A q \in Pids : IndexStep(q)
  <2> DEFINE x == Added(index[p], pc[p].key, Entry(pc[p].kind, pc[p].used, pc[p].sess))
  <2>1. index' = [index EXCEPT ![p] = x] /\ pc[p].at = "insert"
    BY <1>4 DEF Insert, At
  <2>2. x = index'[p] => IndexStep(p)
    BY <2>1 DEF IndexStep
  <2> HIDE DEF x
  <2> QED BY <1>2, <2>1, <2>2
<1>5. ASSUME NEW p \in Pids, Touch(p) PROVE IndexTyped' /\ \A q \in Pids : IndexStep(q)
  <2> DEFINE x == Touched(index[p], pc[p].key)
  <2>1. index' = [index EXCEPT ![p] = x] /\ pc[p].at = "touch"
    BY <1>5 DEF Touch, At
  <2>2. x = index'[p] => IndexStep(p)
    BY <2>1 DEF IndexStep
  <2> HIDE DEF x
  <2> QED BY <1>2, <2>1, <2>2
<1>6. ASSUME NEW p \in Pids, Load(p) PROVE IndexTyped' /\ \A q \in Pids : IndexStep(q)
  <2> DEFINE ks == {k \in Keys : HasMeta(disk[k])}
  <2>1. PICK o \in Orders(ks) : index' = [index EXCEPT ![p] = Loaded(ks, o)]
    BY <1>6 DEF Load
  <2> DEFINE x == Loaded(ks, o)
  <2>2. x = index'[p] => IndexStep(p)
    BY <1>6 DEF IndexStep
  <2>3. index' = [index EXCEPT ![p] = x]
    BY <2>1
  <2> HIDE DEF x
  <2> QED BY <1>2, <2>3, <2>2
<1>7. ASSUME NEW p \in Pids, Dies(p) PROVE IndexTyped' /\ \A q \in Pids : IndexStep(q)
  <2>1. index' = [index EXCEPT ![p] = Empty] /\ alive' = alive \ {p}
    BY <1>7 DEF Dies
  <2>2. Empty = index'[p] => IndexStep(p)
    BY <2>1 DEF IndexStep
  <2> QED BY <1>2, <2>1, <2>2
<1>8. ASSUME NEW p \in Pids, Save(p) PROVE IndexTyped' /\ \A q \in Pids : IndexStep(q)
  <2>1. CASE EvictLineage(p)
    <3>1. CASE Len(index[p].bySess[pc[p].sess]) > PerLineage
      BY <1>3, <2>1, <3>1, EvictedKeys DEF EvictLineage, At
    <3>2. CASE ~ (Len(index[p].bySess[pc[p].sess]) > PerLineage)
      BY <1>1, <2>1, <3>2 DEF EvictLineage
    <3> QED BY <3>1, <3>2
  <2>2. CASE EvictToFit(p)
    <3>1. CASE index[p].bytes > CapBytes
      BY <1>3, <2>2, <3>1, EvictedKeys DEF EvictToFit
    <3>2. CASE ~ (index[p].bytes > CapBytes)
      BY <1>1, <2>2, <3>2 DEF EvictToFit
    <3> QED BY <3>1, <3>2
  <2>3. CASE Insert(p)
    BY <1>4, <2>3
  <2>4. CASE WriteFiles(p) \/ WriteFails(p) \/ CheckDir(p) \/ MoveAside(p) \/ AsideFails(p)
               \/ MoveIn(p) \/ InFails(p) \/ PutBack(p) \/ RemoveOld(p)
    BY <1>1, <2>4 DEF WriteFiles, WriteFails, CheckDir, MoveAside, AsideFails, MoveIn, InFails,
       PutBack, RemoveOld
  <2> QED BY <1>8, <2>1, <2>2, <2>3, <2>4 DEF Save
<1>9. ASSUME NEW p \in Pids, Evict(p) PROVE IndexTyped' /\ \A q \in Pids : IndexStep(q)
  <2>1. pc[p].key \in Keys
    BY <1>9, PcFacts DEF Evict, At, TypeOK
  <2> QED BY <1>3, <1>9, <2>1 DEF Evict
<1>10. ASSUME NEW p \in Pids,
             (\E k \in Keys, kind \in Kinds, s \in Sessions \cup {Nobody} : StartSave(p, k, kind, s))
               \/ Requests(p)
      PROVE  index' = index \/ Touch(p)
  BY <1>10, RequestMoves DEF StartSave
<1>11. ASSUME NEW p \in Pids, Crash(p) \/ CrashRemoving(p) PROVE Dies(p)
  BY <1>11 DEF Crash, CrashRemoving
<1>12. CASE Tick \/ UNCHANGED vars
  BY <1>1, <1>12 DEF Tick, vars
<1> QED BY <1>1, <1>5, <1>6, <1>7, <1>8, <1>9, <1>10, <1>11, <1>12 DEF Next, Requests

LEMMA IndexNext ==
  ASSUME TypeOK, IndexInv, IndexTyped, [Next]_vars
  PROVE  IndexInv'
<1> SUFFICES ASSUME NEW p \in Pids PROVE Agree(index'[p])
  BY DEF IndexInv, Agree, IndexVals, EntryVals, LineageOf, EntryBytes, Held
<1>1. IndexStep(p) /\ Agree(index[p])
  BY IndexMoves DEF IndexInv
<1>2. CASE index'[p] = Empty
  BY <1>2, EmptyAgrees
<1>3. CASE \E k \in Keys : index'[p] = Dropped(index[p], k)
  <2>1. PICK k \in Keys : index'[p] = Dropped(index[p], k)
    BY <1>3
  <2>2. Agree(Dropped(index[p], k))
    BY <1>1, DroppedAgrees
  <2> QED BY <2>1, <2>2
<1>4. CASE pc[p].at = "insert" /\ index'[p] =
             Added(index[p], pc[p].key, Entry(pc[p].kind, pc[p].used, pc[p].sess))
  <2> DEFINE e == Entry(pc[p].kind, pc[p].used, pc[p].sess)
             ix == index[p]
  <2>1. e \in EntryVals /\ e.bytes # 0 /\ pc[p].key \in Keys /\ Agree(ix)
    BY <1>1, <1>4, EntryFacts
  <2>2. index'[p] = Added(ix, pc[p].key, e)
    BY <1>4
  <2> HIDE DEF e, ix
  <2> QED BY <2>1, <2>2, AddedAgrees
<1>5. CASE pc[p].at = "touch" /\ index'[p] = Touched(index[p], pc[p].key)
  <2>1. pc[p].key \in Keys /\ now \in Nat
    BY <1>5, PcFacts DEF TypeOK, DiskTypes
  <2> QED BY <1>1, <1>5, <2>1, TouchedAgrees
<1>6. CASE \E o \in Orders({k \in Keys : HasMeta(disk[k])}) :
             index'[p] = Loaded({k \in Keys : HasMeta(disk[k])}, o)
  <2> DEFINE ks == {k \in Keys : HasMeta(disk[k])}
  <2>1. PICK o \in Orders(ks) : index'[p] = Loaded(ks, o)
    BY <1>6
  <2>2. ks \in SUBSET Keys /\ (\A k \in ks : HasMeta(disk[k])) /\ disk \in [Keys -> Dirs]
    BY DEF TypeOK, DiskTypes
  <2> HIDE DEF ks
  <2> QED BY <2>1, <2>2, LoadedAgrees
<1> QED BY <1>1, <1>2, <1>3, <1>4, <1>5, <1>6 DEF IndexStep

LEMMA IndexInit == Init => IndexInv /\ IndexTyped
BY EmptyAgrees DEF Init, IndexInv, IndexTyped

\* The world never changes, and only a load adds a process.
LEMMA WorldMoves ==
  ASSUME [Next]_vars
  PROVE  /\ world' = world /\ now' \in {now, now + 1}
         /\ alive' \subseteq alive \/ \E p \in Pids : Load(p) /\ alive' = alive \cup {p}
<1>1. CASE Tick \/ UNCHANGED vars
  BY <1>1 DEF Tick, vars
<1>2. ASSUME NEW p \in Pids, Save(p) PROVE world' = world /\ now' = now /\ alive' = alive
  BY <1>2 DEF Save, WriteFiles, WriteFails, CheckDir, MoveAside, AsideFails, MoveIn, InFails,
     PutBack, RemoveOld, Insert, EvictLineage, EvictToFit
<1>3. ASSUME NEW p \in Pids,
             (\E k \in Keys, kind \in Kinds, s \in Sessions \cup {Nobody} : StartSave(p, k, kind, s))
               \/ Requests(p) \/ Evict(p)
      PROVE  world' = world /\ now' = now /\ alive' = alive
  BY <1>3 DEF StartSave, Requests, Probe, ReadMeta, ReadBlobs, NotResumed, RestoreFails, Touch, Stamp,
     StampFails, Evict
<1>4. ASSUME NEW p \in Pids, Load(p) PROVE world' = world /\ now' = now /\ alive' = alive \cup {p}
  BY <1>4 DEF Load
<1>5. ASSUME NEW p \in Pids, Crash(p) \/ CrashRemoving(p)
      PROVE  world' = world /\ now' = now /\ alive' \subseteq alive
  BY <1>5 DEF Crash, CrashRemoving, Dies
<1> QED
  BY <1>1, <1>2, <1>3, <1>4, <1>5 DEF Next, Requests

(***************************************************************************)
(* Committed snapshots are kept                                            *)
(***************************************************************************)
SameDir(d, e) == (Whole(d) <=> Whole(e)) /\ (d = NoDir <=> e = NoDir)

\* A process that is not between its renames moves on; what it removes from the
\* disk, nobody owns any more.
LEMMA KeptFrame ==
  ASSUME TypeOK, KeptInv, NEW p \in alive, world' = world, alive' = alive,
         \A q \in Pids \ {p} : pc'[q] = pc[q] /\ tmp'[q] = tmp[q] /\ old'[q] = old[q],
         ~ BetweenRenames(p), pc'[p].at \notin {"in", "back"} \/ ~ pc'[p].moved,
         pc'[p].at # "back",
         pc'[p].at \in {"check", "aside", "in"} => Whole(tmp'[p][pc'[p].key]),
         \A k \in Keys : SameDir(old'[p][k], old[p][k]) \/ old'[p][k] \in Removed(old[p][k]),
         \A k \in Keys : owner'[k] # Nobody => owner[k] # Nobody /\ SameDir(disk'[k], disk[k]),
         \A k \in Keys : SameDir(disk'[k], disk[k]) \/ disk'[k] \in Removed(disk[k])
  PROVE  KeptInv'
<1>1. alive \subseteq Pids /\ world \in Worlds
  BY DEF TypeOK, ProcTypes, DiskTypes
<1>2. TmpWhole'
  <2> SUFFICES ASSUME NEW q \in alive, pc'[q].at \in {"check", "aside", "in"}
               PROVE  Whole(tmp'[q][pc'[q].key])
    BY DEF TmpWhole, Whole
  <2>1. CASE q = p
    BY <2>1
  <2>2. CASE q # p
    BY <1>1, <2>2 DEF KeptInv, TmpWhole
  <2> QED BY <2>1, <2>2
<1>3. OneAtATime' /\ Survivable(world')
  BY DEF KeptInv, OneAtATime
<1>4. AllWhole'
  <2> SUFFICES ASSUME world.overlap, NEW k \in Keys
               PROVE  /\ disk'[k] = NoDir \/ Whole(disk'[k])
                      /\ \A q \in Pids : old'[q][k] = NoDir \/ Whole(old'[q][k])
    BY DEF AllWhole, Whole
  <2>1. \A d : Removed(d) = {NoDir}
    BY DEF KeptInv, Survivable, Removed, Fault
  <2>2. /\ disk[k] = NoDir \/ Whole(disk[k])
        /\ \A q \in Pids : old[q][k] = NoDir \/ Whole(old[q][k])
    BY DEF KeptInv, AllWhole
  <2>3. disk'[k] = NoDir \/ Whole(disk'[k])
    BY <2>1, <2>2 DEF SameDir
  <2>4. old'[p][k] = NoDir \/ Whole(old'[p][k])
    BY <1>1, <2>1, <2>2 DEF SameDir
  <2> QED BY <2>2, <2>3, <2>4
<1>5. ASSUME NEW q \in alive
      PROVE  /\ BetweenRenames(q)' <=> q # p /\ BetweenRenames(q)
             /\ pc'[q].at = "back" => pc'[q].moved
  <2>1. CASE q = p
    BY <2>1 DEF BetweenRenames
  <2>2. CASE q # p
    BY <1>1, <2>2 DEF BetweenRenames, KeptInv, AsideKept
  <2> QED BY <2>1, <2>2
<1>6. AsideKept'
  <2> SUFFICES ASSUME NEW q \in alive, BetweenRenames(q)'
               PROVE  /\ old'[q][pc'[q].key] # NoDir
                      /\ world.overlap \/ disk'[pc'[q].key] = NoDir
    BY <1>5 DEF AsideKept
  <2>1. q # p /\ BetweenRenames(q) /\ pc'[q] = pc[q] /\ old'[q] = old[q]
    BY <1>1, <1>5
  <2>2. world.overlap
    BY <2>1 DEF KeptInv, OneAtATime
  <2> QED BY <2>1, <2>2 DEF KeptInv, AsideKept
<1>7. ASSUME NEW k \in Keys, owner'[k] # Nobody PROVE Kept(k)'
  <2>1. Kept(k) /\ SameDir(disk'[k], disk[k])
    BY <1>7 DEF KeptInv
  <2>2. CASE Whole(disk[k])
    BY <2>1, <2>2 DEF Kept, SameDir, Whole
  <2>3. CASE ~ Whole(disk[k])
    <3>1. PICK q \in alive : Whole(old[q][k]) /\ BetweenRenames(q) /\ pc[q].key = k
      BY <2>1, <2>3 DEF Kept
    <3>2. q # p /\ pc'[q] = pc[q] /\ old'[q] = old[q] /\ BetweenRenames(q)'
      BY <1>1, <1>5, <3>1
    <3> QED BY <3>1, <3>2 DEF Kept, Whole
  <2> QED BY <2>2, <2>3
<1> QED BY <1>2, <1>3, <1>4, <1>6, <1>7 DEF KeptInv

LEMMA SameSame == \A d : SameDir(d, d)
BY DEF SameDir

\* Steps of a save that rename nothing.
LEMMA KeptWrites ==
  ASSUME TypeOK, KeptInv, NEW p \in Pids,
         WriteFiles(p) \/ WriteFails(p) \/ CheckDir(p) \/ AsideFails(p) \/ RemoveOld(p) \/ Insert(p)
  PROVE  KeptInv'
<1> DEFINE k == pc[p].key
<1>1. /\ p \in alive /\ pc[p].at \in SaveAts /\ pc[p] \in Saving /\ k \in Keys
      /\ ProcTypes /\ alive' = alive /\ world' = world /\ disk' = disk /\ owner' = owner
      /\ pc[p].at \notin {"in", "back"}
  <2>1. p \in alive /\ pc[p].at \in SaveAts /\ pc[p].at \notin {"in", "back"}
    BY DEF WriteFiles, WriteFails, CheckDir, AsideFails, RemoveOld, Insert, At, SaveAts
  <2> QED BY <2>1, PcFacts DEF TypeOK, WriteFiles, WriteFails, CheckDir, AsideFails, RemoveOld, Insert
<1>2. /\ tmp \in [Pids -> [Keys -> Dirs]] /\ old \in [Pids -> [Keys -> Dirs]]
      /\ ~ BetweenRenames(p)
  BY <1>1 DEF TypeOK, DiskTypes, BetweenRenames
<1> HIDE DEF k
<1>3. CASE WriteFiles(p)
  <2>1. /\ tmp' = [tmp EXCEPT ![p][k] = Dir(pc[p].kind, now, pc[p].sess)] /\ old' = old
        /\ pc'[p].at = "check" /\ pc'[p].key = k /\ \A q \in Pids \ {p} : pc'[q] = pc[q]
    BY <1>3, WriteFilesTypes DEF WriteFiles, k
  <2>2. Whole(tmp'[p][k]) /\ \A q \in Pids \ {p} : tmp'[q] = tmp[q]
    BY <1>1, <1>2, <2>1 DEF Whole, Dir
  <2> QED BY <1>1, <1>2, <2>1, <2>2, SameSame, KeptFrame
<1>4. CASE WriteFails(p) \/ AsideFails(p)
  <2>1. old' = old /\ GiveUp(p)
    BY <1>4 DEF WriteFails, AsideFails
  <2>2. pc'[p] = Idle /\ \A q \in Pids \ {p} : pc'[q] = pc[q] /\ tmp'[q] = tmp[q]
    BY <1>1, <2>1, GiveUpFacts
  <2>3. pc'[p].at = "idle"
    BY <2>2 DEF Idle
  <2> QED BY <1>1, <1>2, <2>1, <2>2, <2>3, SameSame, KeptFrame
<1>5. CASE CheckDir(p)
  <2>0. Whole(tmp[p][k]) /\ ~ pc[p].moved /\ tmp' = tmp
    BY <1>1, <1>5 DEF CheckDir, At, KeptInv, TmpWhole, TypeOK, SaveSteps, k
  <2>1. CASE disk[k] = NoDir
    <3>1. Goto(p, "in") /\ old' = old
      BY <1>5, <2>1 DEF CheckDir, k
    <3>2. /\ pc'[p].at = "in" /\ pc'[p].key = k /\ ~ pc'[p].moved
          /\ \A q \in Pids \ {p} : pc'[q] = pc[q]
      BY <1>1, <2>0, <3>1, GotoFacts DEF SaveAts, k
    <3> QED BY <1>1, <1>2, <2>0, <3>1, <3>2, SameSame, KeptFrame
  <2>2. CASE disk[k] # NoDir
    <3>1. Goto(p, "aside")
      BY <1>5, <2>2 DEF CheckDir, k
    <3>2. /\ pc'[p].at = "aside" /\ pc'[p].key = k
          /\ \A q \in Pids \ {p} : pc'[q] = pc[q]
      BY <1>1, <3>1, GotoFacts DEF SaveAts, k
    <3>3. PICK left \in Removed(old[p][k]) : old' = [old EXCEPT ![p][k] = left]
      BY <1>5, <2>2 DEF CheckDir, k
    <3>4. /\ \A q \in Pids \ {p} : old'[q] = old[q]
          /\ \A j \in Keys : old'[p][j] = old[p][j] \/ old'[p][j] \in Removed(old[p][j])
      BY <1>1, <1>2, <3>3
    <3> QED BY <1>1, <1>2, <2>0, <3>2, <3>4, SameSame, KeptFrame
  <2> QED BY <2>1, <2>2
<1>6. CASE RemoveOld(p)
  <2>1. PICK left \in Removed(old[p][k]) : old' = [old EXCEPT ![p][k] = left]
    BY <1>6 DEF RemoveOld, k
  <2>2. /\ \A q \in Pids \ {p} : old'[q] = old[q]
        /\ \A j \in Keys : old'[p][j] = old[p][j] \/ old'[p][j] \in Removed(old[p][j])
    BY <1>1, <1>2, <2>1
  <2>3. Goto(p, "insert") /\ tmp' = tmp
    BY <1>6 DEF RemoveOld
  <2>4. pc'[p].at = "insert" /\ \A q \in Pids \ {p} : pc'[q] = pc[q]
    BY <1>1, <2>3, GotoFacts DEF SaveAts
  <2> QED BY <1>1, <1>2, <2>2, <2>3, <2>4, SameSame, KeptFrame
<1>7. CASE Insert(p)
  <2>1. Goto(p, IF pc[p].sess = Nobody THEN "fit" ELSE "lineage") /\ tmp' = tmp /\ old' = old
    BY <1>7 DEF Insert
  <2>2. pc'[p].at \in {"fit", "lineage"} /\ \A q \in Pids \ {p} : pc'[q] = pc[q]
    BY <1>1, <2>1, GotoFacts DEF SaveAts
  <2> QED BY <1>1, <1>2, <2>1, <2>2, SameSame, KeptFrame
<1> QED BY <1>3, <1>4, <1>5, <1>6, <1>7

\* Steps outside the renames: a save starts, a request restores.
LEMMA KeptOutside ==
  ASSUME TypeOK, KeptInv, NEW p \in Pids,
         (\E k \in Keys, kind \in Kinds, s \in Lineages : StartSave(p, k, kind, s)) \/ Requests(p)
  PROVE  KeptInv'
<1>1. CASE \E k \in Keys, kind \in Kinds, s \in Lineages : StartSave(p, k, kind, s)
  <2>1. PICK k \in Keys, kind \in Kinds, s \in Lineages : StartSave(p, k, kind, s)
    BY <1>1
  <2>2. /\ p \in alive /\ alive' = alive /\ world' = world /\ owner' = owner /\ old' = old
        /\ pc[p].at = "idle" /\ pc'[p].at = "write" /\ disk' = disk
        /\ \A q \in Pids \ {p} : pc'[q] = pc[q] /\ tmp'[q] = tmp[q]
    BY <2>1 DEF StartSave, At, TypeOK, ProcTypes, DiskTypes
  <2>3. ~ BetweenRenames(p)
    BY <2>2 DEF BetweenRenames
  <2> QED BY <2>2, <2>3, SameSame, KeptFrame
<1>2. CASE Requests(p)
  <2>1. /\ p \in alive /\ alive' = alive /\ world' = world /\ owner' = owner
        /\ tmp' = tmp /\ old' = old /\ pc[p].at \notin {"in", "back"}
        /\ pc'[p].at \notin {"check", "aside", "in", "back"}
        /\ \A q \in Pids \ {p} : pc'[q] = pc[q]
        /\ disk' = disk \/ Stamp(p)
    BY <1>2, RequestMoves
  <2>2. ~ BetweenRenames(p)
    BY <2>1 DEF BetweenRenames
  <2>3. \A j \in Keys : SameDir(disk'[j], disk[j])
    <3>1. CASE disk' = disk
      BY <3>1, SameSame
    <3>2. CASE Stamp(p)
      <4> DEFINE k == pc[p].key
                 e == WithMeta(disk[k], pc[p])
      <4>1. /\ k \in Keys /\ disk' = [disk EXCEPT ![k] = e] /\ HasMeta(e) /\ disk[k] # NoDir
            /\ Whole(e) <=> Whole(disk[k])
        BY <3>2, StampFacts
      <4> HIDE DEF k, e
      <4>2. SameDir(e, disk[k])
        BY <4>1 DEF SameDir, HasMeta, NoDir
      <4> QED BY <4>1, <4>2, SameSame DEF TypeOK, DiskTypes
    <3> QED BY <2>1, <3>1, <3>2
  <2> QED BY <2>1, <2>2, <2>3, SameSame, KeptFrame
<1> QED BY <1>1, <1>2

LEMMA KeptEvicts ==
  ASSUME TypeOK, IndexInv, KeptInv, NEW p \in Pids, EvictLineage(p) \/ EvictToFit(p) \/ Evict(p)
  PROVE  KeptInv'
<1>1. /\ p \in alive /\ ProcTypes /\ alive' = alive /\ world' = world /\ old' = old /\ tmp' = tmp
      /\ pc[p].at \notin {"in", "back"} /\ pc[p].at \in {"lineage", "fit", "evict"}
  BY DEF EvictLineage, EvictToFit, Evict, At, TypeOK, ProcTypes
<1>2. ~ BetweenRenames(p)
  BY <1>1 DEF BetweenRenames
<1>3. ASSUME pc'[p].at \in {"lineage", "fit", "idle"}, \A q \in Pids \ {p} : pc'[q] = pc[q],
             \/ disk' = disk /\ owner' = owner
             \/ \E k \in Keys : RemoveEntry(p, k)
      PROVE  KeptInv'
  <2>1. CASE disk' = disk /\ owner' = owner
    BY <1>1, <1>2, <1>3, <2>1, SameSame, KeptFrame
  <2>2. CASE \E k \in Keys : RemoveEntry(p, k)
    <3>1. PICK k \in Keys : RemoveEntry(p, k)
      BY <2>2
    <3>2. /\ disk'[k] \in Removed(disk[k]) /\ owner'[k] = Nobody
          /\ \A j \in Keys \ {k} : disk'[j] = disk[j] /\ owner'[j] = owner[j]
      BY <3>1, RemoveEntryFacts
    <3> QED BY <1>1, <1>2, <1>3, <3>2, SameSame, KeptFrame
  <2> QED BY <1>3, <2>1, <2>2
<1>4. CASE EvictLineage(p)
  <2>1. CASE Len(index[p].bySess[pc[p].sess]) > PerLineage
    BY <1>1, <1>3, <1>4, <2>1, EvictedKeys DEF EvictLineage, At
  <2>2. CASE ~ (Len(index[p].bySess[pc[p].sess]) > PerLineage)
    <3>1. Goto(p, "fit") /\ disk' = disk /\ owner' = owner /\ pc[p].at \in SaveAts
      BY <1>4, <2>2 DEF EvictLineage, At, SaveAts
    <3>2. pc'[p].at = "fit" /\ \A q \in Pids \ {p} : pc'[q] = pc[q]
      BY <1>1, <3>1, GotoFacts DEF SaveAts
    <3> QED BY <1>3, <3>1, <3>2
  <2> QED BY <2>1, <2>2
<1>5. CASE EvictToFit(p)
  <2>1. CASE index[p].bytes > CapBytes
    BY <1>1, <1>3, <1>5, <2>1, EvictedKeys DEF EvictToFit, At
  <2>2. CASE ~ (index[p].bytes > CapBytes)
    BY <1>1, <1>3, <1>5, <2>2, RestsFacts DEF EvictToFit
  <2> QED BY <2>1, <2>2
<1>6. CASE Evict(p)
  BY <1>1, <1>3, <1>6, PcFacts, RestsFacts DEF Evict, At
<1> QED BY <1>4, <1>5, <1>6

\* The directories of the other processes stay, and whoever is between its renames.
LEMMA KeptOthers ==
  ASSUME TypeOK, KeptInv, NEW p \in alive, world' = world, alive' = alive,
         \A q \in Pids \ {p} : pc'[q] = pc[q] /\ tmp'[q] = tmp[q] /\ old'[q] = old[q],
         pc'[p].at \in {"check", "aside", "in"} => Whole(tmp'[p][pc'[p].key]),
         world.overlap =>
           \A k \in Keys : /\ disk'[k] = NoDir \/ Whole(disk'[k])
                           /\ old'[p][k] = NoDir \/ Whole(old'[p][k]),
         pc'[p].at = "back" => pc'[p].moved,
         pc'[p].at \in {"in", "back"} /\ pc'[p].moved =>
           /\ old'[p][pc'[p].key] # NoDir
           /\ world.overlap \/ disk'[pc'[p].key] = NoDir,
         \A k \in Keys : owner'[k] # Nobody => Kept(k)'
  PROVE  KeptInv'
<1>1. alive \subseteq Pids /\ world \in Worlds
  BY DEF TypeOK, ProcTypes, DiskTypes
<1>2. TmpWhole'
  <2> SUFFICES ASSUME NEW q \in alive, pc'[q].at \in {"check", "aside", "in"}
               PROVE  Whole(tmp'[q][pc'[q].key])
    BY DEF TmpWhole, Whole
  <2>1. CASE q = p
    BY <2>1
  <2>2. CASE q # p
    BY <1>1, <2>2 DEF KeptInv, TmpWhole
  <2> QED BY <2>1, <2>2
<1>3. OneAtATime' /\ Survivable(world')
  BY DEF KeptInv, OneAtATime
<1>4. AllWhole'
  BY <1>1 DEF KeptInv, AllWhole, Whole
<1>5. AsideKept'
  <2> SUFFICES ASSUME NEW q \in alive
               PROVE  /\ pc'[q].at = "back" => pc'[q].moved
                      /\ pc'[q].at \in {"in", "back"} /\ pc'[q].moved =>
                           /\ old'[q][pc'[q].key] # NoDir
                           /\ world.overlap \/ disk'[pc'[q].key] = NoDir
    BY DEF AsideKept, BetweenRenames
  <2>1. CASE q = p
    BY <2>1
  <2>2. CASE q # p
    <3>1. world.overlap /\ pc'[q] = pc[q] /\ old'[q] = old[q]
      BY <1>1, <2>2 DEF KeptInv, OneAtATime
    <3> QED BY <3>1 DEF KeptInv, AsideKept, BetweenRenames
  <2> QED BY <2>1, <2>2
<1> QED BY <1>2, <1>3, <1>4, <1>5 DEF KeptInv

\* A process still between its renames keeps what it has moved aside.
LEMMA KeptByOther ==
  ASSUME TypeOK, NEW p \in alive, alive' = alive, NEW q \in alive \ {p}, NEW k \in Keys,
         pc'[q] = pc[q], old'[q] = old[q],
         Whole(old[q][k]), BetweenRenames(q), pc[q].key = k
  PROVE  Kept(k)'
BY DEF Kept, BetweenRenames, Whole

LEMMA KeptRenames ==
  ASSUME TypeOK, KeptInv, NEW p \in Pids, MoveAside(p) \/ MoveIn(p) \/ InFails(p) \/ PutBack(p)
  PROVE  KeptInv'
<1> DEFINE k == pc[p].key
<1>1. /\ p \in alive /\ pc[p].at \in SaveAts /\ pc[p] \in Saving /\ k \in Keys /\ alive \subseteq Pids
      /\ ProcTypes /\ alive' = alive /\ world' = world
      /\ disk \in [Keys -> Dirs] /\ tmp \in [Pids -> [Keys -> Dirs]] /\ old \in [Pids -> [Keys -> Dirs]]
      /\ pc \in [Pids -> {Idle} \cup Saving \cup Restoring \cup Stamping]
      /\ owner \in [Keys -> alive \cup {Nobody, Left}]
  <2>1. p \in alive /\ pc[p].at \in SaveAts
    BY DEF MoveAside, MoveIn, InFails, PutBack, At, SaveAts
  <2> QED BY <2>1, PcFacts DEF TypeOK, ProcTypes, DiskTypes, MoveAside, MoveIn, InFails, PutBack
<1>2. /\ pc[p].at \in {"aside", "in"} => Whole(tmp[p][k])
      /\ world.overlap => \A j \in Keys : /\ disk[j] = NoDir \/ Whole(disk[j])
                                          /\ old[p][j] = NoDir \/ Whole(old[p][j])
      /\ pc[p].at = "back" => pc[p].moved
      /\ pc[p].at \in {"in", "back"} /\ pc[p].moved =>
           old[p][k] # NoDir /\ (world.overlap \/ disk[k] = NoDir)
      /\ \A j \in Keys : owner[j] # Nobody => Kept(j)
  BY <1>1 DEF KeptInv, TmpWhole, AllWhole, AsideKept, BetweenRenames
<1> HIDE DEF k
<1>3. CASE MoveAside(p)
  <2>1. /\ old' = [old EXCEPT ![p][k] = disk[k]] /\ disk' = [disk EXCEPT ![k] = NoDir] /\ tmp' = tmp
        /\ owner' = owner /\ pc[p].at = "aside" /\ disk[k] # NoDir
        /\ pc'[p] = [[pc[p] EXCEPT !.at = "in"] EXCEPT !.moved = TRUE]
        /\ \A q \in Pids \ {p} : pc'[q] = pc[q]
    BY <1>1, <1>3 DEF MoveAside, k, At
  <2>2. pc'[p].at = "in" /\ pc'[p].moved /\ pc'[p].key = k
    BY <1>1, <2>1 DEF Saving, k
  <2>3. /\ old'[p][k] = disk[k] /\ disk'[k] = NoDir
        /\ \A j \in Keys \ {k} : disk'[j] = disk[j] /\ old'[p][j] = old[p][j]
        /\ \A q \in Pids \ {p} : old'[q] = old[q]
    BY <1>1, <2>1
  <2>4. ASSUME NEW j \in Keys, owner'[j] # Nobody PROVE Kept(j)'
    <3>0. Kept(j)
      BY <1>2, <2>1, <2>4
    <3>1. CASE Whole(disk[j])
      <4>1. CASE j # k
        BY <2>3, <3>1, <4>1 DEF Kept, Whole
      <4>2. CASE j = k
        BY <1>1, <2>2, <2>3, <3>1, <4>2 DEF Kept, Whole, BetweenRenames
      <4> QED BY <4>1, <4>2
    <3>2. CASE ~ Whole(disk[j])
      <4>1. PICK q \in alive : Whole(old[q][j]) /\ BetweenRenames(q) /\ pc[q].key = j
        BY <3>0, <3>2 DEF Kept
      <4>2. q # p
        BY <2>1, <4>1 DEF BetweenRenames
      <4> QED BY <1>1, <2>1, <2>3, <4>1, <4>2, KeptByOther
    <3> QED BY <3>1, <3>2
  <2>5. world.overlap => \A j \in Keys : /\ disk'[j] = NoDir \/ Whole(disk'[j])
                                         /\ old'[p][j] = NoDir \/ Whole(old'[p][j])
    BY <1>2, <2>3
  <2>6. \A q \in Pids \ {p} : pc'[q] = pc[q] /\ tmp'[q] = tmp[q] /\ old'[q] = old[q]
    BY <2>1, <2>3
  <2>7. Whole(tmp'[p][pc'[p].key])
    BY <1>2, <2>1, <2>2
  <2>8. /\ old'[p][pc'[p].key] # NoDir
        /\ world.overlap \/ disk'[pc'[p].key] = NoDir
    BY <2>1, <2>2, <2>3
  <2>9. pc'[p].at = "back" => pc'[p].moved
    BY <2>2
  <2> QED BY <1>1, <2>4, <2>5, <2>6, <2>7, <2>8, <2>9, KeptOthers
<1>4. CASE MoveIn(p)
  <2>1. /\ disk' = [disk EXCEPT ![k] = tmp[p][k]] /\ tmp' = [tmp EXCEPT ![p][k] = NoDir] /\ old' = old
        /\ owner' = [owner EXCEPT ![k] = p] /\ pc[p].at = "in"
        /\ Goto(p, IF pc[p].moved THEN "clean" ELSE "insert")
    BY <1>1, <1>4 DEF MoveIn, k, At
  <2>2. pc'[p].at \in {"clean", "insert"} /\ \A q \in Pids \ {p} : pc'[q] = pc[q]
    BY <1>1, <2>1, GotoFacts DEF SaveAts
  <2>3. /\ Whole(disk'[k]) /\ \A j \in Keys \ {k} : disk'[j] = disk[j] /\ owner'[j] = owner[j]
        /\ \A q \in Pids \ {p} : tmp'[q] = tmp[q]
    BY <1>1, <1>2, <2>1
  <2>4. ASSUME NEW j \in Keys, owner'[j] # Nobody PROVE Kept(j)'
    <3>1. CASE j = k
      BY <2>3, <3>1 DEF Kept, Whole
    <3>2. CASE j # k
      <4>1. Kept(j)
        BY <1>2, <2>3, <2>4, <3>2
      <4>2. CASE Whole(disk[j])
        BY <2>3, <3>2, <4>2 DEF Kept, Whole
      <4>3. CASE ~ Whole(disk[j])
        <5>1. PICK q \in alive : Whole(old[q][j]) /\ BetweenRenames(q) /\ pc[q].key = j
          BY <4>1, <4>3 DEF Kept
        <5>2. q # p
          BY <3>2, <5>1 DEF k
        <5> QED BY <1>1, <2>1, <2>2, <5>1, <5>2, KeptByOther
      <4> QED BY <4>2, <4>3
    <3> QED BY <3>1, <3>2
  <2>5. world.overlap => \A j \in Keys : /\ disk'[j] = NoDir \/ Whole(disk'[j])
                                         /\ old'[p][j] = NoDir \/ Whole(old'[p][j])
    BY <1>2, <2>1, <2>3
  <2> QED BY <1>1, <1>2, <2>1, <2>2, <2>3, <2>4, <2>5, KeptOthers
<1>5. CASE InFails(p) /\ pc[p].moved
  <2>1. /\ Goto(p, "back") /\ tmp' = tmp /\ disk' = disk /\ old' = old /\ owner' = owner /\ pc[p].at = "in"
    BY <1>5 DEF InFails, At
  <2>2. /\ pc'[p].at = "back" /\ pc'[p].moved /\ pc'[p].key = k
        /\ \A q \in Pids \ {p} : pc'[q] = pc[q]
    BY <1>1, <1>5, <2>1, GotoFacts DEF SaveAts, k
  <2>3. ASSUME NEW j \in Keys, owner'[j] # Nobody PROVE Kept(j)'
    <3>1. Kept(j)
      BY <1>2, <2>1, <2>3
    <3>2. CASE Whole(disk[j])
      BY <2>1, <3>2 DEF Kept, Whole
    <3>3. CASE ~ Whole(disk[j])
      <4>1. PICK q \in alive : Whole(old[q][j]) /\ BetweenRenames(q) /\ pc[q].key = j
        BY <3>1, <3>3 DEF Kept
      <4>2. CASE q = p
        BY <1>1, <2>1, <2>2, <4>1, <4>2 DEF Kept, Whole, BetweenRenames, k
      <4>3. CASE q # p
        BY <1>1, <2>1, <2>2, <4>1, <4>3, KeptByOther
      <4> QED BY <4>2, <4>3
    <3> QED BY <3>2, <3>3
  <2> QED BY <1>1, <1>2, <1>5, <2>1, <2>2, <2>3, KeptOthers
<1>6. CASE InFails(p) /\ ~ pc[p].moved
  <2>1. GiveUp(p) /\ disk' = disk /\ old' = old /\ owner' = owner
    BY <1>6 DEF InFails
  <2>2. pc'[p] = Idle /\ \A q \in Pids \ {p} : pc'[q] = pc[q] /\ tmp'[q] = tmp[q]
    BY <1>1, <2>1, GiveUpFacts
  <2>3. pc'[p].at = "idle" /\ ~ BetweenRenames(p)
    BY <1>6, <2>2 DEF Idle, BetweenRenames
  <2> QED BY <1>1, <2>1, <2>2, <2>3, SameSame, KeptFrame
<1>7. CASE PutBack(p)
  <2>1. GiveUp(p) /\ owner' = owner /\ pc[p].at = "back"
    BY <1>7 DEF PutBack, At
  <2>2. pc'[p] = Idle /\ \A q \in Pids \ {p} : pc'[q] = pc[q] /\ tmp'[q] = tmp[q]
    BY <1>1, <2>1, GiveUpFacts
  <2>3. pc'[p].at = "idle"
    BY <2>2 DEF Idle
  <2>4. ~ Fault("back") /\ old[p][k] # NoDir /\ (world.overlap \/ disk[k] = NoDir)
    BY <1>2, <2>1 DEF KeptInv, Survivable, Fault
  <2>5. \/ /\ disk[k] = NoDir
           /\ disk' = [disk EXCEPT ![k] = old[p][k]] /\ old' = [old EXCEPT ![p][k] = NoDir]
        \/ world.overlap /\ disk[k] # NoDir /\ disk' = disk /\ old' = old
    BY <1>7, <2>4 DEF PutBack, k
  <2>6. /\ \A j \in Keys \ {k} : disk'[j] = disk[j] /\ old'[p][j] = old[p][j]
        /\ \A q \in Pids \ {p} : old'[q] = old[q]
    BY <1>1, <2>5
  <2>7. world.overlap => \A j \in Keys : /\ disk'[j] = NoDir \/ Whole(disk'[j])
                                         /\ old'[p][j] = NoDir \/ Whole(old'[p][j])
    BY <1>1, <1>2, <2>5
  <2>8. ASSUME NEW j \in Keys, owner'[j] # Nobody PROVE Kept(j)'
    <3>1. Kept(j)
      BY <1>2, <2>1, <2>8
    <3>2. CASE Whole(disk[j])
      <4>1. CASE j = k
        BY <1>1, <2>5, <3>2, <4>1 DEF Kept, Whole, NoDir
      <4>2. CASE j # k
        BY <2>6, <3>2, <4>2 DEF Kept, Whole
      <4> QED BY <4>1, <4>2
    <3>3. CASE ~ Whole(disk[j])
      <4>1. PICK q \in alive : Whole(old[q][j]) /\ BetweenRenames(q) /\ pc[q].key = j
        BY <3>1, <3>3 DEF Kept
      <4>2. CASE q # p
        BY <1>1, <2>2, <2>6, <4>1, <4>2, KeptByOther
      <4>3. CASE q = p
        <5>1. j = k /\ Whole(old[p][k])
          BY <4>1, <4>3 DEF k
        <5>2. disk[k] = NoDir
          BY <1>1, <1>2, <2>5, <3>3, <5>1
        <5>3. Whole(disk'[k])
          BY <1>1, <2>5, <5>1, <5>2
        <5> QED BY <5>1, <5>3 DEF Kept, Whole
      <4> QED BY <4>2, <4>3
    <3> QED BY <3>2, <3>3
  <2> QED BY <1>1, <2>2, <2>3, <2>6, <2>7, <2>8, KeptOthers
<1> QED BY <1>3, <1>4, <1>5, <1>6, <1>7

LEMMA KeptRestarts ==
  ASSUME TypeOK, KeptInv, NEW p \in Pids, Load(p) \/ Crash(p) \/ CrashRemoving(p)
  PROVE  KeptInv'
<1>1. /\ alive \subseteq Pids /\ world' = world
      /\ disk \in [Keys -> Dirs] /\ tmp \in [Pids -> [Keys -> Dirs]] /\ old \in [Pids -> [Keys -> Dirs]]
      /\ pc \in [Pids -> {Idle} \cup Saving \cup Restoring \cup Stamping]
      /\ owner \in [Keys -> alive \cup {Nobody, Left}] /\ Survivable(world')
      /\ \A q \in Pids : q \notin alive => pc[q] = Idle
  BY DEF TypeOK, ProcTypes, DiskTypes, Load, Crash, CrashRemoving, KeptInv
<1>2. CASE Load(p)
  <2>1. /\ p \notin alive /\ (alive = {} \/ world.overlap) /\ alive' = alive \cup {p}
        /\ pc' = pc /\ disk' = disk /\ pc[p].at = "idle"
    BY <1>1, <1>2 DEF Load, Idle
  <2>2. \A q \in alive : tmp'[q] = tmp[q] /\ old'[q] = old[q]
    <3>1. CASE /\ tmp' = [q \in Pids |-> IF Stale(p, q) THEN [k \in Keys |-> NoDir] ELSE tmp[q]]
               /\ old' = [q \in Pids |-> IF Stale(p, q) THEN [k \in Keys |-> NoDir] ELSE old[q]]
      <4>1. ASSUME NEW q \in alive PROVE ~ Stale(p, q) /\ q \in Pids
        BY <1>1, <2>1, <4>1 DEF Stale
      <4> QED BY <3>1, <4>1
    <3>2. CASE tmp' = tmp /\ old' = old
      BY <3>2
    <3> QED BY <1>2, <3>1, <3>2 DEF Load
  <2>3. \A q \in Pids, k \in Keys : old'[q][k] = NoDir \/ old'[q][k] = old[q][k]
    BY <1>2 DEF Load
  <2>4. \A k \in Keys : owner'[k] # Nobody => Whole(disk[k]) \/ owner[k] # Nobody
    BY <1>2 DEF Load
  <2>5. TmpWhole'
    BY <2>1, <2>2 DEF KeptInv, TmpWhole, Whole
  <2>6. OneAtATime'
    BY <1>1, <2>1 DEF OneAtATime
  <2>7. AllWhole'
    BY <1>1, <2>1, <2>3 DEF KeptInv, AllWhole, Whole
  <2>8. AsideKept'
    BY <1>1, <2>1, <2>2 DEF KeptInv, AsideKept, BetweenRenames
  <2>9. ASSUME NEW k \in Keys, owner'[k] # Nobody PROVE Kept(k)'
    <3>1. Kept(k)
      BY <2>4, <2>9 DEF KeptInv, Kept
    <3> QED BY <2>1, <2>2, <3>1 DEF Kept, Whole, BetweenRenames
  <2> QED BY <1>1, <2>5, <2>6, <2>7, <2>8, <2>9 DEF KeptInv
<1>3. CASE Crash(p)
  <2>1. /\ alive' = alive \ {p} /\ disk' = disk /\ tmp' = tmp /\ old' = old
        /\ \A q \in Pids \ {p} : pc'[q] = pc[q]
        /\ owner' = Orphaned(owner, p)
    BY <1>1, <1>3 DEF Crash, Dies, Rests
  <2>2. ~ BetweenRenames(p)
    BY <1>3 DEF Crash, KeptInv, Survivable, Fault
  <2>3. \A q \in alive' : q \in alive /\ q # p /\ pc'[q] = pc[q]
    BY <1>1, <2>1
  <2>4. TmpWhole'
    BY <2>1, <2>3 DEF KeptInv, TmpWhole, Whole
  <2>5. OneAtATime'
    BY <1>1, <2>3 DEF KeptInv, OneAtATime
  <2>6. AllWhole'
    BY <1>1, <2>1 DEF KeptInv, AllWhole, Whole
  <2>7. AsideKept'
    BY <1>1, <2>1, <2>3 DEF KeptInv, AsideKept, BetweenRenames
  <2>8. ASSUME NEW k \in Keys, owner'[k] # Nobody PROVE Kept(k)'
    <3>1. owner[k] # Nobody
      BY <1>1, <2>1, <2>8, OrphanedFacts
    <3>2. Kept(k)
      BY <3>1 DEF KeptInv
    <3>3. CASE Whole(disk[k])
      BY <2>1, <3>3 DEF Kept, Whole
    <3>4. CASE ~ Whole(disk[k])
      <4>1. PICK q \in alive : Whole(old[q][k]) /\ BetweenRenames(q) /\ pc[q].key = k
        BY <3>2, <3>4 DEF Kept
      <4>2. q # p /\ q \in alive' /\ pc'[q] = pc[q]
        BY <1>1, <2>1, <2>2, <4>1
      <4> QED BY <2>1, <4>1, <4>2 DEF Kept, Whole, BetweenRenames
    <3> QED BY <3>3, <3>4
  <2> QED BY <1>1, <2>4, <2>5, <2>6, <2>7, <2>8 DEF KeptInv
<1>4. CASE CrashRemoving(p)
  <2>1. /\ p \in alive /\ alive' = alive \ {p} /\ old' = old /\ ~ world.overlap
        /\ pc[p].at \in {"lineage", "fit", "evict"}
    BY <1>4 DEF CrashRemoving, Dies, At, KeptInv, Survivable, Fault
  <2>2. alive = {p} /\ alive' = {}
    BY <2>1 DEF KeptInv, OneAtATime
  <2>3. PICK k \in Keys : /\ \E left \in Remains(disk[k]) : disk' = [disk EXCEPT ![k] = left]
                          /\ owner' = Orphaned([owner EXCEPT ![k] = Nobody], p)
    BY <1>4 DEF CrashRemoving
  <2>4. \A j \in Keys \ {k} : disk'[j] = disk[j]
    BY <1>1, <2>3
  <2>5. ASSUME NEW j \in Keys, owner'[j] # Nobody PROVE Kept(j)'
    <3>1. [owner EXCEPT ![k] = Nobody] \in [Keys -> alive \cup {Nobody, Left}]
      BY <1>1
    <3>2. [owner EXCEPT ![k] = Nobody][j] # Nobody
      BY <1>1, <2>1, <2>3, <2>5, <3>1, OrphanedFacts
    <3>3. j # k /\ owner[j] # Nobody
      BY <1>1, <3>2
    <3>4. Whole(disk[j])
      BY <2>1, <2>2, <3>3 DEF KeptInv, Kept, BetweenRenames
    <3> QED BY <2>4, <3>3, <3>4 DEF Kept, Whole
  <2> QED BY <1>1, <2>1, <2>2, <2>5 DEF KeptInv, TmpWhole, OneAtATime, AllWhole, AsideKept
<1> QED BY <1>2, <1>3, <1>4

LEMMA KeptStep ==
  ASSUME TypeOK, IndexInv, KeptInv, [Next]_vars
  PROVE  KeptInv'
<1>1. CASE Tick \/ UNCHANGED vars
  BY <1>1 DEF Tick, vars, KeptInv, TmpWhole, OneAtATime, AllWhole, AsideKept, Kept, BetweenRenames, Whole
<1>2. ASSUME NEW p \in Pids, Save(p) PROVE KeptInv'
  BY <1>2, KeptWrites, KeptRenames, KeptEvicts DEF Save
<1>3. ASSUME NEW p \in Pids,
             (\E k \in Keys, kind \in Kinds, s \in Sessions \cup {Nobody} : StartSave(p, k, kind, s))
               \/ Requests(p)
      PROVE  KeptInv'
  BY <1>3, KeptOutside DEF Lineages
<1>4. ASSUME NEW p \in Pids, Evict(p) \/ Load(p) \/ Crash(p) \/ CrashRemoving(p) PROVE KeptInv'
  BY <1>4, KeptEvicts, KeptRestarts
<1> QED
  BY <1>1, <1>2, <1>3, <1>4 DEF Next, Requests

LEMMA KeptInit ==
  ASSUME Init, \A w \in Worlds : Survivable(w)
  PROVE  KeptInv
BY DEF Init, KeptInv, TmpWhole, OneAtATime, AllWhole, AsideKept

(***************************************************************************)
(* What a process owns is in its index                                     *)
(***************************************************************************)
LEMMA RemovalFacts ==
  ASSUME TypeOK, IndexInv, IndexTyped, NEW p \in Pids, NEW k \in Keys, RemoveEntry(p, k)
  PROVE  /\ Held(index'[p]) = Held(index[p]) \ {k}
         /\ index'[p].ent[k] = NoEntry
         /\ \A j \in Keys \ {k} : index'[p].ent[j] = index[p].ent[j]
         /\ \A s \in Sessions : index'[p].bySess[s] =
              IF s = index[p].ent[k].sess /\ index[p].ent[k] # NoEntry
              THEN Without(index[p].bySess[s], {k}) ELSE index[p].bySess[s]
         /\ \A q \in Pids \ {p} : index'[q] = index[q]
<1> DEFINE ix == index[p]
           x == Dropped(ix, k)
<1>1. Agree(ix)
  BY DEF IndexInv
<1>2. index' = [index EXCEPT ![p] = x]
  BY DEF RemoveEntry
<1>3. /\ Held(x) = Held(ix) \ {k} /\ x.ent[k] = NoEntry
      /\ \A j \in Keys \ {k} : x.ent[j] = ix.ent[j]
      /\ \A s \in Sessions : x.bySess[s] =
           IF s = ix.ent[k].sess /\ ix.ent[k] # NoEntry THEN Without(ix.bySess[s], {k})
           ELSE ix.bySess[s]
  <2> HIDE DEF ix
  <2> QED BY <1>1, DroppedAgrees
<1> HIDE DEF x
<1>4. index'[p] = x /\ \A q \in Pids \ {p} : index'[q] = index[q]
  BY <1>2, OneIndexMoves
<1> QED BY <1>3, <1>4

\* An eviction takes one entry, or moves on.
LEMMA EvictMoves ==
  ASSUME TypeOK, IndexInv, NEW p \in Pids, EvictLineage(p) \/ EvictToFit(p) \/ Evict(p)
  PROVE  /\ p \in alive /\ alive' = alive /\ \A q \in Pids \ {p} : pc'[q] = pc[q]
         /\ pc[p].at \in {"lineage", "fit", "evict"}
         /\ \/ /\ index' = index /\ owner' = owner /\ disk' = disk
               /\ \/ pc[p].at = "lineage" /\ Goto(p, "fit")
                  \/ pc'[p] = Idle
            \/ pc[p].at = "lineage" /\ pc' = pc /\ RemoveEntry(p, Oldest(index[p], pc[p].sess))
               /\ Oldest(index[p], pc[p].sess) \in Keys /\ pc[p].sess \in Sessions
               /\ Len(index[p].bySess[pc[p].sess]) > PerLineage
            \/ pc[p].at = "fit" /\ pc' = pc /\ RemoveEntry(p, LeastRecent(index[p]))
               /\ LeastRecent(index[p]) \in Keys /\ index[p].bytes > CapBytes
            \/ pc'[p] = Idle /\ \E k \in Keys : RemoveEntry(p, k)
<1>1. /\ p \in alive /\ ProcTypes /\ alive' = alive
      /\ pc[p].at \in {"lineage", "fit", "evict"}
  BY DEF EvictLineage, EvictToFit, Evict, At, TypeOK, ProcTypes
<1>2. CASE EvictLineage(p)
  <2>1. CASE Len(index[p].bySess[pc[p].sess]) > PerLineage
    BY <1>1, <1>2, <2>1, EvictedKeys DEF EvictLineage, At
  <2>2. CASE ~ (Len(index[p].bySess[pc[p].sess]) > PerLineage)
    <3>1. /\ Goto(p, "fit") /\ index' = index /\ disk' = disk /\ owner' = owner
          /\ pc[p].at = "lineage" /\ pc[p].at \in SaveAts
      BY <1>2, <2>2 DEF EvictLineage, At, SaveAts
    <3>2. \A q \in Pids \ {p} : pc'[q] = pc[q]
      BY <1>1, <3>1, GotoFacts DEF SaveAts
    <3> QED BY <1>1, <3>1, <3>2
  <2> QED BY <2>1, <2>2
<1>3. CASE EvictToFit(p)
  <2>1. CASE index[p].bytes > CapBytes
    BY <1>1, <1>3, <2>1, EvictedKeys DEF EvictToFit, At
  <2>2. CASE ~ (index[p].bytes > CapBytes)
    BY <1>1, <1>3, <2>2, RestsFacts DEF EvictToFit
  <2> QED BY <2>1, <2>2
<1>4. CASE Evict(p)
  BY <1>1, <1>4, PcFacts, RestsFacts DEF Evict, At
<1> QED BY <1>2, <1>3, <1>4

\* Only p's index, program counter and possessions change.
LEMMA OwnersFrame ==
  ASSUME TypeOK, OwnersKnow, NEW p \in Pids, alive' \subseteq alive \cup {p},
         \A q \in Pids \ {p} : pc'[q] = pc[q] /\ index'[q] = index[q],
         \A k \in Keys : owner'[k] \in alive' \ {p} => owner[k] = owner'[k],
         p \in alive' => \A k \in Keys : owner'[k] = p /\ ~ Inserting(p, k)' => k \in Held(index'[p])
  PROVE  OwnersKnow'
<1> SUFFICES ASSUME NEW q \in alive', NEW k \in Keys, owner'[k] = q, ~ Inserting(q, k)'
             PROVE  k \in Held(index'[q])
  BY DEF OwnersKnow, Inserting, Held
<1>1. CASE q = p
  BY <1>1
<1>2. CASE q # p
  <2>1. q \in alive /\ q \in Pids /\ owner[k] = q
    BY <1>2 DEF TypeOK, ProcTypes
  <2>2. pc'[q] = pc[q] /\ index'[q] = index[q]
    BY <1>2, <2>1
  <2> QED BY <2>1, <2>2 DEF OwnersKnow, Inserting
<1> QED BY <1>1, <1>2

LEMMA OwnersSaves ==
  ASSUME TypeOK, IndexInv, IndexTyped, OwnersKnow, NEW p \in Pids, Save(p)
  PROVE  OwnersKnow'
<1> DEFINE k == pc[p].key
<1>1. /\ p \in alive /\ pc[p].at \in SaveAts /\ pc[p] \in Saving /\ k \in Keys /\ alive \subseteq Pids
      /\ ProcTypes /\ alive' = alive /\ owner \in [Keys -> alive \cup {Nobody, Left}]
      /\ \A j \in Keys : owner[j] = p /\ ~ Inserting(p, j) => j \in Held(index[p])
  <2>1. p \in alive /\ pc[p].at \in SaveAts /\ alive' = alive
    BY DEF Save, WriteFiles, WriteFails, CheckDir, MoveAside, AsideFails, MoveIn, InFails, PutBack,
           RemoveOld, Insert, EvictLineage, EvictToFit, At, SaveAts
  <2> QED BY <2>1, PcFacts DEF TypeOK, ProcTypes, OwnersKnow, Inserting
<1> HIDE DEF k
<1>2. CASE EvictLineage(p) \/ EvictToFit(p)
  <2>0. ~ \E j \in Keys : Inserting(p, j)
    BY <1>2, EvictMoves DEF Inserting
  <2>1. CASE index' = index /\ owner' = owner
    BY <1>1, <1>2, <2>0, <2>1, EvictMoves, OwnersFrame
  <2>2. CASE \E j \in Keys : RemoveEntry(p, j)
    <3>1. PICK j \in Keys : RemoveEntry(p, j)
      BY <2>2
    <3>2. /\ Held(index'[p]) = Held(index[p]) \ {j} /\ \A q \in Pids \ {p} : index'[q] = index[q]
          /\ owner'[j] = Nobody /\ \A i \in Keys \ {j} : owner'[i] = owner[i]
      BY <3>1, RemovalFacts, RemoveEntryFacts
    <3>3. \A i \in Keys : owner'[i] \in alive => owner'[i] = owner[i] /\ i # j
      BY <1>1, <3>2, SnapshotAssumption
    <3> QED BY <1>1, <1>2, <2>0, <3>2, <3>3, EvictMoves, OwnersFrame
  <2> QED BY <1>2, <2>1, <2>2, EvictMoves
<1>3. CASE Insert(p)
  <2> DEFINE ix == index[p]
             e == Entry(pc[p].kind, pc[p].used, pc[p].sess)
             x == Added(ix, k, e)
  <2>1. e \in EntryVals /\ e.bytes # 0 /\ Agree(ix)
    BY <1>3, EntryFacts DEF Insert, At, IndexInv
  <2>2. index' = [index EXCEPT ![p] = x] /\ owner' = owner
        /\ Goto(p, IF pc[p].sess = Nobody THEN "fit" ELSE "lineage") /\ pc[p].at = "insert"
    BY <1>3 DEF Insert, k, At
  <2>3. Held(x) = Held(ix) \cup {k}
    <3> HIDE DEF ix, e
    <3> QED BY <1>1, <2>1, AddedAgrees
  <2> HIDE DEF x
  <2>4. index'[p] = x /\ \A q \in Pids \ {p} : index'[q] = index[q]
    BY <2>2, OneIndexMoves
  <2>5. \A q \in Pids \ {p} : pc'[q] = pc[q]
    BY <1>1, <2>2, GotoFacts DEF SaveAts
  <2>6. \A j \in Keys \ {k} : ~ Inserting(p, j)
    BY DEF Inserting, k
  <2> QED BY <1>1, <2>2, <2>3, <2>4, <2>5, <2>6, OwnersFrame
<1>4. CASE MoveIn(p)
  <2>1. /\ owner' = [owner EXCEPT ![k] = p] /\ index' = index /\ pc[p].at = "in"
        /\ Goto(p, IF pc[p].moved THEN "clean" ELSE "insert")
    BY <1>4 DEF MoveIn, k, At
  <2>2. /\ pc'[p].at \in {"clean", "insert"} /\ pc'[p].key = k /\ \A q \in Pids \ {p} : pc'[q] = pc[q]
    BY <1>1, <2>1, GotoFacts DEF SaveAts, k
  <2>3. PICK i \in Keys : i = k
    BY <1>1
  <2>4. Inserting(p, i)' /\ ~ \E j \in Keys : Inserting(p, j)
    BY <2>1, <2>2, <2>3 DEF Inserting
  <2>5. \A j \in Keys \ {i} : owner'[j] = owner[j]
    BY <1>1, <2>1, <2>3
  <2>6. \A j \in Keys : owner'[j] = p /\ ~ Inserting(p, j)' => j \in Held(index'[p])
    BY <1>1, <2>1, <2>4, <2>5
  <2>7. \A j \in Keys : owner'[j] \in alive' \ {p} => owner[j] = owner'[j]
    BY <1>1, <2>1
  <2> QED BY <1>1, <2>1, <2>2, <2>6, <2>7, OwnersFrame
<1>5. CASE RemoveOld(p)
  <2>1. Goto(p, "insert") /\ index' = index /\ owner' = owner /\ pc[p].at = "clean"
    BY <1>5 DEF RemoveOld, At
  <2>2. pc'[p].at = "insert" /\ pc'[p].key = k /\ \A q \in Pids \ {p} : pc'[q] = pc[q]
    BY <1>1, <2>1, GotoFacts DEF SaveAts, k
  <2>3. \A j \in Keys : Inserting(p, j) => Inserting(p, j)'
    BY <2>1, <2>2 DEF Inserting, k
  <2> QED BY <1>1, <2>1, <2>2, <2>3, OwnersFrame
<1>6. CASE WriteFiles(p) \/ WriteFails(p) \/ CheckDir(p) \/ MoveAside(p) \/ AsideFails(p)
             \/ InFails(p) \/ PutBack(p)
  <2>1. index' = index /\ owner' = owner /\ pc[p].at \notin {"clean", "insert"}
    BY <1>6 DEF WriteFiles, WriteFails, CheckDir, MoveAside, AsideFails, InFails, PutBack, At
  <2>2. \A q \in Pids \ {p} : pc'[q] = pc[q]
    BY <1>1, <1>6 DEF WriteFiles, WriteFails, CheckDir, MoveAside, AsideFails, InFails, PutBack, GiveUp,
       Rests, Goto, ProcTypes
  <2>3. ~ \E j \in Keys : Inserting(p, j)
    BY <2>1 DEF Inserting
  <2> QED BY <1>1, <2>1, <2>2, <2>3, OwnersFrame
<1> QED BY <1>2, <1>3, <1>4, <1>5, <1>6 DEF Save

LEMMA OwnersOthers ==
  ASSUME TypeOK, IndexInv, IndexTyped, OwnersKnow, NEW p \in Pids,
         (\E k \in Keys, kind \in Kinds, s \in Lineages : StartSave(p, k, kind, s))
           \/ Requests(p) \/ Evict(p)
  PROVE  OwnersKnow'
<1>1. /\ p \in alive /\ ProcTypes /\ alive' = alive /\ alive \subseteq Pids
      /\ owner \in [Keys -> alive \cup {Nobody, Left}]
      /\ pc[p].at \notin {"clean", "insert"}
      /\ \A q \in Pids \ {p} : pc'[q] = pc[q]
  BY RequestMoves DEF StartSave, Evict, At, TypeOK, ProcTypes, Rests
<1>2. \A j \in Keys : owner[j] = p => j \in Held(index[p])
  BY <1>1 DEF OwnersKnow, Inserting
<1>3. CASE Evict(p)
  <2>1. PICK k \in Keys : RemoveEntry(p, k)
    BY <1>1, <1>3, PcFacts DEF Evict, At
  <2>2. /\ Held(index'[p]) = Held(index[p]) \ {k} /\ \A q \in Pids \ {p} : index'[q] = index[q]
        /\ owner'[k] = Nobody /\ \A i \in Keys \ {k} : owner'[i] = owner[i]
    BY <2>1, RemovalFacts, RemoveEntryFacts
  <2>3. \A i \in Keys : owner'[i] \in alive => owner'[i] = owner[i] /\ i # k
    BY <1>1, <2>2, SnapshotAssumption
  <2> QED BY <1>1, <1>2, <2>2, <2>3, OwnersFrame
<1>4. CASE Touch(p)
  <2> DEFINE ix == index[p]
             k == pc[p].key
             x == Touched(ix, k)
  <2>1. k \in Keys /\ now \in Nat /\ Agree(ix)
    BY <1>1, <1>4, PcFacts DEF Touch, At, IndexInv, TypeOK, DiskTypes
  <2>2. index' = [index EXCEPT ![p] = x] /\ owner' = owner
    BY <1>4 DEF Touch
  <2>3. Held(x) = Held(ix)
    <3> HIDE DEF ix, k
    <3> QED BY <2>1, TouchedAgrees
  <2> HIDE DEF x
  <2>4. index'[p] = x /\ \A q \in Pids \ {p} : index'[q] = index[q]
    BY <2>2, OneIndexMoves
  <2> QED BY <1>1, <1>2, <2>2, <2>3, <2>4, OwnersFrame
<1>5. CASE index' = index /\ owner' = owner
  BY <1>1, <1>2, <1>5, OwnersFrame
<1>6. ASSUME \/ \E k \in Keys, kind \in Kinds, s \in Lineages : StartSave(p, k, kind, s)
             \/ Requests(p)
      PROVE  (index' = index /\ owner' = owner) \/ Touch(p)
  BY <1>6, RequestMoves DEF StartSave
<1> QED BY <1>3, <1>4, <1>5, <1>6

LEMMA OwnersRestarts ==
  ASSUME TypeOK, IndexInv, IndexTyped, OwnersKnow, NEW p \in Pids,
         Load(p) \/ Crash(p) \/ CrashRemoving(p)
  PROVE  OwnersKnow'
<1>1. /\ ProcTypes /\ alive \subseteq Pids /\ owner \in [Keys -> alive \cup {Nobody, Left}]
      /\ disk \in [Keys -> Dirs]
  BY DEF TypeOK, ProcTypes, DiskTypes
<1>2. CASE Load(p)
  <2> DEFINE ks == {k \in Keys : HasMeta(disk[k])}
  <2>1. PICK o \in Orders(ks) : index' = [index EXCEPT ![p] = Loaded(ks, o)]
    BY <1>2 DEF Load
  <2> DEFINE x == Loaded(ks, o)
  <2>2. Held(x) = ks
    <3>1. ks \in SUBSET Keys /\ \A k \in ks : HasMeta(disk[k])
      OBVIOUS
    <3> HIDE DEF ks
    <3> QED BY <1>1, <3>1, LoadedAgrees
  <2>3. index' = [index EXCEPT ![p] = x]
    BY <2>1
  <2> HIDE DEF x
  <2>4. index'[p] = x /\ \A q \in Pids \ {p} : index'[q] = index[q]
    BY <2>3, OneIndexMoves
  <2>5. /\ p \notin alive /\ alive' = alive \cup {p} /\ pc' = pc
        /\ \A k \in Keys : owner'[k] = IF Whole(disk[k]) THEN p ELSE owner[k]
    BY <1>2 DEF Load
  <2>6. ASSUME NEW k \in Keys, owner'[k] = p PROVE k \in Held(index'[p])
    <3>1. Whole(disk[k])
      BY <1>1, <2>5, <2>6, SnapshotAssumption
    <3> QED BY <2>2, <2>4, <3>1 DEF Whole, HasMeta
  <2>7. \A k \in Keys : owner'[k] \in alive' \ {p} => owner[k] = owner'[k]
    BY <2>5
  <2> QED BY <2>4, <2>5, <2>6, <2>7, OwnersFrame
<1>3. ASSUME Dies(p), NEW own \in [Keys -> alive \cup {Nobody, Left}], owner' = Orphaned(own, p),
             \A k \in Keys : own[k] = owner[k] \/ own[k] = Nobody
      PROVE  OwnersKnow'
  <2>1. /\ alive' = alive \ {p} /\ index' = [index EXCEPT ![p] = Empty]
        /\ \A q \in Pids \ {p} : pc'[q] = pc[q]
    BY <1>1, <1>3, RestsFacts DEF Dies
  <2>2. \A q \in Pids \ {p} : index'[q] = index[q]
    BY <2>1, OneIndexMoves
  <2>3. \A k \in Keys : owner'[k] \in alive' => own[k] = owner'[k]
    BY <1>1, <1>3, <2>1, OrphanedFacts
  <2>4. \A k \in Keys : owner'[k] \in alive' \ {p} => owner[k] = owner'[k]
    BY <1>1, <1>3, <2>1, <2>3, SnapshotAssumption
  <2> QED BY <2>1, <2>2, <2>4, OwnersFrame
<1>4. CASE Crash(p)
  BY <1>1, <1>3, <1>4 DEF Crash
<1>5. CASE CrashRemoving(p)
  <2>1. PICK k \in Keys : owner' = Orphaned([owner EXCEPT ![k] = Nobody], p)
    BY <1>5 DEF CrashRemoving
  <2> DEFINE own == [owner EXCEPT ![k] = Nobody]
  <2>2. own \in [Keys -> alive \cup {Nobody, Left}] /\ \A j \in Keys : own[j] = owner[j] \/ own[j] = Nobody
    BY <1>1
  <2>3. Dies(p) /\ owner' = Orphaned(own, p)
    BY <1>5, <2>1 DEF CrashRemoving
  <2> HIDE DEF own
  <2> QED BY <1>3, <2>2, <2>3
<1> QED BY <1>2, <1>4, <1>5

LEMMA OwnersStep ==
  ASSUME TypeOK, IndexInv, IndexTyped, OwnersKnow, [Next]_vars
  PROVE  OwnersKnow'
<1>1. CASE Tick \/ UNCHANGED vars
  BY <1>1 DEF Tick, vars, OwnersKnow, Held, Inserting
<1>2. ASSUME NEW p \in Pids, Save(p) PROVE OwnersKnow'
  BY <1>2, OwnersSaves
<1>3. ASSUME NEW p \in Pids,
             (\E k \in Keys, kind \in Kinds, s \in Sessions \cup {Nobody} : StartSave(p, k, kind, s))
               \/ Requests(p) \/ Evict(p)
      PROVE  OwnersKnow'
  BY <1>3, OwnersOthers DEF Lineages
<1>4. ASSUME NEW p \in Pids, Load(p) \/ Crash(p) \/ CrashRemoving(p) PROVE OwnersKnow'
  BY <1>4, OwnersRestarts
<1> QED
  BY <1>1, <1>2, <1>3, <1>4 DEF Next, Requests

(***************************************************************************)
(* In a Tidy world the index knows every directory                         *)
(***************************************************************************)
LEMMA TidyFacts ==
  ASSUME Tidy
  PROVE  ~ world.overlap /\ ~ Fault("cut") /\ \A d : Removed(d) = {NoDir}
BY DEF Tidy, Removed, Fault

\* Only the process that acts is alive.
LEMMA CountFrame ==
  ASSUME NEW p \in Pids, alive' \subseteq {p},
         \A k \in Keys : disk'[k] # NoDir => HasMeta(disk'[k]),
         p \in alive' => CountedBy(p)'
  PROVE  CountInv'
<1>1. \A q \in alive' : q = p
  OBVIOUS
<1>2. (\A q \in alive : CountedBy(q))'
  BY <1>1
<1>3. (\A k \in Keys : disk[k] # NoDir => HasMeta(disk[k]))'
  BY DEF HasMeta
<1> QED BY <1>1, <1>2, <1>3 DEF CountInv

\* Between saves, a process has to know what is on disk.
LEMMA CountResting ==
  ASSUME NEW p \in Pids, pc'[p].at \notin SaveAts \/ pc'[p].at \in {"lineage", "fit", "write"},
         \A k \in Keys : disk'[k] # NoDir => k \in Held(index'[p])
  PROVE  CountedBy(p)'
<1>1. pc'[p].at \notin {"check", "aside", "in", "back"}
  BY DEF SaveAts
<1> QED BY <1>1 DEF CountedBy, BetweenRenames, Held

\* What an eviction takes is off the disk and out of the index.
LEMMA CountRemoved ==
  ASSUME TypeOK, IndexInv, IndexTyped, CountInv, Tidy, NEW p \in alive, NEW k \in Keys,
         RemoveEntry(p, k), \A j \in Keys : ~Inserting(p, j)
  PROVE  /\ \A j \in Keys : disk'[j] # NoDir => HasMeta(disk'[j])
         /\ \A j \in Keys : disk'[j] # NoDir => j \in Held(index'[p])
<1>1. p \in Pids
  BY DEF TypeOK, ProcTypes
<1>2. disk'[k] \in Removed(disk[k]) /\ \A j \in Keys \ {k} : disk'[j] = disk[j]
  BY <1>1, RemoveEntryFacts
<1>3. disk'[k] = NoDir
  BY <1>2, TidyFacts
<1>4. Held(index'[p]) = Held(index[p]) \ {k}
  BY <1>1, RemovalFacts
<1> QED BY <1>2, <1>3, <1>4 DEF CountInv, CountedBy

LEMMA CountSaves ==
  ASSUME TypeOK, IndexInv, IndexTyped, CountInv, Tidy, NEW p \in Pids, Save(p)
  PROVE  CountInv'
<1> DEFINE k == pc[p].key
<1>1. p \in alive /\ pc[p].at \in SaveAts /\ alive' = alive
  BY DEF Save, WriteFiles, WriteFails, CheckDir, MoveAside, AsideFails, MoveIn, InFails, PutBack,
         RemoveOld, Insert, EvictLineage, EvictToFit, At, SaveAts
<1>2. /\ pc[p] \in Saving /\ k \in Keys /\ ProcTypes
      /\ CountedBy(p) /\ alive' \subseteq {p}
      /\ \A j \in Keys : disk[j] # NoDir => HasMeta(disk[j])
      /\ disk \in [Keys -> Dirs] /\ tmp \in [Pids -> [Keys -> Dirs]] /\ old \in [Pids -> [Keys -> Dirs]]
  BY <1>1, PcFacts DEF TypeOK, ProcTypes, DiskTypes, CountInv
<1> SUFFICES /\ \A j \in Keys : disk'[j] # NoDir => HasMeta(disk'[j])
             /\ CountedBy(p)'
  BY <1>2, CountFrame
<1> HIDE DEF k
<1>3. pc[p].at \notin {"clean", "insert"} => \A j \in Keys : ~Inserting(p, j)
  BY DEF Inserting
<1>4. ASSUME GiveUp(p), disk' = disk, index' = index, pc[p].at \notin {"clean", "insert"}
      PROVE  /\ \A j \in Keys : disk'[j] # NoDir => HasMeta(disk'[j])
             /\ CountedBy(p)'
  <2>1. pc'[p].at \notin SaveAts
    BY <1>1, <1>4, GiveUpFacts DEF Idle, SaveAts
  <2> QED BY <1>2, <1>3, <1>4, <2>1, CountResting DEF CountedBy
<1>5. CASE WriteFiles(p)
  <2>1. /\ disk' = disk /\ index' = index /\ pc[p].at = "write"
        /\ tmp' = [tmp EXCEPT ![p][k] = Dir(pc[p].kind, now, pc[p].sess)]
    BY <1>5 DEF WriteFiles, At, k
  <2>2. pc'[p].at = "check" /\ pc'[p].key = k
    BY <1>2, <1>5 DEF WriteFiles, ProcTypes, Saving, k
  <2>3. HasMeta(tmp'[p][k])
    BY <1>2, <2>1 DEF Dir, HasMeta
  <2> QED BY <1>2, <1>3, <2>1, <2>2, <2>3 DEF CountedBy, BetweenRenames
<1>6. CASE WriteFails(p)
  BY <1>4, <1>6 DEF WriteFails, At
<1>7. CASE CheckDir(p)
  <2>1. PICK where \in {"in", "aside"} : Goto(p, where)
    BY <1>7 DEF CheckDir
  <2>2. /\ disk' = disk /\ index' = index /\ tmp' = tmp /\ pc[p].at = "check" /\ ~pc[p].moved
    BY <1>1, <1>7 DEF CheckDir, At, TypeOK, SaveSteps
  <2>3. pc'[p].at = where /\ pc'[p].key = k /\ pc'[p].moved = pc[p].moved
    BY <1>1, <1>2, <2>1, GotoFacts DEF SaveAts, k
  <2> QED BY <1>2, <1>3, <2>2, <2>3 DEF CountedBy, BetweenRenames, k
<1>8. CASE MoveAside(p)
  <2>1. /\ disk[k] # NoDir /\ old' = [old EXCEPT ![p][k] = disk[k]]
        /\ disk' = [disk EXCEPT ![k] = NoDir] /\ index' = index /\ tmp' = tmp
        /\ pc[p].at = "aside"
    BY <1>8 DEF MoveAside, At, k
  <2>2. pc'[p].at = "in" /\ pc'[p].key = k /\ pc'[p].moved
    BY <1>2, <1>8 DEF MoveAside, ProcTypes, Saving, k
  <2>3. k \in Held(index[p]) /\ HasMeta(tmp[p][k]) /\ old'[p][k] = disk[k] /\ HasMeta(disk[k])
    BY <1>2, <1>3, <2>1 DEF CountedBy, k
  <2>4. \A j \in Keys : disk'[j] # NoDir => disk'[j] = disk[j]
    BY <1>2, <2>1
  <2> QED BY <1>2, <1>3, <2>1, <2>2, <2>3, <2>4 DEF CountedBy, BetweenRenames
<1>9. CASE AsideFails(p)
  BY <1>4, <1>9 DEF AsideFails, At
<1>10. CASE MoveIn(p)
  <2>1. /\ disk' = [disk EXCEPT ![k] = tmp[p][k]] /\ index' = index /\ pc[p].at = "in"
        /\ Goto(p, IF pc[p].moved THEN "clean" ELSE "insert")
    BY <1>10 DEF MoveIn, At, k
  <2>2. pc'[p].at \in {"clean", "insert"} /\ pc'[p].key = k
    BY <1>1, <1>2, <2>1, GotoFacts DEF SaveAts, k
  <2>3. HasMeta(tmp[p][k]) /\ disk'[k] = tmp[p][k] /\ \A j \in Keys \ {k} : disk'[j] = disk[j]
    BY <1>2, <2>1 DEF CountedBy, k
  <2>4. \A j \in Keys : ~Inserting(p, j)' => j # k
    BY <2>2 DEF Inserting
  <2> QED BY <1>2, <1>3, <2>1, <2>2, <2>3, <2>4 DEF CountedBy, BetweenRenames
<1>11. CASE InFails(p)
  <2>1. disk' = disk /\ index' = index /\ old' = old /\ pc[p].at = "in"
    BY <1>11 DEF InFails, At
  <2>2. CASE GiveUp(p)
    BY <1>4, <2>1, <2>2
  <2>3. CASE Goto(p, "back") /\ pc[p].moved
    <3>1. pc'[p].at = "back" /\ pc'[p].key = k /\ pc'[p].moved
      BY <1>1, <1>2, <2>3, GotoFacts DEF SaveAts, k
    <3> QED BY <1>2, <1>3, <2>1, <2>3, <3>1 DEF CountedBy, BetweenRenames, k
  <2> QED BY <1>11, <2>2, <2>3 DEF InFails
<1>12. CASE PutBack(p)
  <2>1. index' = index /\ GiveUp(p) /\ pc[p].at = "back"
    BY <1>12 DEF PutBack, At
  <2>2. disk' = disk \/ disk' = [disk EXCEPT ![k] = old[p][k]]
    BY <1>12 DEF PutBack, k
  <2>3. CASE disk' = disk
    BY <1>4, <2>1, <2>3
  <2>4. CASE disk' = [disk EXCEPT ![k] = old[p][k]]
    <3>1. HasMeta(old[p][k]) /\ k \in Held(index[p])
      BY <1>2, <2>1 DEF CountedBy, BetweenRenames, k
    <3>2. disk'[k] = old[p][k] /\ \A j \in Keys \ {k} : disk'[j] = disk[j]
      BY <1>2, <2>4
    <3>3. pc'[p].at \notin SaveAts
      BY <1>1, <2>1, GiveUpFacts DEF Idle, SaveAts
    <3> QED BY <1>2, <1>3, <2>1, <3>1, <3>2, <3>3, CountResting DEF CountedBy
  <2> QED BY <2>2, <2>3, <2>4
<1>13. CASE RemoveOld(p)
  <2>1. Goto(p, "insert") /\ index' = index /\ disk' = disk /\ pc[p].at = "clean"
    BY <1>13 DEF RemoveOld, At
  <2>2. pc'[p].at = "insert" /\ pc'[p].key = k
    BY <1>1, <1>2, <2>1, GotoFacts DEF SaveAts, k
  <2>3. \A j \in Keys : Inserting(p, j) => Inserting(p, j)'
    BY <2>1, <2>2 DEF Inserting, k
  <2> QED BY <1>2, <2>1, <2>2, <2>3 DEF CountedBy, BetweenRenames
<1>14. CASE Insert(p)
  <2> DEFINE ix == index[p]
             e == Entry(pc[p].kind, pc[p].used, pc[p].sess)
             x == Added(ix, k, e)
  <2>1. e \in EntryVals /\ e.bytes # 0 /\ Agree(ix)
    BY <1>14, EntryFacts DEF Insert, At, IndexInv
  <2>2. /\ index' = [index EXCEPT ![p] = x] /\ disk' = disk /\ pc[p].at = "insert"
        /\ Goto(p, IF pc[p].sess = Nobody THEN "fit" ELSE "lineage")
    BY <1>14 DEF Insert, k, At
  <2>3. Held(x) = Held(ix) \cup {k}
    <3> HIDE DEF ix, e
    <3> QED BY <1>2, <2>1, AddedAgrees
  <2> HIDE DEF x
  <2>4. index'[p] = x
    BY <2>2, OneIndexMoves
  <2>5. pc'[p].at \in {"lineage", "fit"}
    BY <1>1, <1>2, <2>2, GotoFacts DEF SaveAts
  <2>6. \A j \in Keys \ {k} : ~Inserting(p, j)
    BY DEF Inserting, k
  <2>7. \A j \in Keys : disk'[j] # NoDir => j \in Held(index'[p])
    BY <1>2, <2>2, <2>3, <2>4, <2>6 DEF CountedBy
  <2> QED BY <1>2, <2>2, <2>5, <2>7, CountResting
<1>15. CASE EvictLineage(p) \/ EvictToFit(p)
  <2>1. \A j \in Keys : ~Inserting(p, j)
    BY <1>15, EvictMoves DEF Inserting
  <2>2. pc'[p] = pc[p] \/ pc'[p] = Idle \/ (Goto(p, "fit") /\ pc[p].at = "lineage")
    BY <1>15, EvictMoves
  <2>3. pc'[p].at \notin SaveAts \/ pc'[p].at \in {"lineage", "fit", "write"}
    <3>1. pc[p].at \in {"lineage", "fit"}
      BY <1>15 DEF EvictLineage, EvictToFit, At
    <3>2. CASE Goto(p, "fit")
      BY <1>1, <1>2, <3>2, GotoFacts DEF SaveAts
    <3> QED BY <2>2, <3>1, <3>2 DEF Idle, SaveAts
  <2>4. CASE \E j \in Keys : RemoveEntry(p, j)
    BY <1>1, <2>1, <2>3, <2>4, CountRemoved, CountResting
  <2>5. CASE disk' = disk /\ index' = index
    <3>1. \A j \in Keys : disk'[j] # NoDir => j \in Held(index'[p])
      BY <1>2, <2>1, <2>5 DEF CountedBy
    <3> QED BY <1>2, <2>3, <2>5, <3>1, CountResting
  <2> QED BY <1>15, <2>4, <2>5, EvictMoves
<1> QED
  BY <1>5, <1>6, <1>7, <1>8, <1>9, <1>10, <1>11, <1>12, <1>13, <1>14, <1>15 DEF Save

LEMMA CountOthers ==
  ASSUME TypeOK, IndexInv, IndexTyped, CountInv, Tidy, NEW p \in Pids,
         (\E k \in Keys, kind \in Kinds, s \in Lineages : StartSave(p, k, kind, s))
           \/ Requests(p) \/ Evict(p)
  PROVE  CountInv'
<1>1. /\ p \in alive /\ ProcTypes /\ alive' = alive /\ pc[p].at \notin SaveAts
  BY RequestMoves DEF StartSave, Evict, At, TypeOK, SaveAts
<1>2. /\ CountedBy(p) /\ alive' \subseteq {p} /\ disk \in [Keys -> Dirs]
      /\ \A j \in Keys : disk[j] # NoDir => HasMeta(disk[j])
      /\ \A j \in Keys : ~Inserting(p, j)
  BY <1>1 DEF CountInv, TypeOK, DiskTypes, Inserting, SaveAts
<1> SUFFICES /\ \A j \in Keys : disk'[j] # NoDir => HasMeta(disk'[j])
             /\ CountedBy(p)'
  BY <1>2, CountFrame
<1>3. CASE Evict(p)
  <2>1. PICK k \in Keys : RemoveEntry(p, k)
    BY <1>1, <1>3, PcFacts DEF Evict, At
  <2>2. pc'[p].at \notin SaveAts
    BY <1>1, <1>3, RestsFacts DEF Evict, SaveAts
  <2> QED BY <1>1, <1>2, <2>1, <2>2, CountRemoved, CountResting
<1>4. CASE \E k \in Keys, kind \in Kinds, s \in Lineages : StartSave(p, k, kind, s)
  <2>1. disk' = disk /\ index' = index /\ pc'[p].at = "write"
    BY <1>1, <1>4 DEF StartSave, ProcTypes
  <2> QED BY <1>2, <2>1, CountResting DEF CountedBy
<1>5. CASE Requests(p)
  <2>1. pc'[p].at \notin SaveAts /\ (index' = index \/ Touch(p)) /\ (disk' = disk \/ Stamp(p))
    BY <1>5, RequestMoves DEF SaveAts
  <2>2. Held(index'[p]) = Held(index[p])
    <3>1. CASE Touch(p)
      <4> DEFINE ix == index[p]
                 k == pc[p].key
                 x == Touched(ix, k)
      <4>1. k \in Keys /\ now \in Nat /\ Agree(ix)
        BY <1>1, <3>1, PcFacts DEF Touch, At, IndexInv, TypeOK, DiskTypes
      <4>2. index' = [index EXCEPT ![p] = x]
        BY <3>1 DEF Touch
      <4>3. Held(x) = Held(ix)
        <5> HIDE DEF ix, k
        <5> QED BY <4>1, TouchedAgrees
      <4> HIDE DEF x
      <4> QED BY <4>2, <4>3, OneIndexMoves
    <3> QED BY <2>1, <3>1
  <2>3. \A j \in Keys : disk'[j] # NoDir => disk[j] # NoDir /\ HasMeta(disk'[j])
    <3>1. CASE Stamp(p)
      <4> DEFINE k == pc[p].key
                 e == WithMeta(disk[k], pc[p])
      <4>1. k \in Keys /\ disk' = [disk EXCEPT ![k] = e] /\ HasMeta(e) /\ disk[k] # NoDir
        BY <3>1, StampFacts
      <4> HIDE DEF k, e
      <4> QED BY <1>2, <4>1
    <3> QED BY <1>2, <2>1, <3>1
  <2> QED BY <1>2, <2>1, <2>2, <2>3, CountResting DEF CountedBy
<1> QED BY <1>3, <1>4, <1>5

LEMMA CountRestarts ==
  ASSUME TypeOK, IndexInv, IndexTyped, CountInv, Tidy, NEW p \in Pids,
         Load(p) \/ Crash(p) \/ CrashRemoving(p)
  PROVE  CountInv'
<1>1. /\ ProcTypes /\ alive \subseteq Pids /\ disk \in [Keys -> Dirs]
      /\ \A j \in Keys : disk[j] # NoDir => HasMeta(disk[j])
      /\ ~ world.overlap /\ ~ Fault("cut")
  BY TidyFacts DEF TypeOK, ProcTypes, DiskTypes, CountInv
<1>2. CASE Load(p)
  <2> DEFINE ks == {k \in Keys : HasMeta(disk[k])}
  <2>1. PICK o \in Orders(ks) : index' = [index EXCEPT ![p] = Loaded(ks, o)]
    BY <1>2 DEF Load
  <2> DEFINE x == Loaded(ks, o)
  <2>2. Held(x) = ks
    <3>1. ks \in SUBSET Keys /\ \A k \in ks : HasMeta(disk[k])
      OBVIOUS
    <3> HIDE DEF ks
    <3> QED BY <1>1, <3>1, LoadedAgrees
  <2>3. index' = [index EXCEPT ![p] = x]
    BY <2>1
  <2> HIDE DEF x
  <2>4. index'[p] = x
    BY <2>3, OneIndexMoves
  <2>5. alive' \subseteq {p} /\ pc'[p] = Idle /\ disk' = disk
    BY <1>1, <1>2 DEF Load, ProcTypes
  <2>6. pc'[p].at \notin SaveAts
    BY <2>5 DEF Idle, SaveAts
  <2>7. \A k \in Keys : disk'[k] # NoDir => k \in Held(index'[p])
    BY <1>1, <2>2, <2>4, <2>5
  <2> QED BY <1>1, <2>5, <2>6, <2>7, CountResting, CountFrame
<1>3. CASE Crash(p)
  <2>1. p \in alive /\ alive' = alive \ {p} /\ disk' = disk
    BY <1>3 DEF Crash, Dies
  <2>2. \A q \in alive : q = p
    BY <2>1 DEF CountInv
  <2> QED BY <1>1, <2>1, <2>2, CountFrame
<1>4. ~ CrashRemoving(p)
  BY <1>1 DEF CrashRemoving
<1> QED BY <1>2, <1>3, <1>4

LEMMA CountStep ==
  ASSUME TypeOK, IndexInv, IndexTyped, CountInv, [Next]_vars
  PROVE  CountInv'
<1>1. CASE Tick \/ UNCHANGED vars
  BY <1>1 DEF Tick, vars, CountInv, CountedBy, Tidy, HasMeta, BetweenRenames, Held, Inserting
<1>2. CASE ~ Tidy
  BY <1>2, WorldMoves DEF CountInv, Tidy
<1>3. ASSUME Tidy, NEW p \in Pids, Save(p) PROVE CountInv'
  BY <1>3, CountSaves
<1>4. ASSUME Tidy, NEW p \in Pids,
             (\E k \in Keys, kind \in Kinds, s \in Sessions \cup {Nobody} : StartSave(p, k, kind, s))
               \/ Requests(p) \/ Evict(p)
      PROVE  CountInv'
  BY <1>4, CountOthers DEF Lineages
<1>5. ASSUME Tidy, NEW p \in Pids, Load(p) \/ Crash(p) \/ CrashRemoving(p) PROVE CountInv'
  BY <1>5, CountRestarts
<1> QED
  BY <1>1, <1>2, <1>3, <1>4, <1>5 DEF Next, Requests

LEMMA MapsFromIndex ==
  ASSUME TypeOK, IndexInv
  PROVE  MapsAgree
<1> SUFFICES ASSUME NEW p \in alive
             PROVE  LET ix == index[p] IN
                    /\ ix.byUsed = {<<ix.ent[k].used, k>> : k \in Held(ix)}
                    /\ ix.bytes = SumFunctionOnSet([k \in Keys |-> ix.ent[k].bytes], Held(ix))
                    /\ \A s \in Sessions :
                         /\ {ix.bySess[s][i] : i \in DOMAIN ix.bySess[s]} =
                              {k \in Held(ix) : ix.ent[k].sess = s}
                         /\ Len(ix.bySess[s]) = Cardinality({k \in Held(ix) : ix.ent[k].sess = s})
  BY DEF MapsAgree
<1> DEFINE ix == index[p]
<1>1. Agree(ix)
  BY DEF IndexInv, TypeOK, ProcTypes
<1> HIDE DEF ix
<1>2. ASSUME NEW s \in Sessions
      PROVE  /\ {ix.bySess[s][i] : i \in DOMAIN ix.bySess[s]} = {k \in Held(ix) : ix.ent[k].sess = s}
             /\ Len(ix.bySess[s]) = Cardinality({k \in Held(ix) : ix.ent[k].sess = s})
  <2>1. /\ ix.bySess[s] \in Seq(Keys) /\ IsInjective(ix.bySess[s])
        /\ ToSet(ix.bySess[s]) = {k \in Held(ix) : ix.ent[k].sess = s}
    BY <1>1, AgreeFacts DEF Agree, LineageOf
  <2>2. Cardinality(ToSet(ix.bySess[s])) = Len(ix.bySess[s])
    BY <2>1, InjectiveLength
  <2> QED BY <2>1, <2>2 DEF ToSet
<1> QED BY <1>1, <1>2 DEF Agree, EntryBytes, ix

(***************************************************************************)
(* What a step may change                                                  *)
(***************************************************************************)
\* A process stays where it is, rests, goes on with its save, or takes a step of a
\* save or a request that starts.
LEMMA PcMoves ==
  ASSUME TypeOK, IndexInv, [Next]_vars, NEW p \in Pids
  PROVE  \/ pc'[p] = pc[p] \/ pc'[p] = Idle
         \/ /\ pc[p].at \in SaveAts /\ pc'[p].at \in SaveAts
            /\ pc'[p].key = pc[p].key /\ pc'[p].kind = pc[p].kind
         \/ \E k \in Keys, kind \in Kinds, s \in Lineages : StartSave(p, k, kind, s)
         \/ Requests(p)
<1> DEFINE GoesOnAs(q) == /\ pc[q].at \in SaveAts /\ pc'[q].at \in SaveAts
                          /\ pc'[q].key = pc[q].key /\ pc'[q].kind = pc[q].kind
<1>1. ProcTypes
  BY DEF TypeOK
<1>2. CASE Tick \/ UNCHANGED vars
  BY <1>2 DEF Tick, vars
<1>3. ASSUME NEW q \in Pids, Save(q)
      PROVE  /\ p # q => pc'[p] = pc[p]
             /\ pc'[q] = pc[q] \/ pc'[q] = Idle \/ GoesOnAs(q)
  <2>1. q \in alive /\ pc[q].at \in SaveAts /\ pc[q] \in Saving
    BY <1>1, <1>3, PcFacts DEF Save, WriteFiles, WriteFails, CheckDir, MoveAside, AsideFails, MoveIn, InFails,
       PutBack, RemoveOld, Insert, EvictLineage, EvictToFit, At, SaveAts
  <2>2. CASE WriteFiles(q)
    BY <2>1, <2>2, WriteFilesTypes DEF SaveAts
  <2>3. CASE GiveUp(q)
    BY <2>1, <2>3, GiveUpFacts
  <2>4. CASE \E where \in SaveAts : Goto(q, where)
    BY <1>1, <2>1, <2>4, GotoFacts
  <2>5. CASE MoveAside(q)
    <3>1. /\ pc'[q] = [[pc[q] EXCEPT !.at = "in"] EXCEPT !.moved = TRUE]
          /\ \A r \in Pids \ {q} : pc'[r] = pc[r]
      BY <2>5 DEF MoveAside, TypeOK, ProcTypes
    <3>2. pc'[q].at = "in" /\ pc'[q].key = pc[q].key /\ pc'[q].kind = pc[q].kind
      BY <2>1, <3>1 DEF Saving
    <3> QED BY <2>1, <3>1, <3>2 DEF SaveAts
  <2>6. CASE pc' = pc
    BY <2>6
  <2>7. CASE Rests(q)
    BY <1>1, <2>7, RestsFacts
  <2> QED
    BY <1>3, <2>2, <2>3, <2>4, <2>5, <2>6, <2>7 DEF Save, WriteFails, CheckDir, AsideFails, MoveIn, InFails,
       PutBack, RemoveOld, Insert, EvictLineage, EvictToFit, SaveAts
<1>4. ASSUME NEW q \in Pids, NEW k \in Keys, NEW kind \in Kinds, NEW s \in Sessions \cup {Nobody},
             StartSave(q, k, kind, s)
      PROVE  p # q => pc'[p] = pc[p]
  BY <1>1, <1>4 DEF StartSave, ProcTypes
<1>5. ASSUME NEW q \in Pids, Requests(q) PROVE p # q => pc'[p] = pc[p]
  BY <1>5, RequestMoves
<1>6. ASSUME NEW q \in Pids, Rests(q)
      PROVE  /\ p # q => pc'[p] = pc[p]
             /\ pc'[q] = Idle
  BY <1>1, <1>6, RestsFacts
<1>7. ASSUME NEW q \in Pids, Load(q) PROVE pc'[p] = pc[p]
  BY <1>7 DEF Load
<1> QED
  BY <1>2, <1>3, <1>4, <1>5, <1>6, <1>7
  DEF Next, Requests, Evict, Crash, CrashRemoving, Dies, Lineages

\* What a step finds or leaves under the name of k: what was there, what remains
\* of it, what a save has written, or what a touch has made of it.
Comes(k, e) ==
  \/ e \in {NoDir, Rest}
  \/ \E d \in Everywhere(k) : e \in Remains(d)
  \/ \E p \in Pids : pc[p].at = "write" /\ pc[p].key = k /\ e = Dir(pc[p].kind, now, pc[p].sess)
  \/ \E p \in Pids : pc[p].at = "stamp" /\ pc[p].key = k /\ e = WithMeta(disk[k], pc[p])

\* One directory of a process changes.
LEMMA ComesPut ==
  ASSUME NEW f \in [Pids -> [Keys -> Dirs]], NEW p \in Pids, NEW k \in Keys, NEW d \in Dirs,
         NEW g, g = [f EXCEPT ![p][k] = d], Comes(k, d),
         \A q \in Pids, j \in Keys : Comes(j, f[q][j])
  PROVE  \A q \in Pids, j \in Keys : Comes(j, g[q][j])
<1>1. g[p][k] = d /\ \A q \in Pids, j \in Keys : q # p \/ j # k => g[q][j] = f[q][j]
  BY PutDir
<1> QED BY <1>1

LEMMA DirMoves ==
  ASSUME TypeOK, IndexInv, [Next]_vars
  PROVE  \A k \in Keys : \A e \in Everywhere(k)' : Comes(k, e)
<1>1. /\ disk \in [Keys -> Dirs] /\ NoDir \in Dirs /\ Rest \in Dirs
      /\ tmp \in [Pids -> [Keys -> Dirs]] /\ old \in [Pids -> [Keys -> Dirs]]
  BY DEF TypeOK, DiskTypes, Dirs
<1>2. \A k \in Keys : /\ Comes(k, disk[k]) /\ Comes(k, NoDir) /\ Comes(k, Rest)
                      /\ \A p \in Pids : Comes(k, tmp[p][k]) /\ Comes(k, old[p][k])
  BY DEF Comes, Everywhere, Remains
<1>3. ASSUME NEW k \in Keys, NEW d \in Everywhere(k), NEW left \in Removed(d) \cup Remains(d)
      PROVE  Comes(k, left)
  BY <1>3 DEF Comes, Removed
<1> DEFINE DiskOk == \A k \in Keys : Comes(k, disk'[k])
           TmpOk == \A p \in Pids, k \in Keys : Comes(k, tmp'[p][k])
           OldOk == \A p \in Pids, k \in Keys : Comes(k, old'[p][k])
<1> SUFFICES DiskOk /\ TmpOk /\ OldOk
  BY DEF Everywhere
<1>4. /\ disk' = disk => DiskOk
      /\ tmp' = tmp => TmpOk
      /\ old' = old => OldOk
  BY <1>2
<1> HIDE DEF DiskOk, TmpOk, OldOk
<1>5. ASSUME NEW p \in alive, pc[p].at \in SaveAts, GiveUp(p) PROVE TmpOk
  <2>1. p \in Pids /\ pc[p].key \in Keys
    BY <1>5, PcFacts DEF TypeOK, ProcTypes
  <2>2. PICK left \in Removed(tmp[p][pc[p].key]) : tmp' = [tmp EXCEPT ![p][pc[p].key] = left]
    BY <1>5 DEF GiveUp
  <2>3. left \in Dirs /\ Comes(pc[p].key, left)
    BY <1>1, <1>3, <2>1, <2>2, RemovedTypes DEF Everywhere
  <2> QED BY <1>1, <1>2, <2>1, <2>2, <2>3, ComesPut DEF TmpOk
<1>6. ASSUME NEW p \in Pids, NEW k \in Keys,
             \E left \in Removed(old[p][k]) : old' = [old EXCEPT ![p][k] = left]
      PROVE  OldOk
  <2>1. PICK left \in Removed(old[p][k]) : old' = [old EXCEPT ![p][k] = left]
    BY <1>6
  <2>2. left \in Dirs /\ Comes(k, left)
    BY <1>1, <1>3, <2>1, RemovedTypes DEF Everywhere
  <2> QED BY <1>1, <1>2, <2>1, <2>2, ComesPut DEF OldOk
<1>7. ASSUME NEW k \in Keys, NEW d, Comes(k, d), disk' = [disk EXCEPT ![k] = d] PROVE DiskOk
  BY <1>1, <1>2, <1>7 DEF DiskOk
<1>8. ASSUME NEW k \in Keys, \E left \in Removed(disk[k]) \cup Remains(disk[k]) : disk' = [disk EXCEPT ![k] = left]
      PROVE  DiskOk
  <2>1. PICK left \in Removed(disk[k]) \cup Remains(disk[k]) : disk' = [disk EXCEPT ![k] = left]
    BY <1>8
  <2>2. Comes(k, left)
    BY <1>3, <2>1 DEF Everywhere
  <2> QED BY <1>7, <2>1, <2>2
<1>9. CASE Tick \/ UNCHANGED vars
  BY <1>4, <1>9 DEF Tick, vars
<1>10. ASSUME NEW p \in Pids, Save(p) PROVE DiskOk /\ TmpOk /\ OldOk
  <2> DEFINE k == pc[p].key
  <2>1. p \in alive /\ pc[p].at \in SaveAts
    BY <1>10 DEF Save, WriteFiles, WriteFails, CheckDir, MoveAside, AsideFails, MoveIn, InFails, PutBack,
       RemoveOld, Insert, EvictLineage, EvictToFit, At, SaveAts
  <2>2. k \in Keys /\ pc[p] \in Saving /\ tmp[p][k] \in Dirs /\ old[p][k] \in Dirs /\ disk[k] \in Dirs
    BY <1>1, <2>1, PcFacts DEF TypeOK
  <2>3. Comes(k, tmp[p][k]) /\ Comes(k, old[p][k]) /\ Comes(k, disk[k]) /\ Comes(k, NoDir)
    BY <1>2, <2>2
  <2>4. CASE WriteFiles(p)
    <3> DEFINE d == Dir(pc[p].kind, now, pc[p].sess)
    <3>1. d \in Dirs /\ Comes(k, d)
      BY <2>2, <2>4 DEF WriteFiles, At, Dir, Dirs, Saving, Comes, TypeOK, DiskTypes
    <3>2. tmp' = [tmp EXCEPT ![p][k] = d] /\ disk' = disk /\ old' = old
      BY <2>4 DEF WriteFiles
    <3> HIDE DEF d, k
    <3>3. TmpOk
      BY <1>1, <1>2, <2>2, <3>1, <3>2, ComesPut DEF TmpOk
    <3> QED BY <1>4, <3>2, <3>3
  <2> HIDE DEF k
  <2>5. CASE WriteFails(p) \/ AsideFails(p)
    BY <1>4, <1>5, <2>1, <2>5 DEF WriteFails, AsideFails
  <2>6. CASE CheckDir(p)
    <3>1. OldOk
      BY <1>4, <1>6, <2>2, <2>6 DEF CheckDir, k
    <3> QED BY <1>4, <2>6, <3>1 DEF CheckDir
  <2>7. CASE MoveAside(p)
    <3>1. old' = [old EXCEPT ![p][k] = disk[k]] /\ disk' = [disk EXCEPT ![k] = NoDir] /\ tmp' = tmp
      BY <2>7 DEF MoveAside, k
    <3>2. OldOk
      BY <1>1, <1>2, <2>2, <2>3, <3>1, ComesPut DEF OldOk
    <3>3. DiskOk
      BY <1>7, <2>2, <2>3, <3>1
    <3> QED BY <1>4, <3>1, <3>2, <3>3
  <2>8. CASE MoveIn(p)
    <3>1. tmp' = [tmp EXCEPT ![p][k] = NoDir] /\ disk' = [disk EXCEPT ![k] = tmp[p][k]] /\ old' = old
      BY <2>8 DEF MoveIn, k
    <3>2. TmpOk
      BY <1>1, <1>2, <2>2, <2>3, <3>1, ComesPut DEF TmpOk
    <3>3. DiskOk
      BY <1>7, <2>2, <2>3, <3>1
    <3> QED BY <1>4, <3>1, <3>2, <3>3
  <2>9. CASE InFails(p)
    <3>1. TmpOk
      BY <1>4, <1>5, <2>1, <2>9 DEF InFails
    <3> QED BY <1>4, <2>9, <3>1 DEF InFails
  <2>10. CASE PutBack(p)
    <3>1. TmpOk
      BY <1>5, <2>1, <2>10 DEF PutBack
    <3>2. DiskOk /\ OldOk
      <4>1. CASE disk' = [disk EXCEPT ![k] = old[p][k]] /\ old' = [old EXCEPT ![p][k] = NoDir]
        <5>1. DiskOk
          BY <1>7, <2>2, <2>3, <4>1
        <5>2. OldOk
          BY <1>1, <1>2, <2>2, <2>3, <4>1, ComesPut DEF OldOk
        <5> QED BY <5>1, <5>2
      <4>2. CASE disk' = disk /\ old' = old
        BY <1>4, <4>2
      <4> QED BY <2>10, <4>1, <4>2 DEF PutBack, k
    <3> QED BY <3>1, <3>2
  <2>11. CASE RemoveOld(p)
    <3>1. OldOk
      BY <1>6, <2>2, <2>11 DEF RemoveOld, k
    <3> QED BY <1>4, <2>11, <3>1 DEF RemoveOld
  <2>12. CASE Insert(p)
    BY <1>4, <2>12 DEF Insert
  <2>13. CASE EvictLineage(p) \/ EvictToFit(p)
    <3>1. disk' = disk \/ \E j \in Keys : RemoveEntry(p, j)
      BY <2>13, EvictMoves
    <3>2. DiskOk
      BY <1>4, <1>8, <3>1 DEF RemoveEntry
    <3>3. tmp' = tmp /\ old' = old
      BY <2>13 DEF EvictLineage, EvictToFit
    <3> QED BY <1>4, <3>2, <3>3
  <2> QED BY <1>10, <2>4, <2>5, <2>6, <2>7, <2>8, <2>9, <2>10, <2>11, <2>12, <2>13 DEF Save
<1>11. ASSUME NEW p \in Pids, NEW k \in Keys, NEW kind \in Kinds, NEW s \in Sessions \cup {Nobody},
              StartSave(p, k, kind, s)
       PROVE  DiskOk /\ TmpOk /\ OldOk
  <2>1. tmp' = [tmp EXCEPT ![p][k] = Rest] /\ disk' = disk /\ old' = old
    BY <1>11 DEF StartSave
  <2>2. TmpOk
    BY <1>1, <1>2, <2>1, ComesPut DEF TmpOk
  <2> QED BY <1>4, <2>1, <2>2
<1>12. ASSUME NEW p \in Pids, Requests(p) PROVE DiskOk /\ TmpOk /\ OldOk
  <2>1. tmp' = tmp /\ old' = old /\ (disk' = disk \/ Stamp(p))
    BY <1>12, RequestMoves
  <2>2. CASE Stamp(p)
    <3> DEFINE k == pc[p].key
               e == WithMeta(disk[k], pc[p])
    <3>1. k \in Keys /\ disk' = [disk EXCEPT ![k] = e] /\ pc[p].at = "stamp"
      BY <2>2, StampFacts DEF Stamp, At
    <3>2. Comes(k, e)
      BY <3>1 DEF Comes
    <3> HIDE DEF k, e
    <3>3. DiskOk
      BY <1>7, <3>1, <3>2
    <3> QED BY <1>4, <2>1, <3>3
  <2> QED BY <1>4, <2>1, <2>2
<1>13. ASSUME NEW p \in Pids, Evict(p) PROVE DiskOk /\ TmpOk /\ OldOk
  <2>1. pc[p].key \in Keys
    BY <1>13, PcFacts DEF Evict, At, TypeOK
  <2>2. DiskOk
    BY <1>8, <1>13, <2>1 DEF Evict, RemoveEntry
  <2> QED BY <1>4, <1>13, <2>2 DEF Evict
<1>14. ASSUME NEW p \in Pids, Crash(p) PROVE DiskOk /\ TmpOk /\ OldOk
  BY <1>4, <1>14 DEF Crash
<1>15. ASSUME NEW p \in Pids, CrashRemoving(p) PROVE DiskOk /\ TmpOk /\ OldOk
  <2>1. DiskOk
    BY <1>8, <1>15 DEF CrashRemoving
  <2> QED BY <1>4, <1>15, <2>1 DEF CrashRemoving
<1>16. ASSUME NEW p \in Pids, Load(p) PROVE DiskOk /\ TmpOk /\ OldOk
  <2>1. \A q \in Pids, k \in Keys : tmp'[q][k] \in {NoDir, tmp[q][k]} /\ old'[q][k] \in {NoDir, old[q][k]}
    BY <1>16 DEF Load
  <2>2. TmpOk /\ OldOk
    BY <1>1, <1>2, <2>1 DEF TmpOk, OldOk
  <2> QED BY <1>4, <1>16, <2>2 DEF Load
<1> QED
  BY <1>9, <1>10, <1>11, <1>12, <1>13, <1>14, <1>15, <1>16 DEF Next, Requests

(***************************************************************************)
(* A meta.json is that of its blobs                                        *)
(***************************************************************************)
LEMMA KindsStep ==
  ASSUME TypeOK, IndexInv, KindsInv, [Next]_vars
  PROVE  KindsInv'
<1>1. world' = world /\ \A k : KindsOf(k)' = KindsOf(k)
  BY WorldMoves DEF KindsOf
<1>2. alive' \subseteq DOMAIN world'.work
  BY <1>1, WorldMoves DEF KindsInv, Load
<1>3. ASSUME NEW p \in Pids, NEW k \in Keys, NEW kind \in Kinds, NEW s \in Lineages,
             StartSave(p, k, kind, s)
      PROVE  kind \in KindsOf(k) /\ pc'[p].kind = kind /\ pc'[p].key = k
  <2>1. p \in DOMAIN world.work /\ <<k, kind, s>> \in world.work[p]
    BY <1>3 DEF StartSave, At, KindsInv
  <2>2. pc'[p].kind = kind /\ pc'[p].key = k
    BY <1>3 DEF StartSave, TypeOK, ProcTypes
  <2> QED BY <2>1, <2>2 DEF KindsOf, Lineages
<1>4. ASSUME NEW k \in Keys, NEW d \in Everywhere(k), NEW left \in Remains(d) PROVE OfKey(k, left)
  <2>1. OfKey(k, d) /\ d \in Dirs
    BY DEF KindsInv, Everywhere, TypeOK, DiskTypes
  <2> QED BY <2>1 DEF OfKey, Remains, HasMeta, Dirs, NoDir, Rest
<1>5. ASSUME NEW k \in Keys, NEW e \in Everywhere(k)' PROVE OfKey(k, e)
  <2>1. Comes(k, e)
    BY DirMoves
  <2>2. CASE e \in {NoDir, Rest}
    BY <2>2 DEF OfKey, HasMeta, NoDir, Rest
  <2>3. CASE \E d \in Everywhere(k) : e \in Remains(d)
    BY <1>4, <2>3
  <2>4. CASE \E p \in Pids : pc[p].at = "write" /\ pc[p].key = k /\ e = Dir(pc[p].kind, now, pc[p].sess)
    BY <2>4 DEF OfKey, Dir, KindsInv, SaveAts
  <2>5. CASE \E p \in Pids : pc[p].at = "stamp" /\ pc[p].key = k /\ e = WithMeta(disk[k], pc[p])
    <3>1. OfKey(k, disk[k])
      BY DEF KindsInv, Everywhere
    <3> QED BY <2>5, <3>1 DEF OfKey, WithMeta, KindsInv
  <2> QED BY <2>1, <2>2, <2>3, <2>4, <2>5 DEF Comes
<1>6. ASSUME NEW p \in Pids, pc'[p].at \in SaveAts \cup {"stamp"}
      PROVE  pc'[p].kind \in KindsOf(pc'[p].key)
  <2>1. CASE pc'[p] = pc[p]
    BY <1>6, <2>1 DEF KindsInv
  <2>2. CASE pc'[p] = Idle
    BY <1>6, <2>2 DEF Idle, SaveAts
  <2>3. CASE /\ pc[p].at \in SaveAts /\ pc'[p].at \in SaveAts
             /\ pc'[p].key = pc[p].key /\ pc'[p].kind = pc[p].kind
    BY <2>3 DEF KindsInv
  <2>4. CASE \E k \in Keys, kind \in Kinds, s \in Lineages : StartSave(p, k, kind, s)
    BY <1>3, <2>4
  <2>5. CASE Requests(p)
    <3>1. Touch(p) /\ p \in alive
      BY <1>6, <2>5, RequestMoves DEF SaveAts
    <3> DEFINE k == pc[p].key
    <3>2. /\ k \in Keys /\ pc \in [Pids -> {Idle} \cup Saving \cup Restoring \cup Stamping]
      BY <3>1, PcFacts DEF Touch, At, TypeOK, ProcTypes
    <3>3. HasMeta(disk[k]) /\ pc'[p].kind = disk[k].kind /\ pc'[p].key = k
      <4>1. CASE HasMeta(disk[k])
        <5>1. pc'[p] = [at |-> "stamp", key |-> k, kind |-> disk[k].kind, sess |-> disk[k].sess, used |-> now]
          BY <3>1, <3>2, <4>1 DEF Touch
        <5> QED BY <4>1, <5>1
      <4>2. CASE ~ HasMeta(disk[k])
        <5>1. pc'[p] = Idle
          BY <3>1, <3>2, <4>2 DEF Touch
        <5> QED BY <1>6, <5>1 DEF Idle, SaveAts
      <4> QED BY <4>1, <4>2
    <3>4. OfKey(k, disk[k])
      BY <3>2 DEF KindsInv, Everywhere
    <3> QED BY <3>3, <3>4 DEF OfKey
  <2> QED BY <2>1, <2>2, <2>3, <2>4, <2>5, PcMoves
<1>7. /\ \A k \in Keys : \A e \in Everywhere(k)' : OfKey(k, e)'
  BY <1>1, <1>5 DEF OfKey, HasMeta
<1>8. (\A p \in Pids : pc[p].at \in SaveAts \cup {"stamp"} => pc[p].kind \in KindsOf(pc[p].key))'
  BY <1>1, <1>6 DEF KindsOf
<1> QED BY <1>2, <1>7, <1>8 DEF KindsInv

\* Nobody writes to the disk of a server that is about to write a meta.json.
LEMMA DiskWaits ==
  ASSUME TypeOK, OneAtATime, ~ world.overlap, [Next]_vars,
         NEW p \in Pids, pc[p].at = "stamp", pc'[p] = pc[p]
  PROVE  disk' = disk
<1>1. p \in alive /\ ProcTypes
  BY PcFacts DEF TypeOK
<1>2. \A q \in alive : q = p
  BY <1>1 DEF OneAtATime
<1>3. pc'[p] # Idle
  BY DEF Idle
<1>4. ASSUME NEW q \in Pids, Save(q) \/ Evict(q) PROVE FALSE
  <2>1. q \in alive /\ pc[q].at # "stamp"
    BY <1>4 DEF Save, WriteFiles, WriteFails, CheckDir, MoveAside, AsideFails, MoveIn, InFails, PutBack,
       RemoveOld, Insert, EvictLineage, EvictToFit, Evict, At
  <2> QED BY <1>2, <2>1
<1>5. ASSUME NEW q \in Pids, Requests(q) PROVE disk' = disk
  <2>1. CASE Stamp(q)
    <3>1. q = p /\ Rests(p)
      BY <1>2, <2>1 DEF Stamp, At
    <3> QED BY <1>1, <1>3, <3>1, RestsFacts
  <2> QED BY <1>5, <2>1, RequestMoves
<1>6. ASSUME NEW q \in Pids, CrashRemoving(q) PROVE FALSE
  <2>1. q \in alive /\ pc[q].at # "stamp"
    BY <1>6 DEF CrashRemoving, At
  <2> QED BY <1>2, <2>1
<1>7. ASSUME NEW q \in Pids,
             \/ \E k \in Keys, kind \in Kinds, s \in Sessions \cup {Nobody} : StartSave(q, k, kind, s)
             \/ Load(q) \/ Crash(q)
      PROVE  disk' = disk
  BY <1>7 DEF StartSave, Load, Crash
<1>8. CASE Tick \/ UNCHANGED vars
  BY <1>8 DEF Tick, vars
<1> QED BY <1>4, <1>5, <1>6, <1>7, <1>8 DEF Next, Requests

LEMMA MatchStep ==
  ASSUME TypeOK, IndexInv, OneAtATime, MatchInv, [Next]_vars
  PROVE  MatchInv'
<1>1. world' = world
  BY WorldMoves
<1> SUFFICES ASSUME ~ world.overlap
             PROVE  /\ \A k \in Keys : \A e \in Everywhere(k)' : Matched(e)
                    /\ \A p \in Pids : pc'[p].at = "stamp" =>
                         HasMeta(disk'[pc'[p].key]) /\ disk'[pc'[p].key].kind = pc'[p].kind
  BY <1>1 DEF MatchInv, Matched, HasMeta
<1>2. ASSUME NEW k \in Keys, NEW d \in Everywhere(k), NEW left \in Remains(d) PROVE Matched(left)
  <2>1. Matched(d) /\ d \in Dirs
    BY DEF MatchInv, Everywhere, TypeOK, DiskTypes
  <2> QED BY <2>1 DEF Matched, Remains, HasMeta, Dirs, NoDir, Rest
<1>3. ASSUME NEW k \in Keys, NEW e \in Everywhere(k)' PROVE Matched(e)
  <2>1. Comes(k, e)
    BY DirMoves
  <2>2. CASE e \in {NoDir, Rest}
    BY <2>2 DEF Matched, HasMeta, NoDir, Rest
  <2>3. CASE \E d \in Everywhere(k) : e \in Remains(d)
    BY <1>2, <2>3
  <2>4. CASE \E p \in Pids : pc[p].at = "write" /\ pc[p].key = k /\ e = Dir(pc[p].kind, now, pc[p].sess)
    BY <2>4 DEF Matched, Dir
  <2>5. CASE \E p \in Pids : pc[p].at = "stamp" /\ pc[p].key = k /\ e = WithMeta(disk[k], pc[p])
    <3>1. PICK p \in Pids : pc[p].at = "stamp" /\ pc[p].key = k /\ e = WithMeta(disk[k], pc[p])
      BY <2>5
    <3>2. HasMeta(disk[k]) /\ disk[k].kind = pc[p].kind /\ Matched(disk[k])
      BY <3>1 DEF MatchInv, Everywhere
    <3> QED BY <3>1, <3>2 DEF Matched, WithMeta
  <2> QED BY <2>1, <2>2, <2>3, <2>4, <2>5 DEF Comes
<1>4. ASSUME NEW p \in Pids, pc'[p].at = "stamp"
      PROVE  HasMeta(disk'[pc'[p].key]) /\ disk'[pc'[p].key].kind = pc'[p].kind
  <2>1. CASE pc'[p] = pc[p]
    <3>1. disk' = disk
      BY <1>4, <2>1, DiskWaits
    <3> QED BY <1>4, <2>1, <3>1 DEF MatchInv, HasMeta
  <2>2. CASE pc'[p] = Idle \/ pc'[p].at \in SaveAts
    BY <1>4, <2>2 DEF Idle, SaveAts
  <2>3. CASE \E k \in Keys, kind \in Kinds, s \in Lineages : StartSave(p, k, kind, s)
    BY <1>4, <2>3 DEF StartSave, TypeOK, ProcTypes
  <2>4. CASE Requests(p)
    <3>1. Touch(p)
      BY <1>4, <2>4, RequestMoves
    <3> DEFINE k == pc[p].key
    <3>2. disk' = disk /\ pc \in [Pids -> {Idle} \cup Saving \cup Restoring \cup Stamping]
      BY <3>1 DEF Touch, TypeOK, ProcTypes
    <3>3. CASE HasMeta(disk[k])
      <4>1. pc'[p] = [at |-> "stamp", key |-> k, kind |-> disk[k].kind, sess |-> disk[k].sess, used |-> now]
        BY <3>1, <3>2, <3>3 DEF Touch
      <4>2. pc'[p].key = k /\ pc'[p].kind = disk[k].kind
        BY <4>1
      <4> QED BY <3>2, <3>3, <4>2 DEF HasMeta
    <3>4. CASE ~ HasMeta(disk[k])
      <4>1. pc'[p] = Idle
        BY <3>1, <3>2, <3>4 DEF Touch
      <4> QED BY <1>4, <4>1 DEF Idle
    <3> QED BY <3>3, <3>4
  <2> QED BY <2>1, <2>2, <2>3, <2>4, PcMoves
<1> QED BY <1>3, <1>4

LEMMA MatchInit == Init => KindsInv /\ MatchInv
BY DEF Init, KindsInv, MatchInv, Everywhere, OfKey, Matched, HasMeta, NoDir, Idle, SaveAts

\* A whole directory is sound.
LEMMA SoundFacts ==
  ASSUME TypeOK, KindsInv, MatchInv, NEW k \in Keys, NEW d \in Everywhere(k), Whole(d)
  PROVE  d.kind = d.blobs \/ MayMix(k)
<1>1. HasMeta(d)
  BY DEF Whole, HasMeta
<1>2. CASE ~ world.overlap
  BY <1>1, <1>2 DEF MatchInv, Matched
<1>3. CASE world.overlap /\ KindsOf(k) # Kinds
  <2>1. {d.kind, d.blobs} \subseteq KindsOf(k) /\ KindsOf(k) \subseteq {"full", "ckpt"}
    BY <1>1 DEF KindsInv, OfKey, KindsOf, Kinds
  <2>2. ~ ("full" \in KindsOf(k) /\ "ckpt" \in KindsOf(k))
    BY <1>3, <2>1 DEF Kinds
  <2> QED BY <2>1, <2>2
<1> QED BY <1>2, <1>3 DEF MayMix

LEMMA KeptDurable ==
  ASSUME TypeOK, KeptInv, KindsInv, MatchInv
  PROVE  Durable
<1> SUFFICES ASSUME NEW k \in Keys, owner[k] # Nobody
             PROVE  LET Sound(d) == Whole(d) /\ (d.kind = d.blobs \/ MayMix(k)) IN
                    \/ Sound(disk[k])
                    \/ \E p \in Pids : /\ Sound(old[p][k])
                                       /\ p \in alive => BetweenRenames(p) /\ pc[p].key = k
  BY DEF Durable
<1>1. \A d \in Everywhere(k) : Whole(d) => d.kind = d.blobs \/ MayMix(k)
  BY SoundFacts
<1>2. Kept(k) /\ alive \subseteq Pids
  BY DEF KeptInv, TypeOK, ProcTypes
<1>3. CASE Whole(disk[k])
  BY <1>1, <1>3 DEF Everywhere
<1>4. CASE \E p \in alive : Whole(old[p][k]) /\ BetweenRenames(p) /\ pc[p].key = k
  <2>1. PICK p \in alive : Whole(old[p][k]) /\ BetweenRenames(p) /\ pc[p].key = k
    BY <1>4
  <2>2. p \in Pids /\ old[p][k] \in Everywhere(k)
    BY <1>2, <2>1 DEF Everywhere
  <2> QED BY <1>1, <2>1, <2>2
<1> QED BY <1>2, <1>3, <1>4 DEF Kept

(***************************************************************************)
(* What was used when, and who is evicted                                  *)
(***************************************************************************)
LEMMA UntilRemoved ==
  ASSUME NEW d \in Dirs, NEW t \in Nat, Until(d, t), NEW left \in Removed(d) \cup Remains(d)
  PROVE  Until(left, t)
BY DEF Until, Removed, Remains, HasMeta, NoDir, Rest, Dirs

LEMMA UntilLater ==
  ASSUME NEW d \in Dirs, now \in Nat, Until(d, now), now' \in {now, now + 1}
  PROVE  Until(d, now')
<1>1. HasMeta(d) => d.used \in Nat
  BY DEF HasMeta, Dirs, NoDir, Rest
<1> QED BY <1>1 DEF Until

LEMMA DirsStep ==
  ASSUME TypeOK, IndexInv, AgeInv, [Next]_vars
  PROVE  DirsPast'
<1>1. now \in Nat /\ now' \in {now, now + 1}
  BY WorldMoves DEF TypeOK, DiskTypes
<1>2. ASSUME NEW k \in Keys, NEW d \in Everywhere(k), NEW left \in Remains(d)
      PROVE  Until(left, now) /\ left \in Dirs
  <2>1. Until(d, now) /\ d \in Dirs
    BY DEF AgeInv, DirsPast, Everywhere, TypeOK, DiskTypes
  <2> QED BY <1>1, <2>1, UntilRemoved, RemovedTypes
<1>3. ASSUME NEW k \in Keys, NEW e \in Everywhere(k)' PROVE Until(e, now')
  <2>1. Comes(k, e)
    BY DirMoves
  <2>2. CASE e \in {NoDir, Rest}
    BY <2>2 DEF Until, HasMeta, NoDir, Rest
  <2>3. CASE \E d \in Everywhere(k) : e \in Remains(d)
    BY <1>1, <1>2, <2>3, UntilLater
  <2>4. CASE \E p \in Pids : pc[p].at = "write" /\ pc[p].key = k /\ e = Dir(pc[p].kind, now, pc[p].sess)
    BY <1>1, <2>4 DEF Until, Dir
  <2>5. CASE \E p \in Pids : pc[p].at = "stamp" /\ pc[p].key = k /\ e = WithMeta(disk[k], pc[p])
    <3>1. PICK p \in Pids : pc[p].at = "stamp" /\ pc[p].key = k /\ e = WithMeta(disk[k], pc[p])
      BY <2>5
    <3>2. pc[p].used \in Nat /\ pc[p].used <= now
      BY <3>1, PcFacts DEF TypeOK, AgeInv, StampsPast
    <3> QED BY <1>1, <3>1, <3>2 DEF Until, WithMeta
  <2> QED BY <2>1, <2>2, <2>3, <2>4, <2>5 DEF Comes
<1> QED BY <1>3 DEF DirsPast, Everywhere, Until, HasMeta

LEMMA StampsStep ==
  ASSUME TypeOK, IndexInv, AgeInv, [Next]_vars
  PROVE  StampsPast'
<1>1. now \in Nat /\ now' \in {now, now + 1}
  BY WorldMoves DEF TypeOK, DiskTypes
<1> SUFFICES ASSUME NEW p \in Pids, pc'[p].at = "stamp" PROVE pc'[p].used <= now'
  BY DEF StampsPast
<1>2. CASE pc'[p] = pc[p]
  BY <1>1, <1>2, PcFacts DEF TypeOK, AgeInv, StampsPast
<1>3. CASE pc'[p] = Idle \/ pc'[p].at \in SaveAts
  BY <1>3 DEF Idle, SaveAts
<1>4. CASE \E k \in Keys, kind \in Kinds, s \in Lineages : StartSave(p, k, kind, s)
  BY <1>4 DEF StartSave, TypeOK, ProcTypes
<1>5. CASE Requests(p)
  <2>1. Touch(p) /\ pc \in [Pids -> {Idle} \cup Saving \cup Restoring \cup Stamping]
    BY <1>5, RequestMoves DEF TypeOK, ProcTypes
  <2> DEFINE d == disk[pc[p].key]
  <2>2. pc'[p] = Idle \/ pc'[p] = [at |-> "stamp", key |-> pc[p].key, kind |-> d.kind, sess |-> d.sess,
                                   used |-> now]
    BY <2>1 DEF Touch
  <2>3. pc'[p].used = now
    BY <2>2 DEF Idle
  <2> QED BY <1>1, <2>3
<1> QED BY <1>2, <1>3, <1>4, <1>5, PcMoves

LEMMA IndexPastStep ==
  ASSUME TypeOK, IndexInv, IndexTyped, AgeInv, [Next]_vars
  PROVE  IndexPast'
<1> SUFFICES ASSUME NEW p \in Pids, NEW k \in Keys PROVE index'[p].ent[k].used <= now'
  BY DEF IndexPast
<1>1. /\ now \in Nat /\ now' \in {now, now + 1} /\ disk \in [Keys -> Dirs]
      /\ \A j \in Keys : index[p].ent[j].used \in Nat /\ index[p].ent[j].used <= now
  <2>1. now' \in {now, now + 1}
    BY WorldMoves
  <2>2. Agree(index[p])
    BY DEF IndexInv
  <2>3. \A j \in Keys : index[p].ent[j].used \in Nat
    BY <2>2, AgreeFacts
  <2> QED BY <2>1, <2>3 DEF TypeOK, DiskTypes, AgeInv, IndexPast
<1>2. IndexStep(p) /\ Agree(index[p])
  BY IndexMoves DEF IndexInv
<1>3. SUFFICES ASSUME index'[p].ent[k].used > now' PROVE FALSE
  <2>1. index'[p].ent[k].used \in Nat
    <3>1. IndexInv'
      BY IndexNext
    <3>2. index'[p].ent \in [Keys -> EntryVals]
      BY <3>1 DEF IndexInv, Agree, IndexVals
    <3> QED BY <3>2 DEF EntryVals
  <2> QED BY <1>1, <2>1, <1>3
<1>4. CASE index'[p] = index[p]
  BY <1>1, <1>3, <1>4
<1>5. CASE index'[p] = Empty
  BY <1>1, <1>3, <1>5, EmptyAgrees DEF NoEntry
<1>6. CASE \E j \in Keys : index'[p] = Dropped(index[p], j)
  <2>1. PICK j \in Keys : index'[p] = Dropped(index[p], j)
    BY <1>6
  <2>2. /\ Dropped(index[p], j).ent[j] = NoEntry
        /\ \A i \in Keys \ {j} : Dropped(index[p], j).ent[i] = index[p].ent[i]
    BY <1>2, DroppedAgrees
  <2>3. index'[p].ent[k] = NoEntry \/ index'[p].ent[k] = index[p].ent[k]
    BY <2>1, <2>2
  <2> QED BY <1>1, <1>3, <2>3 DEF NoEntry
<1>7. CASE pc[p].at = "insert" /\ index'[p] =
             Added(index[p], pc[p].key, Entry(pc[p].kind, pc[p].used, pc[p].sess))
  <2> DEFINE e == Entry(pc[p].kind, pc[p].used, pc[p].sess)
             ix == index[p]
             j == pc[p].key
  <2>1. e \in EntryVals /\ e.bytes # 0 /\ j \in Keys /\ e.used = pc[p].used
    BY <1>7, EntryFacts
  <2>2. pc[p].used <= now
    BY <1>7 DEF AgeInv, SavedBy, Stamped
  <2>3. index'[p] = Added(ix, j, e) /\ Agree(ix)
    BY <1>2, <1>7
  <2> HIDE DEF e, ix, j
  <2>4. Added(ix, j, e).ent[j] = e /\ \A i \in Keys \ {j} : Added(ix, j, e).ent[i] = ix.ent[i]
    BY <2>1, <2>3, AddedAgrees
  <2>5. index'[p].ent[k] = e \/ index'[p].ent[k] = ix.ent[k]
    BY <2>3, <2>4
  <2>6. e.used \in Nat
    BY <2>1 DEF EntryVals
  <2> QED BY <1>1, <1>3, <2>1, <2>2, <2>5, <2>6 DEF ix
<1>8. CASE pc[p].at = "touch" /\ index'[p] = Touched(index[p], pc[p].key)
  <2>1. pc[p].key \in Keys
    BY <1>8, PcFacts DEF TypeOK
  <2>2. \A i \in Keys : Touched(index[p], pc[p].key).ent[i].used \in {index[p].ent[i].used, now}
    BY <1>1, <1>2, <2>1, TouchedAgrees
  <2> QED BY <1>1, <1>3, <1>8, <2>2
<1>9. CASE \E o \in Orders({i \in Keys : HasMeta(disk[i])}) :
             index'[p] = Loaded({i \in Keys : HasMeta(disk[i])}, o)
  <2> DEFINE ks == {i \in Keys : HasMeta(disk[i])}
  <2>1. PICK o \in Orders(ks) : index'[p] = Loaded(ks, o)
    BY <1>9
  <2>2. ks \in SUBSET Keys /\ (\A i \in ks : HasMeta(disk[i]))
    OBVIOUS
  <2>3. \A i \in ks : disk[i].used \in Nat /\ disk[i].used <= now
    BY <1>1 DEF AgeInv, DirsPast, Until, HasMeta, Dirs, NoDir, Rest
  <2> HIDE DEF ks
  <2>4. \A i \in Keys : Loaded(ks, o).ent[i].used \in {0} \cup {disk[j].used : j \in ks}
    BY <1>1, <2>1, <2>2, LoadedAgrees
  <2>5. Loaded(ks, o).ent[k].used \in Nat /\ Loaded(ks, o).ent[k].used <= now
    BY <1>1, <2>3, <2>4
  <2> QED BY <1>1, <1>3, <2>1, <2>5
<1> QED BY <1>2, <1>4, <1>5, <1>6, <1>7, <1>8, <1>9 DEF IndexStep

LEMMA SavedIdle ==
  ASSUME NEW p \in Pids, pc'[p].at \notin Stamped
  PROVE  SavedBy(p)'
BY DEF SavedBy, Stamped

LEMMA SavedFrame ==
  ASSUME AgeInv, NEW p \in Pids, now' = now, SavedBy(p)',
         \A q \in Pids \ {p} : pc'[q] = pc[q] /\ index'[q] = index[q]
  PROVE  \A q \in Pids : SavedBy(q)'
<1> SUFFICES ASSUME NEW q \in Pids \ {p} PROVE SavedBy(q)'
  OBVIOUS
<1>1. SavedBy(q) /\ pc'[q] = pc[q] /\ index'[q] = index[q]
  BY DEF AgeInv
<1> QED BY <1>1 DEF SavedBy, Held

\* A save that goes on towards its rename, its index as it was.
LEMMA SavedOn ==
  ASSUME AgeInv, NEW p \in Pids, now' = now, index'[p] = index[p],
         pc[p].at \in Stamped, pc'[p].used = pc[p].used,
         pc'[p].at \notin {"lineage", "fit"}
  PROVE  SavedBy(p)'
<1>1. SavedBy(p)
  BY DEF AgeInv
<1> QED BY <1>1 DEF SavedBy, Stamped

LEMMA SavedInsert ==
  ASSUME TypeOK, IndexInv, IndexTyped, AgeInv, NEW p \in Pids, Insert(p)
  PROVE  \A q \in Pids : SavedBy(q)'
<1> DEFINE ix == index[p]
           c == pc[p]
           e == Entry(c.kind, c.used, c.sess)
           x == Added(ix, c.key, e)
<1>1. /\ e \in EntryVals /\ e.bytes # 0 /\ e.used = c.used /\ e.sess = c.sess /\ c.key \in Keys /\ Agree(ix)
  BY EntryFacts DEF Insert, At, IndexInv
<1>2. /\ index' = [index EXCEPT ![p] = x] /\ now' = now /\ ProcTypes /\ pc[p].at \in SaveAts
      /\ Goto(p, IF c.sess = Nobody THEN "fit" ELSE "lineage") /\ c.at = "insert"
  BY DEF Insert, At, TypeOK, SaveAts
<1>3. /\ c \in Saving /\ c.sess \in Lineages /\ c.used \in Nat
      /\ c.used <= now /\ \A k \in Keys : ix.ent[k].used <= c.used
  BY <1>2, PcFacts DEF SaveAts, AgeInv, SavedBy, Stamped
<1>4. /\ pc'[p].at = IF c.sess = Nobody THEN "fit" ELSE "lineage"
      /\ pc'[p].key = c.key /\ pc'[p].sess = c.sess /\ pc'[p].used = c.used
      /\ \A q \in Pids \ {p} : pc'[q] = pc[q]
  BY <1>2, GotoFacts DEF SaveAts
<1> HIDE DEF ix, e, c
<1>5. /\ x.ent[c.key] = e /\ Held(x) = Held(ix) \cup {c.key}
      /\ \A j \in Keys \ {c.key} : x.ent[j] = ix.ent[j]
      /\ e.sess \in Sessions => LastOf(x.bySess[e.sess], c.key)
  BY <1>1, AddedAgrees
<1> HIDE DEF x
<1>6. index'[p] = x /\ \A q \in Pids \ {p} : index'[q] = index[q]
  BY <1>2, OneIndexMoves
<1>7. c.key \in Held(index'[p]) /\ index'[p].ent[c.key] = e
  BY <1>5, <1>6
<1>8. \A k \in Keys : index'[p].ent[k].used <= c.used
  BY <1>1, <1>3, <1>5, <1>6
<1>9. c.sess # Nobody => LastOf(index'[p].bySess[c.sess], c.key)
  BY <1>1, <1>3, <1>5, <1>6 DEF Lineages
<1>10. SavedBy(p)'
  BY <1>1, <1>2, <1>3, <1>4, <1>7, <1>8, <1>9 DEF SavedBy, Stamped, Held
<1> QED BY <1>2, <1>4, <1>6, <1>10, SavedFrame

LEMMA SavedEvicts ==
  ASSUME TypeOK, IndexInv, IndexTyped, AgeInv, NEW p \in Pids,
         EvictLineage(p) \/ EvictToFit(p) \/ Evict(p)
  PROVE  \A q \in Pids : SavedBy(q)'
<1> DEFINE ix == index[p]
           c == pc[p]
<1>1. /\ now' = now /\ \A q \in Pids \ {p} : pc'[q] = pc[q]
      /\ Agree(ix) /\ SavedBy(p) /\ ProcTypes
  BY EvictMoves DEF EvictLineage, EvictToFit, Evict, IndexInv, AgeInv, TypeOK
<1>2. \A k \in Keys : ix.ent[k].used \in Nat
  <2> HIDE DEF ix
  <2> QED BY <1>1, AgreeFacts
<1>3. \/ index' = index /\ c.at = "lineage" /\ Goto(p, "fit")
      \/ index' = index /\ pc'[p] = Idle
      \/ c.at = "lineage" /\ pc' = pc /\ RemoveEntry(p, Oldest(ix, c.sess))
         /\ Oldest(ix, c.sess) \in Keys /\ c.sess \in Sessions /\ Len(ix.bySess[c.sess]) > PerLineage
      \/ c.at = "fit" /\ pc' = pc /\ RemoveEntry(p, LeastRecent(ix))
         /\ LeastRecent(ix) \in Keys /\ ix.bytes > CapBytes
      \/ pc'[p] = Idle /\ \E k \in Keys : RemoveEntry(p, k)
  BY EvictMoves
<1>4. CASE index' = index /\ c.at = "lineage" /\ Goto(p, "fit")
  <2>1. /\ pc'[p].at = "fit" /\ pc'[p].key = c.key /\ pc'[p].used = c.used
    BY <1>1, <1>4, GotoFacts DEF SaveAts
  <2>2. SavedBy(p)'
    BY <1>1, <1>4, <2>1 DEF SavedBy, Stamped
  <2> QED BY <1>1, <1>4, <2>2, SavedFrame
<1>5. CASE pc'[p] = Idle
  <2>1. \A q \in Pids \ {p} : index'[q] = index[q]
    BY <1>3, <1>5, RemovalFacts
  <2>2. SavedBy(p)'
    BY <1>5, SavedIdle DEF Idle, Stamped
  <2> QED BY <1>1, <2>1, <2>2, SavedFrame
<1>6. ASSUME c.at \in {"lineage", "fit"}, pc' = pc, NEW k \in Keys, RemoveEntry(p, k),
             c.at = "lineage" => k # c.key,
             \A j \in Held(ix) : ix.ent[k].used <= ix.ent[j].used \/ k # c.key
      PROVE  \A q \in Pids : SavedBy(q)'
  <2>1. /\ Held(index'[p]) = Held(ix) \ {k} /\ index'[p].ent[k] = NoEntry
        /\ \A j \in Keys \ {k} : index'[p].ent[j] = ix.ent[j]
        /\ \A s \in Sessions : index'[p].bySess[s] =
             IF s = ix.ent[k].sess /\ ix.ent[k] # NoEntry
             THEN Without(ix.bySess[s], {k}) ELSE ix.bySess[s]
        /\ \A q \in Pids \ {p} : index'[q] = index[q]
    BY <1>6, RemovalFacts
  <2>2. /\ c \in Saving /\ c.used \in Nat /\ c.key \in Keys /\ c.sess \in Lineages
        /\ c.at = "lineage" => c.sess \in Sessions
    BY <1>6, PcFacts DEF TypeOK, SaveAts, SaveSteps, Lineages
  <2>3. /\ c.used <= now /\ \A j \in Keys : ix.ent[j].used <= c.used
        /\ IF c.key \in Held(ix) THEN ix.ent[c.key].used = c.used
           ELSE \A j \in Held(ix) : ix.ent[j].used >= c.used
        /\ c.at = "lineage" =>
             /\ c.key \in Held(ix) /\ ix.ent[c.key].sess = c.sess
             /\ LastOf(ix.bySess[c.sess], c.key)
    BY <1>1, <1>6 DEF SavedBy, Stamped
  <2>4. Held(ix) \subseteq Keys
    BY DEF Held
  <2>5. \A j \in Keys : index'[p].ent[j].used <= c.used
    BY <2>1, <2>2, <2>3 DEF NoEntry
  <2>6. IF c.key \in Held(index'[p]) THEN index'[p].ent[c.key].used = c.used
        ELSE \A j \in Held(index'[p]) : index'[p].ent[j].used >= c.used
    BY <1>2, <1>6, <2>1, <2>2, <2>3, <2>4
  <2>7. ASSUME c.at = "lineage"
        PROVE  /\ c.key \in Held(index'[p]) /\ index'[p].ent[c.key].sess = c.sess
               /\ LastOf(index'[p].bySess[c.sess], c.key)
    <3> DEFINE s == c.sess
               seq == ix.bySess[s]
               j == c.key
    <3>1. seq \in Seq(Keys) /\ s \in Sessions /\ LastOf(seq, j) /\ j \notin {k}
      <4> HIDE DEF ix
      <4> QED BY <1>1, <1>6, <2>2, <2>3, <2>7, AgreeFacts
    <3>2. LastOf(Without(seq, {k}), j)
      <4> HIDE DEF seq, j
      <4> QED BY <3>1, LastWithout
    <3>3. index'[p].bySess[s] \in {seq, Without(seq, {k})}
      BY <2>1, <3>1
    <3>4. LastOf(index'[p].bySess[s], j)
      <4> HIDE DEF seq, j, s
      <4> QED BY <3>1, <3>2, <3>3
    <3> QED BY <1>6, <2>1, <2>2, <2>3, <2>7, <3>4
  <2>8. SavedBy(p)'
    BY <1>1, <1>6, <2>3, <2>5, <2>6, <2>7 DEF SavedBy, Stamped
  <2> QED BY <1>1, <2>1, <2>8, SavedFrame
<1>7. CASE c.at = "lineage" /\ pc' = pc /\ RemoveEntry(p, Oldest(ix, c.sess))
           /\ Oldest(ix, c.sess) \in Keys /\ c.sess \in Sessions /\ Len(ix.bySess[c.sess]) > PerLineage
  <2> DEFINE k == c.key
             s == c.sess
  <2>1. LastOf(ix.bySess[s], k) /\ \A j \in Keys : ix.ent[j].used <= ix.ent[k].used
    BY <1>1, <1>7 DEF SavedBy, Stamped
  <2>2. Oldest(ix, s) # k
    <3>1. s \in Sessions /\ Len(ix.bySess[s]) > PerLineage
      BY <1>7
    <3> HIDE DEF ix, k, s
    <3> QED BY <1>1, <2>1, <3>1, OldestOther
  <2> QED BY <1>6, <1>7, <2>2
<1>8. CASE c.at = "fit" /\ pc' = pc /\ RemoveEntry(p, LeastRecent(ix))
           /\ LeastRecent(ix) \in Keys /\ ix.bytes > CapBytes
  <2>1. ix.bytes > 0
    <3>1. CapBytes \in Nat /\ ix.bytes \in Nat /\ ix.bytes > CapBytes
      BY <1>1, <1>8, SnapshotAssumption DEF Agree, IndexVals
    <3> HIDE DEF ix
    <3> QED BY <3>1
  <2>2. \A j \in Held(ix) : ix.ent[LeastRecent(ix)].used <= ix.ent[j].used
    <3> HIDE DEF ix
    <3> QED BY <1>1, <2>1, LeastRecentFacts
  <2> QED BY <1>6, <1>8, <2>2
<1> QED BY <1>3, <1>4, <1>5, <1>7, <1>8

LEMMA SavedSaves ==
  ASSUME TypeOK, IndexInv, IndexTyped, AgeInv, NEW p \in Pids, Save(p)
  PROVE  \A q \in Pids : SavedBy(q)'
<1>1. CASE EvictLineage(p) \/ EvictToFit(p)
  BY <1>1, SavedEvicts
<1>2. CASE Insert(p)
  BY <1>2, SavedInsert
<1>3. CASE WriteFiles(p)
  <2>1. /\ pc'[p].at = "check" /\ pc'[p].used = now /\ \A q \in Pids \ {p} : pc'[q] = pc[q]
        /\ index' = index /\ now' = now
    BY <1>3, WriteFilesTypes DEF WriteFiles
  <2>2. SavedBy(p)'
    BY <2>1 DEF SavedBy, AgeInv, IndexPast, Stamped, TypeOK, DiskTypes
  <2> QED BY <2>1, <2>2, SavedFrame
<1>4. CASE WriteFails(p) \/ AsideFails(p) \/ PutBack(p) \/ (InFails(p) /\ ~ pc[p].moved)
  <2>1. /\ GiveUp(p) /\ p \in alive /\ pc[p].at \in SaveAts /\ index' = index /\ now' = now
    BY <1>4 DEF WriteFails, AsideFails, PutBack, InFails, At, SaveAts
  <2>2. pc'[p] = Idle /\ \A q \in Pids \ {p} : pc'[q] = pc[q]
    BY <2>1, GiveUpFacts
  <2>3. SavedBy(p)'
    BY <2>2, SavedIdle DEF Idle, Stamped
  <2> QED BY <2>1, <2>2, <2>3, SavedFrame
<1>5. CASE MoveAside(p)
  <2>1. p \in alive /\ pc[p].at = "aside" /\ pc[p] \in Saving /\ index' = index /\ now' = now
    BY <1>5, PcFacts DEF MoveAside, At, TypeOK, SaveAts
  <2>2. /\ pc'[p] = [[pc[p] EXCEPT !.at = "in"] EXCEPT !.moved = TRUE]
        /\ \A q \in Pids \ {p} : pc'[q] = pc[q]
    BY <1>5 DEF MoveAside, TypeOK, ProcTypes
  <2>3. pc'[p].at = "in" /\ pc'[p].used = pc[p].used
    BY <2>1, <2>2 DEF Saving
  <2>4. SavedBy(p)'
    BY <2>1, <2>3, SavedOn DEF Stamped
  <2> QED BY <2>1, <2>2, <2>4, SavedFrame
<1>6. CASE CheckDir(p) \/ MoveIn(p) \/ (InFails(p) /\ pc[p].moved) \/ RemoveOld(p)
  <2>1. p \in alive /\ pc[p].at \in SaveAts /\ pc[p].at \in Stamped /\ index' = index /\ now' = now
    BY <1>6 DEF CheckDir, MoveIn, InFails, RemoveOld, At, SaveAts, Stamped
  <2>2. PICK where \in {"in", "aside", "clean", "insert", "back"} : Goto(p, where)
    BY <1>6 DEF CheckDir, MoveIn, InFails, RemoveOld
  <2>3. pc'[p].at = where /\ pc'[p].used = pc[p].used /\ \A q \in Pids \ {p} : pc'[q] = pc[q]
    BY <2>1, <2>2, GotoFacts DEF TypeOK, SaveAts
  <2>4. SavedBy(p)'
    BY <2>1, <2>2, <2>3, SavedOn DEF Stamped
  <2> QED BY <2>1, <2>3, <2>4, SavedFrame
<1> QED BY <1>1, <1>2, <1>3, <1>4, <1>5, <1>6 DEF Save

LEMMA SavedOthers ==
  ASSUME TypeOK, IndexInv, IndexTyped, AgeInv, NEW p \in Pids,
         (\E k \in Keys, kind \in Kinds, s \in Lineages : StartSave(p, k, kind, s))
           \/ Requests(p) \/ Load(p) \/ Crash(p) \/ CrashRemoving(p)
  PROVE  \A q \in Pids : SavedBy(q)'
<1>1. CASE \E k \in Keys, kind \in Kinds, s \in Lineages : StartSave(p, k, kind, s)
  <2>1. /\ now' = now /\ index' = index /\ pc'[p].at \notin Stamped
        /\ \A q \in Pids \ {p} : pc'[q] = pc[q]
    BY <1>1 DEF StartSave, TypeOK, ProcTypes, Stamped
  <2> QED BY <2>1, SavedIdle, SavedFrame
<1>2. CASE Requests(p)
  <2>1. /\ now' = now /\ pc'[p].at \notin Stamped /\ \A q \in Pids \ {p} : pc'[q] = pc[q]
        /\ index' = index \/ Touch(p)
    BY <1>2, RequestMoves DEF Stamped
  <2>2. \A q \in Pids \ {p} : index'[q] = index[q]
    BY <2>1 DEF Touch, IndexTyped
  <2> QED BY <2>1, <2>2, SavedIdle, SavedFrame
<1>3. CASE Load(p)
  <2>1. now' = now /\ pc' = pc /\ pc[p].at \notin Stamped
    BY <1>3 DEF Load, TypeOK, ProcTypes, Idle, Stamped
  <2>2. \A q \in Pids \ {p} : index'[q] = index[q]
    BY <1>3 DEF Load, IndexTyped
  <2> QED BY <2>1, <2>2, SavedIdle, SavedFrame
<1>4. CASE Crash(p) \/ CrashRemoving(p)
  <2>1. now' = now /\ Dies(p)
    BY <1>4 DEF Crash, CrashRemoving
  <2>2. pc'[p].at \notin Stamped /\ \A q \in Pids \ {p} : pc'[q] = pc[q]
    BY <2>1, RestsFacts DEF Dies, TypeOK, Stamped
  <2>3. \A q \in Pids \ {p} : index'[q] = index[q]
    BY <2>1 DEF Dies, IndexTyped
  <2> QED BY <2>1, <2>2, <2>3, SavedIdle, SavedFrame
<1> QED BY <1>1, <1>2, <1>3, <1>4

LEMMA AgeStep ==
  ASSUME TypeOK, IndexInv, IndexTyped, AgeInv, [Next]_vars
  PROVE  AgeInv'
<1>1. DirsPast' /\ IndexPast' /\ StampsPast'
  BY DirsStep, IndexPastStep, StampsStep
<1>2. CASE Tick \/ UNCHANGED vars
  <2>1. pc' = pc /\ index' = index /\ now \in Nat /\ now' \in {now, now + 1}
    BY <1>2 DEF Tick, vars, TypeOK, DiskTypes
  <2>2. ASSUME NEW p \in Pids PROVE SavedBy(p)'
    <3>1. SavedBy(p)
      BY DEF AgeInv
    <3>2. pc[p].at \in Stamped => pc[p].used \in Nat
      BY PcFacts DEF TypeOK, Stamped, SaveAts
    <3> QED BY <2>1, <3>1, <3>2 DEF SavedBy, Stamped, Held
  <2> QED BY <1>1, <2>2 DEF AgeInv
<1>3. ASSUME NEW p \in Pids, Save(p) PROVE AgeInv'
  BY <1>1, <1>3, SavedSaves DEF AgeInv
<1>4. ASSUME NEW p \in Pids,
             (\E k \in Keys, kind \in Kinds, s \in Sessions \cup {Nobody} : StartSave(p, k, kind, s))
               \/ Requests(p)
               \/ Load(p) \/ Crash(p) \/ CrashRemoving(p)
      PROVE  AgeInv'
  BY <1>1, <1>4, SavedOthers DEF AgeInv, Lineages
<1>5. ASSUME NEW p \in Pids, Evict(p) PROVE AgeInv'
  BY <1>1, <1>5, SavedEvicts DEF AgeInv
<1> QED
  BY <1>2, <1>3, <1>4, <1>5 DEF Next, Requests

LEMMA AgeInit == Init => AgeInv
<1> SUFFICES ASSUME Init PROVE AgeInv
  OBVIOUS
<1>1. DirsPast
  BY DEF Init, DirsPast, Until, HasMeta, NoDir
<1>2. IndexPast
  BY EmptyAgrees DEF Init, IndexPast, NoEntry
<1>3. \A p \in Pids : SavedBy(p)
  BY DEF Init, SavedBy, Idle, Stamped
<1>4. StampsPast
  BY DEF Init, StampsPast, Idle
<1> QED BY <1>1, <1>2, <1>3, <1>4 DEF AgeInv

LEMMA NewestFromAge ==
  ASSUME TypeOK, AgeInv
  PROVE  NewestStays
BY DEF TypeOK, ProcTypes, AgeInv, SavedBy, NewestStays

(***************************************************************************)
(* The theorems                                                            *)
(***************************************************************************)
\* Only blobs that were read are gone on from.
LEMMA ResumesStep ==
  ASSUME TypeOK, IndexInv, ResumesSound, [Next]_vars
  PROVE  ResumesSound'
<1> SUFFICES ASSUME NEW p \in alive', pc'[p].at = "touch" PROVE ResumeOk(pc'[p].kind, pc'[p].long)
  BY DEF ResumesSound, ResumeOk
<1>1. p \in Pids /\ ProcTypes
  BY TypeStep DEF TypeOK, ProcTypes
<1>2. CASE pc'[p] = pc[p]
  BY <1>1, <1>2, PcFacts DEF ResumesSound
<1>3. CASE pc'[p] = Idle \/ pc'[p].at \in SaveAts
  BY <1>3 DEF Idle, SaveAts
<1>4. CASE \E k \in Keys, kind \in Kinds, s \in Lineages : StartSave(p, k, kind, s)
  BY <1>1, <1>4 DEF StartSave, ProcTypes
<1>5. CASE Requests(p)
  <2>1. ReadBlobs(p) /\ pc'[p].kind = pc[p].kind /\ pc'[p].long = pc[p].long
    BY <1>1, <1>5, RequestMoves
  <2> QED BY <2>1 DEF ReadBlobs
<1> QED BY <1>1, <1>2, <1>3, <1>4, <1>5, PcMoves

(* Directories, processes and possessions have their types, and the maps   *)
(* of every index agree, whatever fails and whoever restarts.              *)
THEOREM SnapshotTypes == Spec => [](TypeOK /\ IndexInv /\ IndexTyped)
<1>1. Init => TypeOK /\ IndexInv /\ IndexTyped
  BY TypeInit, IndexInit
<1>2. TypeOK /\ IndexInv /\ IndexTyped /\ [Next]_vars => (TypeOK /\ IndexInv /\ IndexTyped)'
  BY TypeStep, IndexNext, IndexMoves
<1> QED BY <1>1, <1>2, PTL DEF Spec

(* A committed snapshot that nobody evicted is on disk, or moved aside by  *)
(* a live process that will put it or its successor into place, with all   *)
(* its files, and its meta.json is that of its blobs unless servers        *)
(* overlap that save the key both as snapshot and as checkpoint (MayMix):  *)
(* for any number of servers and keys, touches, crashes and failed writes  *)
(* included, as long as no process dies between its two renames, a rename  *)
(* back works, and removals finish while servers overlap (save,            *)
(* commit_dir, touch, load_existing).                                      *)
THEOREM SnapshotsKept ==
  ASSUME \A w \in Worlds : Survivable(w)
  PROVE  Spec => []Durable
<1>1. Init => KeptInv /\ KindsInv /\ MatchInv
  BY KeptInit, MatchInit
<1>2. KeptInv => OneAtATime
  BY DEF KeptInv
<1>3. TypeOK /\ IndexInv /\ KeptInv /\ KindsInv /\ MatchInv /\ [Next]_vars =>
        (KeptInv /\ KindsInv /\ MatchInv)'
  BY <1>2, KeptStep, KindsStep, MatchStep
<1>4. TypeOK /\ KeptInv /\ KindsInv /\ MatchInv => Durable
  BY KeptDurable
<1> QED BY <1>1, <1>3, <1>4, SnapshotTypes, PTL DEF Spec

(* Whatever a live process has committed or loaded, and nobody evicted or  *)
(* took over, is in its index and so counts against the cap; and while one *)
(* server runs at a time whose removals succeed, so does every directory   *)
(* under a key, whatever else fails and whenever a process dies.           *)
THEOREM IndexKnows == Spec => []AccountedFor
<1>1. Init => OwnersKnow /\ CountInv
  BY DEF Init, OwnersKnow, CountInv, HasMeta, NoDir
<1>2. TypeOK /\ IndexInv /\ IndexTyped /\ OwnersKnow /\ CountInv /\ [Next]_vars => OwnersKnow' /\ CountInv'
  BY OwnersStep, CountStep
<1>3. OwnersKnow /\ CountInv => AccountedFor
  BY DEF OwnersKnow, CountInv, CountedBy, AccountedFor
<1> QED BY <1>1, <1>2, <1>3, SnapshotTypes, PTL DEF Spec

(* by_last_used, by_session and the byte total of an index describe its    *)
(* entries exactly, through every insert, touch, eviction and load.        *)
THEOREM IndexMapsAgree == Spec => []MapsAgree
<1>1. TypeOK /\ IndexInv => MapsAgree
  BY MapsFromIndex
<1> QED BY <1>1, SnapshotTypes, PTL

(* The evictions that follow an insert take the new snapshot only when all *)
(* that is left was used as late (evict_lineage_overflow, evict_to_fit).   *)
THEOREM NewestEvictedLast == Spec => []NewestStays
<1>1. Init => AgeInv
  BY AgeInit
<1>2. TypeOK /\ IndexInv /\ IndexTyped /\ AgeInv /\ [Next]_vars => AgeInv'
  BY AgeStep
<1>3. TypeOK /\ AgeInv => NewestStays
  BY NewestFromAge
<1> QED BY <1>1, <1>2, <1>3, SnapshotTypes, PTL DEF Spec

(* A request goes on from a checkpoint's empty decoder rings only if it    *)
(* replays enough to fill them (start_prefill), whoever rewrote the        *)
(* snapshot since its meta.json was read.                                  *)
THEOREM ResumeIsSound == Spec => []ResumesSound
<1>1. Init => ResumesSound
  BY DEF Init, ResumesSound
<1>2. TypeOK /\ IndexInv /\ ResumesSound /\ [Next]_vars => ResumesSound'
  BY ResumesStep
<1> QED BY <1>1, <1>2, SnapshotTypes, PTL DEF Spec
=============================================================================
