----------------------------- MODULE ArenaProofs -----------------------------
(***************************************************************************)
(* Proofs about KvArena, for every number of slots and stores, every store *)
(* size, loan and set of failing copies.                                   *)
(*                                                                         *)
(* First the geometry: the types, the disjointness of the regions and the  *)
(* exactness of the free lists are invariants.  Then what the arena's rows *)
(* hold and what its moves achieve: no grow, compaction or loan loses a    *)
(* row, rows count whole groups, a grow finds the run it needs and ends    *)
(* with the room it was asked for, and a compaction keeps every free row.  *)
(* The scheduler's use of the arena implements the arena, so all of this   *)
(* holds there too, and more: every slot has an owner and a stream decodes *)
(* on rows of its own.                                                     *)
(***************************************************************************)
EXTENDS KvArena, ArenaCalls, FiniteSetTheorems, TLAPS

(***************************************************************************)
(* Arithmetic                                                              *)
(***************************************************************************)
\* A context of at least one position needs at least one row, and a number of
\* rows that is a natural.
LEMMA NeedPositive ==
  ASSUME NEW ctx \in Nat, NEW si \in Stores
  PROVE  Need(ctx, si) \in Nat /\ Need(ctx, si) >= 1
<1>1. CASE ctx = 0
  BY <1>1 DEF Need
<1>2. CASE ctx # 0 /\ Ratio[si] = 1
  BY <1>2 DEF Need, CeilDiv
<1>3. CASE ctx # 0 /\ Ratio[si] = 2
  BY <1>3 DEF Need, CeilDiv
<1> QED
  BY <1>1, <1>2, <1>3, ArenaAssumption

\* Whole groups: after p positions a store holds a natural number of rows that
\* grows with p and is at most p.
LEMMA RowsAtNat ==
  ASSUME NEW p \in Nat, NEW q \in Nat, p <= q, NEW si \in Stores
  PROVE  /\ RowsAt(p, si) \in Nat /\ RowsAt(q, si) \in Nat
         /\ RowsAt(p, si) <= RowsAt(q, si)
<1>1. CASE Ratio[si] = 1
  BY <1>1 DEF RowsAt
<1>2. CASE Ratio[si] = 2
  BY <1>2 DEF RowsAt
<1> QED
  BY <1>1, <1>2, ArenaAssumption

\* Two nonempty intervals that share no row lie one after the other.
LEMMA IntervalsApart ==
  ASSUME NEW a \in Int, NEW b \in Int, NEW c \in Int, NEW d \in Int,
         a < b, c < d, (a .. (b - 1)) \cap (c .. (d - 1)) = {}
  PROVE  b <= c \/ d <= a
<1>1. SUFFICES ASSUME c < b, a < d PROVE FALSE
  OBVIOUS
<1>2. CASE a <= c
  <2>1. c \in a .. (b - 1) /\ c \in c .. (d - 1)
    BY <1>1, <1>2
  <2> QED
    BY <2>1
<1>3. CASE c < a
  <2>1. a \in a .. (b - 1) /\ a \in c .. (d - 1)
    BY <1>1, <1>3
  <2> QED
    BY <2>1
<1> QED
  BY <1>2, <1>3

(***************************************************************************)
(* What the operators on a store's contents return                         *)
(***************************************************************************)
Contents(si) == [Rows(si) -> Tags]

LEMMA JunkIsTag == Junk \in Tags /\ Junk[1] \notin Slots
BY ArenaAssumption DEF Junk, Tags, Slots

\* Writing a stream's rows keeps a store a store.
LEMMA WriteRowsType ==
  ASSUME NEW si \in Stores, NEW d \in Contents(si), NEW s \in Slots,
         NEW lo \in Nat, NEW hi \in Int, NEW i \in Nat
  PROVE  WriteRows(d, s, lo, hi, i) \in Contents(si)
<1> SUFFICES ASSUME NEW r \in Rows(si)
             PROVE  (IF r \in lo .. (hi - 1) THEN <<s, i + r - lo>> ELSE d[r]) \in Tags
  BY DEF WriteRows, Contents
<1>1. CASE r \in lo .. (hi - 1)
  <2>1. i + r - lo \in Nat
    BY <1>1, ArenaAssumption DEF Rows
  <2> QED
    BY <1>1, <2>1 DEF Tags
<1> QED
  BY <1>1 DEF Contents

LEMMA JunkRowsType ==
  ASSUME NEW si \in Stores, NEW d \in Contents(si), NEW R
  PROVE  JunkRows(d, R) \in Contents(si)
BY JunkIsTag DEF JunkRows, Contents

LEMMA ForgetType ==
  ASSUME NEW R, NEW d \in [R -> Tags], NEW S
  PROVE  Forget(d, S) \in [R -> Tags]
BY JunkIsTag DEF Forget

\* Moving rows that lie inside the store reads no row outside it.
LEMMA MoveRowsType ==
  ASSUME NEW si \in Stores, NEW d \in Contents(si), NEW from \in Nat, NEW to \in Nat,
         NEW n \in Nat, from + n <= RowsCap[si]
  PROVE  MoveRows(d, from, to, n) \in Contents(si)
<1> SUFFICES ASSUME NEW r \in Rows(si)
             PROVE  (IF r \in to .. (to + n - 1) THEN d[r - to + from]
                     ELSE IF r \in from .. (from + n - 1) THEN Junk ELSE d[r]) \in Tags
  BY DEF MoveRows, Contents
<1>1. CASE r \in to .. (to + n - 1)
  <2>1. r - to + from \in Rows(si)
    BY <1>1, ArenaAssumption DEF Rows
  <2> QED
    BY <1>1, <2>1 DEF Contents
<1> QED
  BY <1>1, JunkIsTag DEF Contents

LEMMA PartMoveType ==
  ASSUME NEW si \in Stores, NEW d \in Contents(si), NEW from \in Nat, NEW to \in Nat,
         NEW n \in Nat, NEW k \in 0 .. n, from + n <= RowsCap[si]
  PROVE  PartMove(d, from, to, n, k) \in Contents(si)
<1> SUFFICES ASSUME NEW r \in Rows(si)
             PROVE  (IF r \in Copied(from, to, n, k) THEN d[r - to + from] ELSE d[r]) \in Tags
  BY DEF PartMove, Contents
<1>1. CASE r \in Copied(from, to, n, k)
  <2>1. r \in to .. (to + n - 1)
    BY <1>1 DEF Copied
  <2>2. r - to + from \in Rows(si)
    BY <2>1, ArenaAssumption DEF Rows
  <2> QED
    BY <1>1, <2>2 DEF Contents
<1> QED
  BY <1>1 DEF Contents

\* Writing saved rows back keeps every store a store.
LEMMA RestoredType ==
  ASSUME TypeOK, NEW recs \in SUBSET swapped, NEW si \in Stores
  PROVE  Restored(data, recs)[si] \in Contents(si)
<1> DEFINE hit(r) == {rec \in recs : rec.si = si /\ r \in rec.lo .. (rec.lo + rec.n - 1)}
<1>1. data[si] \in Contents(si)
  BY DEF TypeOK, Contents
<1> SUFFICES ASSUME NEW r \in Rows(si)
             PROVE  (IF \E rec \in recs : rec.si = si /\ r \in rec.lo .. (rec.lo + rec.n - 1)
                     THEN (CHOOSE rec \in recs : rec.si = si /\ r \in rec.lo .. (rec.lo + rec.n - 1)).img[r]
                     ELSE data[si][r]) \in Tags
  BY <1>1 DEF Restored, Contents
<1>2. r \in AllRows
  BY DEF AllRows
<1>3. CASE \E rec \in recs : rec.si = si /\ r \in rec.lo .. (rec.lo + rec.n - 1)
  <2> DEFINE c == CHOOSE rec \in recs : rec.si = si /\ r \in rec.lo .. (rec.lo + rec.n - 1)
  <2>1. c \in recs
    BY <1>3
  <2>2. c.img \in [AllRows -> Tags]
    BY <2>1 DEF TypeOK, SwapRec
  <2> QED
    BY <1>3, <2>2, <1>2
<1> QED
  BY <1>1, <1>3 DEF Contents

(***************************************************************************)
(* The inductive invariant, action by action                               *)
(***************************************************************************)
Geometry == RegionsDisjoint /\ CapsPositive /\ FreeInv /\ TaskInv /\ MoveInv

LEMMA RegionFields ==
  ASSUME TypeOK, NEW s \in Slots, NEW si \in Stores
  PROVE  /\ reg[s][si] \in [base : Nat, cap : Nat, n : Nat]
         /\ reg[s][si].base \in Nat /\ reg[s][si].cap \in Nat /\ reg[s][si].n \in Nat
         /\ End(s, si) \in Nat /\ LiveEnd(s, si) \in Nat
         /\ End(s, si) = reg[s][si].base + reg[s][si].cap
BY DEF TypeOK, End, LiveEnd

LEMMA InitInv == Init => ArenaInv
<1> SUFFICES ASSUME Init PROVE ArenaInv
  OBVIOUS
<1>1. TypeOK
  <2>1. task \in TaskType
    BY ArenaAssumption DEF Init, Idle, Job, TaskType, Slots
  <2> QED
    BY <2>1, JunkIsTag DEF Init, TypeOK, Region, Rows
<1>2. FreeInv
  BY DEF Init, FreeInv, FreeRuns
<1>3. ~ Moving /\ TaskInv
  BY DEF Init, Idle, Job, Moving, TaskInv
<1> QED
  BY <1>1, <1>2, <1>3 DEF Init, ArenaInv, RegionsDisjoint, CapsPositive, MoveInv

\* A step between calls that moves no region and frees no row keeps the
\* geometry, as long as no region writes past its end.
LEMMA QuietFrame ==
  ASSUME ArenaInv, ~ Moving, ~ Moving', TaskInv', UNCHANGED <<live, free>>,
         \A s \in live, si \in Stores :
            /\ reg'[s][si].base = reg[s][si].base /\ reg'[s][si].cap = reg[s][si].cap
            /\ reg'[s][si].n <= reg[s][si].cap
  PROVE  Geometry'
<1>1. \A s \in live, si \in Stores : End(s, si)' = End(s, si) /\ Owned(s, si)' = Owned(s, si)
  BY DEF End, Owned
<1>2. RegionsDisjoint' /\ CapsPositive'
  BY <1>1 DEF ArenaInv, RegionsDisjoint, CapsPositive
<1>3. \A si \in Stores : FreeRuns(si)' = FreeRuns(si)
  BY <1>1 DEF FreeRuns
<1>4. FreeInv'
  BY <1>3 DEF ArenaInv, FreeInv
<1>5. MoveInv'
  BY DEF MoveInv
<1> QED
  BY <1>2, <1>4, <1>5 DEF Geometry

\* ... and the steps that change neither region nor free list at all.
LEMMA NoRegionChange ==
  ASSUME ArenaInv, ~ Moving, ~ Moving', TaskInv', UNCHANGED <<live, free, reg>>
  PROVE  Geometry'
<1>1. \A s \in live, si \in Stores : reg[s][si].n <= reg[s][si].cap
  BY DEF ArenaInv, RegionsDisjoint
<1> QED
  BY <1>1, QuietFrame

LEMMA QuietIsNotMoving ==
  /\ Quiet => ~ Moving /\ TaskInv
  /\ task.op \in {"idle", "grow", "lend"} => ~ Moving
BY DEF Quiet, Moving, TaskInv

LEMMA FillInv ==
  ASSUME ArenaInv, NEW s \in Slots, NEW p \in 1 .. MaxCtx, Fill(s, p)
  PROVE  ArenaInv'
<1> USE DEF ArenaInv
<1>1. \A si \in Stores : RowsAt(p, si) \in Nat /\ RowsAt(p, si) <= reg[s][si].cap
  <2> SUFFICES ASSUME NEW si \in Stores
               PROVE  RowsAt(p, si) \in Nat /\ RowsAt(p, si) <= reg[s][si].cap
    OBVIOUS
  <2>1. reg[s][si].cap * Ratio[si] >= p + 1
    BY DEF Fill, HoldsPositions, ReservedPositions
  <2>2. reg[s][si].cap \in Nat
    BY RegionFields
  <2>3. CASE Ratio[si] = 1
    BY <2>1, <2>2, <2>3, ArenaAssumption DEF RowsAt
  <2>4. CASE Ratio[si] = 2
    BY <2>1, <2>2, <2>4, ArenaAssumption DEF RowsAt
  <2> QED
    BY <2>3, <2>4, ArenaAssumption
<1>2. TypeOK'
  <2>1. \A si \in Stores : data'[si] \in [Rows(si) -> Tags]
    <3> SUFFICES ASSUME NEW si \in Stores PROVE data'[si] \in Contents(si)
      BY DEF Contents
    <3>1. data[si] \in Contents(si)
      BY DEF TypeOK, Contents
    <3>2. reg[s][si].base \in Nat
      BY RegionFields
    <3> QED
      BY <3>1, <3>2, <1>1, WriteRowsType DEF Fill
  <2>2. reg' \in [Slots -> [Stores -> [base : Nat, cap : Nat, n : Nat]]]
    <3>1. [si \in Stores |-> WithRows(s, si, RowsAt(p, si))] \in [Stores -> [base : Nat, cap : Nat, n : Nat]]
      BY RegionFields, <1>1 DEF WithRows, Region
    <3> QED
      BY <3>1 DEF Fill, TypeOK
  <2>3. pos' \in [Slots -> Nat]
    BY DEF Fill, TypeOK
  <2> QED
    BY <2>1, <2>2, <2>3 DEF Fill, TypeOK
<1>3. Geometry'
  <2>1. \A t \in live, si \in Stores :
          /\ reg'[t][si].base = reg[t][si].base /\ reg'[t][si].cap = reg[t][si].cap
          /\ reg'[t][si].n <= reg[t][si].cap
    <3> SUFFICES ASSUME NEW t \in live, NEW si \in Stores
                 PROVE  /\ reg'[t][si].base = reg[t][si].base /\ reg'[t][si].cap = reg[t][si].cap
                        /\ reg'[t][si].n <= reg[t][si].cap
      OBVIOUS
    <3>1. t \in Slots
      BY DEF TypeOK
    <3>2. reg'[t][si] = IF t = s THEN WithRows(s, si, RowsAt(p, si)) ELSE reg[t][si]
      BY <3>1 DEF Fill, TypeOK
    <3> QED
      BY <3>1, <3>2, <1>1, RegionFields DEF RegionsDisjoint, WithRows, Region
  <2> QED
    BY <2>1, QuietFrame, QuietIsNotMoving DEF Fill, Quiet, Moving, TaskInv
<1> QED
  BY <1>2, <1>3 DEF Geometry

LEMMA FillFailsInv ==
  ASSUME ArenaInv, NEW s \in Slots, NEW p \in 1 .. MaxCtx, NEW k \in Stores, FillFails(s, p, k)
  PROVE  ArenaInv'
<1> USE DEF ArenaInv
<1>1. \A si \in Stores : data'[si] \in [Rows(si) -> Tags]
  <2> SUFFICES ASSUME NEW si \in Stores PROVE data'[si] \in Contents(si)
    BY DEF Contents
  <2>1. data[si] \in Contents(si) /\ reg[s][si].base \in Nat
    BY RegionFields DEF TypeOK, Contents
  <2>2. p \in Nat /\ p <= p
    BY ArenaAssumption
  <2>3. RowsAt(p, si) \in Nat
    BY <2>2, RowsAtNat
  <2> QED
    BY <2>1, <2>3, WriteRowsType DEF FillFails
<1>2. TypeOK'
  BY <1>1 DEF FillFails, TypeOK
<1>3. Geometry'
  BY NoRegionChange, QuietIsNotMoving DEF FillFails, Quiet, Moving, TaskInv
<1> QED
  BY <1>2, <1>3 DEF Geometry

LEMMA KeptRowsNat ==
  ASSUME NEW p \in Nat, NEW k \in Nat, NEW keep \in 0 .. k, NEW si \in Stores
  PROVE  /\ KeptRows(p, k, keep, si) \in Nat
         /\ KeptRows(p, k, keep, si) <= KeptRows(p, k, k, si)
<1>1. RowsAt(p, si) \in Nat /\ RowsAt(p + keep, si) \in Nat /\ RowsAt(p + k, si) \in Nat
  BY RowsAtNat
<1>2. RowsAt(p, si) <= RowsAt(p + keep, si) /\ RowsAt(p + keep, si) <= RowsAt(p + k, si)
  BY RowsAtNat
<1> QED
  BY <1>1, <1>2 DEF KeptRows

LEMMA DecodeStepInv ==
  ASSUME ArenaInv, NEW s \in Slots, NEW k \in 1 .. 2, NEW keep \in 1 .. k, DecodeStep(s, k, keep)
  PROVE  ArenaInv'
<1> USE DEF ArenaInv
<1> DEFINE kept(si) == KeptRows(pos[s], k, keep, si)
<1>1. \A si \in Stores : kept(si) \in Nat /\ reg[s][si].n + kept(si) <= reg[s][si].cap
  <2> SUFFICES ASSUME NEW si \in Stores
               PROVE  kept(si) \in Nat /\ reg[s][si].n + kept(si) <= reg[s][si].cap
    OBVIOUS
  <2>1. pos[s] \in Nat
    BY DEF TypeOK
  <2>2. /\ kept(si) \in Nat /\ KeptRows(pos[s], k, k, si) \in Nat
        /\ kept(si) <= KeptRows(pos[s], k, k, si)
    <3>1. k \in Nat /\ keep \in 0 .. k /\ k \in 0 .. k
      OBVIOUS
    <3>2. kept(si) \in Nat /\ kept(si) <= KeptRows(pos[s], k, k, si)
      BY <2>1, <3>1, KeptRowsNat
    <3>3. KeptRows(pos[s], k, k, si) \in Nat
      BY <2>1, <3>1, KeptRowsNat
    <3> QED
      BY <3>2, <3>3
  <2>3. reg[s][si].n + KeptRows(pos[s], k, k, si) <= reg[s][si].cap
    BY DEF DecodeStep
  <2> HIDE DEF kept
  <2> QED
    BY <2>2, <2>3, RegionFields
<1>2. TypeOK'
  <2>1. \A si \in Stores : data'[si] \in [Rows(si) -> Tags]
    <3> SUFFICES ASSUME NEW si \in Stores PROVE data'[si] \in Contents(si)
      BY DEF Contents
    <3> DEFINE lo == LiveEnd(s, si)
               mid == lo + kept(si)
               hi == lo + KeptRows(pos[s], k, k, si)
    <3>1. data[si] \in Contents(si) /\ lo \in Nat /\ mid \in Int /\ reg[s][si].n \in Nat
      BY <1>1, RegionFields DEF TypeOK, Contents
    <3>2. data'[si] = JunkRows(WriteRows(data[si], s, lo, mid, reg[s][si].n), mid .. (hi - 1))
      BY DEF DecodeStep
    <3> HIDE DEF lo, mid, hi
    <3>3. WriteRows(data[si], s, lo, mid, reg[s][si].n) \in Contents(si)
      BY <3>1, WriteRowsType
    <3> QED
      BY <3>2, <3>3, JunkRowsType
  <2>2. reg' \in [Slots -> [Stores -> [base : Nat, cap : Nat, n : Nat]]]
    <3>1. [si \in Stores |-> WithRows(s, si, reg[s][si].n + kept(si))]
             \in [Stores -> [base : Nat, cap : Nat, n : Nat]]
      BY RegionFields, <1>1 DEF WithRows, Region
    <3> QED
      BY <3>1 DEF DecodeStep, TypeOK
  <2>3. pos' \in [Slots -> Nat]
    BY DEF DecodeStep, TypeOK
  <2> QED
    BY <2>1, <2>2, <2>3 DEF DecodeStep, TypeOK
<1>3. Geometry'
  <2>1. \A t \in live, si \in Stores :
          /\ reg'[t][si].base = reg[t][si].base /\ reg'[t][si].cap = reg[t][si].cap
          /\ reg'[t][si].n <= reg[t][si].cap
    <3> SUFFICES ASSUME NEW t \in live, NEW si \in Stores
                 PROVE  /\ reg'[t][si].base = reg[t][si].base /\ reg'[t][si].cap = reg[t][si].cap
                        /\ reg'[t][si].n <= reg[t][si].cap
      OBVIOUS
    <3>1. t \in Slots
      BY DEF TypeOK
    <3>2. reg'[t][si] = IF t = s THEN WithRows(s, si, reg[s][si].n + kept(si)) ELSE reg[t][si]
      BY <3>1 DEF DecodeStep, TypeOK
    <3> HIDE DEF kept
    <3> QED
      BY <3>1, <3>2, <1>1, RegionFields DEF RegionsDisjoint, WithRows, Region
  <2> QED
    BY <2>1, QuietFrame, QuietIsNotMoving DEF DecodeStep, Quiet, Moving, TaskInv
<1> QED
  BY <1>2, <1>3 DEF Geometry

\* Steps that change neither regions nor free lists nor what is being moved.
LEMMA GrowBookkeepingInv ==
  ASSUME ArenaInv,
         (\E s \in Slots, ctx \in 1 .. MaxCtx : GrowStart(s, ctx)) \/ GrowKeep \/ GrowDone
  PROVE  ArenaInv'
<1> USE DEF ArenaInv
<1>1. task \in TaskType
  BY DEF TypeOK
<1>2. task' \in TaskType /\ ~ Moving /\ ~ Moving' /\ TaskInv'
  <2>1. CASE \E s \in Slots, ctx \in 1 .. MaxCtx : GrowStart(s, ctx)
    <3>1. PICK s \in Slots, ctx \in 1 .. MaxCtx : GrowStart(s, ctx)
      BY <2>1
    <3>2. task' = Job("grow", 1, s, ctx) /\ Quiet /\ s \in live /\ live' = live
      BY <3>1 DEF GrowStart
    <3> QED
      BY <3>2, ArenaAssumption DEF Job, TaskType, Moving, TaskInv, Quiet, Slots
  <2>2. CASE GrowKeep
    BY <1>1, <2>2 DEF GrowKeep, Growing, NextStore, Job, TaskType, Moving, TaskInv
  <2>3. CASE GrowDone
    BY <1>1, <2>3, ArenaAssumption DEF GrowDone, Idle, Job, TaskType, Moving, TaskInv, Slots
  <2> QED
    BY <2>1, <2>2, <2>3
<1>3. UNCHANGED <<live, pos, reg, free, data, lent, swapped, hurt>>
  BY DEF GrowStart, GrowKeep, GrowDone
<1>4. TypeOK'
  BY <1>2, <1>3 DEF TypeOK
<1> QED
  BY <1>2, <1>3, <1>4, NoRegionChange DEF Geometry

\* The loan touches contents and host copies only.
LEMMA PrefillPassInv ==
  ASSUME ArenaInv, PrefillPass
  PROVE  ArenaInv'
<1> USE DEF ArenaInv
<1>1. \A si \in Stores : data'[si] \in [Rows(si) -> Tags]
  <2> SUFFICES ASSUME NEW si \in Stores PROVE data'[si] \in Contents(si)
    BY DEF Contents
  <2> QED
    BY JunkRowsType DEF PrefillPass, TypeOK, Contents
<1>2. TypeOK'
  BY <1>1 DEF PrefillPass, TypeOK
<1> QED
  BY <1>2, NoRegionChange, QuietIsNotMoving DEF PrefillPass, Quiet, Moving, TaskInv, Geometry

LEMMA SavedType ==
  ASSUME TypeOK, RegionsDisjoint, NEW si \in Stores, NEW s \in LiveTails(si)
  PROVE  Saved(s, si) \in SwapRec
<1> DEFINE a == SavedFrom(s, si)
           k == LiveEnd(s, si) - a
<1>1. s \in live /\ s \in Slots /\ LiveEnd(s, si) > LentLo(si)
  BY DEF LiveTails, TypeOK
<1>2. reg[s][si].base \in Nat /\ reg[s][si].n \in Nat /\ LiveEnd(s, si) = reg[s][si].base + reg[s][si].n
  BY <1>1, RegionFields DEF LiveEnd
<1>3. RowsCap[si] \in Nat /\ LentRows[si] \in Nat /\ LentLo(si) \in Nat
  BY ArenaAssumption DEF LentLo
<1>4. a \in Nat /\ k \in Nat
  BY <1>1, <1>2, <1>3 DEF SavedFrom
<1>5. LiveEnd(s, si) <= RowsCap[si]
  <2>1. End(s, si) <= RowsCap[si] /\ reg[s][si].n <= reg[s][si].cap
    BY <1>1 DEF RegionsDisjoint
  <2> QED
    BY <1>1, <1>2, <1>3, <2>1, RegionFields
<1>6. \A r \in a .. (a + k - 1) : data[si][r] \in Tags
  <2> SUFFICES ASSUME NEW r \in a .. (a + k - 1) PROVE r \in Rows(si)
    BY DEF TypeOK
  <2>1. r >= 0 /\ r <= LiveEnd(s, si) - 1
    BY <1>2, <1>4
  <2> QED
    BY <2>1, <1>2, <1>3, <1>4, <1>5 DEF Rows
<1>7. [r \in AllRows |-> IF r \in a .. (a + k - 1) THEN data[si][r] ELSE Junk] \in [AllRows -> Tags]
  BY <1>6, JunkIsTag
<1> HIDE DEF a, k
<1> QED
  BY <1>1, <1>2, <1>4, <1>7 DEF Saved, SwapRec, a, k

LEMMA LendSaveInv ==
  ASSUME ArenaInv, LendSave
  PROVE  ArenaInv'
<1> USE DEF ArenaInv
<1>1. TypeOK'
  <2>1. Idle \in TaskType
    BY ArenaAssumption DEF Idle, Job, TaskType, Slots
  <2>2. swapped' \subseteq SwapRec
    BY SavedType DEF LendSave
  <2> QED
    BY <2>1, <2>2 DEF LendSave, TypeOK
<1>2. ~ Moving /\ ~ Moving' /\ TaskInv'
  BY DEF LendSave, Idle, Job, Moving, TaskInv
<1> QED
  BY <1>1, <1>2, NoRegionChange DEF LendSave, Geometry

LEMMA EndLendInv ==
  ASSUME ArenaInv, EndLend \/ \E rec \in swapped : EndLendFails(rec)
  PROVE  ArenaInv'
<1> USE DEF ArenaInv
<1>1. PICK recs \in SUBSET swapped :
        data' = Restored(data, recs) /\ swapped' \subseteq swapped
        /\ hurt' \subseteq Slots /\ lent' \in BOOLEAN
  <2>1. CASE EndLend
    <3>1. {rec \in swapped : Restorable(rec)} \in SUBSET swapped
      OBVIOUS
    <3> QED
      BY <2>1, <3>1 DEF EndLend, TypeOK
  <2>2. CASE \E rec \in swapped : EndLendFails(rec)
    <3>1. PICK rec \in swapped : EndLendFails(rec)
      BY <2>2
    <3>2. {d \in RestoredBefore(rec) : Restorable(d)} \in SUBSET swapped
      BY DEF RestoredBefore
    <3>3. hurt' \subseteq Slots
      <4>1. \A d \in RestoredBefore(rec) : d.slot \in Slots
        BY DEF RestoredBefore, TypeOK, SwapRec
      <4> QED
        BY <3>1, <4>1 DEF EndLendFails, TypeOK
    <3> QED
      BY <3>1, <3>2, <3>3 DEF EndLendFails, TypeOK
  <2> QED
    BY <2>1, <2>2
<1>2. UNCHANGED <<live, pos, reg, free, task>> /\ Quiet
  BY DEF EndLend, EndLendFails
<1>3. \A si \in Stores : data'[si] \in [Rows(si) -> Tags]
  BY <1>1, RestoredType DEF Contents
<1>4. data' = [si \in Stores |-> data'[si]]
  BY <1>1 DEF Restored
<1>5. TypeOK'
  BY <1>1, <1>2, <1>3, <1>4 DEF TypeOK
<1> QED
  BY <1>2, <1>5, NoRegionChange, QuietIsNotMoving DEF Quiet, Moving, TaskInv, Geometry

\* A compaction of store si begins with every live region still to place.
LEMMA CompactFromInv ==
  ASSUME ArenaInv, NEW si \in Nat \ {0}, NEW l \in BOOLEAN, task' = CompactFrom(si, l),
         UNCHANGED <<live, reg>>, \A sj \in Stores : sj # si => free'[sj] = FreeRuns(sj)
  PROVE  Geometry' /\ task' \in TaskType
<1> USE DEF ArenaInv
<1>1. \A s \in live, sj \in Stores : End(s, sj)' = End(s, sj) /\ Owned(s, sj)' = Owned(s, sj)
  BY DEF End, Owned
<1>2. \A sj \in Stores : FreeRuns(sj)' = FreeRuns(sj)
  BY <1>1 DEF FreeRuns
<1>3. RegionsDisjoint' /\ CapsPositive'
  BY <1>1 DEF RegionsDisjoint, CapsPositive
<1>4. task' \in TaskType
  BY ArenaAssumption DEF CompactFrom, TaskType, TypeOK, Slots
<1>5. TaskInv'
  BY DEF TaskInv, CompactFrom
<1>6. FreeInv'
  BY <1>2 DEF FreeInv, Moving, CompactFrom
<1>7. MoveInv'
  <2> SUFFICES ASSUME Moving' PROVE MoveInv'
    BY DEF MoveInv
  <2>1. si \in Stores /\ task'.si = si /\ task'.next = 0 /\ task'.top = RowsCap[si]
        /\ task'.low = live /\ task'.high = {}
    BY DEF Moving, CompactFrom
  <2>2. \A s \in live : 0 <= reg[s][si].base /\ End(s, si) <= RowsCap[si]
    BY <2>1, RegionFields DEF RegionsDisjoint, TypeOK
  <2>3. PackedRun' = Rows(si)
    BY <2>1 DEF PackedRun, Rows
  <2> QED
    BY <1>1, <2>1, <2>2, <2>3, ArenaAssumption DEF MoveInv
<1> QED
  BY <1>3, <1>4, <1>5, <1>6, <1>7 DEF Geometry

LEMMA StartInv ==
  ASSUME ArenaInv, CompactStart \/ LendStart
  PROVE  ArenaInv'
<1> USE DEF ArenaInv
<1>1. UNCHANGED <<live, pos, reg, free, data, lent, swapped, hurt>> /\ ~ Moving
  BY QuietIsNotMoving DEF CompactStart, LendStart
<1>2. \A si \in Stores : free'[si] = FreeRuns(si)
  BY <1>1 DEF FreeInv
<1>3. CASE \E l \in BOOLEAN : task' = CompactFrom(1, l)
  <2>1. PICK l \in BOOLEAN : task' = CompactFrom(1, l)
    BY <1>3
  <2>2. 1 \in Nat \ {0} /\ \A sj \in Stores : sj # 1 => free'[sj] = FreeRuns(sj)
    BY <1>2
  <2>3. Geometry' /\ task' \in TaskType
    BY <1>1, <2>1, <2>2, CompactFromInv
  <2> QED
    BY <1>1, <2>3 DEF Geometry, TypeOK
<1>4. CASE task' = Job("lend", 1, 1, 0)
  <2>1. task' \in TaskType /\ ~ Moving' /\ TaskInv'
    BY <1>4, ArenaAssumption DEF Job, TaskType, Moving, TaskInv, Slots
  <2> QED
    BY <1>1, <2>1, NoRegionChange DEF Geometry, TypeOK
<1> QED
  BY <1>3, <1>4 DEF CompactStart, LendStart

LEMMA CompactDoneInv ==
  ASSUME ArenaInv, CompactDone
  PROVE  ArenaInv'
<1> USE DEF ArenaInv
<1>1. UNCHANGED <<live, pos, reg, free, data, lent, swapped, hurt>> /\ ~ Moving
  BY DEF CompactDone, Moving
<1>2. task' \in TaskType /\ ~ Moving' /\ TaskInv'
  BY ArenaAssumption DEF CompactDone, Idle, Job, TaskType, Moving, TaskInv, Slots
<1> QED
  BY <1>1, <1>2, NoRegionChange DEF Geometry, TypeOK

\* Rows that a region does not own lie before or after it.
LEMMA ApartFromRegion ==
  ASSUME TypeOK, CapsPositive, NEW t \in live, NEW si \in Stores, NEW b \in Nat, NEW k \in Nat,
         k >= 1, (b .. (b + k - 1)) \cap Owned(t, si) = {}
  PROVE  b + k <= reg[t][si].base \/ End(t, si) <= b
<1> DEFINE c == reg[t][si].base
           d == End(t, si)
<1>1. t \in Slots
  BY DEF TypeOK
<1>2. c \in Nat /\ d \in Nat /\ c < d
  BY <1>1, RegionFields DEF CapsPositive
<1>3. (b .. (b + k - 1)) \cap (c .. (d - 1)) = {}
  BY DEF Owned
<1> HIDE DEF c, d
<1>4. b + k <= c \/ d <= b
  <2>1. b \in Int /\ b + k \in Int /\ c \in Int /\ d \in Int /\ b < b + k
    BY <1>2
  <2> QED
    BY <1>2, <1>3, <2>1, IntervalsApart
<1> QED
  BY <1>4 DEF c, d

\* Free rows of a store lie inside it and in no region.
LEMMA WindowFree ==
  ASSUME TypeOK, NEW si \in Stores, NEW b \in Nat, NEW k \in Nat,
         k >= 1, Window(FreeRuns(si), b, k)
  PROVE  b + k <= RowsCap[si] /\ \A t \in live : (b .. (b + k - 1)) \cap Owned(t, si) = {}
<1>1. b .. (b + k - 1) \subseteq FreeRuns(si)
  BY DEF Window
<1>2. b + k - 1 \in Rows(si)
  BY <1>1 DEF FreeRuns
<1>3. b + k <= RowsCap[si]
  BY <1>2, ArenaAssumption DEF Rows
<1> QED
  BY <1>1, <1>3 DEF FreeRuns

LEMMA ReserveInv ==
  ASSUME ArenaInv, NEW ctx \in 1 .. MaxCtx, Reserve(ctx)
  PROVE  ArenaInv'
<1> USE DEF ArenaInv
<1>1. PICK s \in Slots \ live, b \in [Stores -> AllRows] :
        /\ \A si \in Stores : FirstFit(free[si], b[si], Need(ctx, si))
        /\ live' = live \cup {s}
        /\ pos' = [pos EXCEPT ![s] = 0]
        /\ reg' = [reg EXCEPT ![s] = [si \in Stores |-> Region(b[si], Need(ctx, si), 0)]]
        /\ free' = [si \in Stores |-> free[si] \ (b[si] .. (b[si] + Need(ctx, si) - 1))]
  BY DEF Reserve
<1>2. UNCHANGED <<data, lent, swapped, task, hurt>> /\ Quiet
  BY DEF Reserve
<1>3. ~ Moving /\ ~ Moving' /\ TaskInv'
  BY <1>2 DEF Quiet, Moving, TaskInv
<1>4. \A si \in Stores : Need(ctx, si) \in Nat /\ Need(ctx, si) >= 1 /\ b[si] \in Nat
  <2>1. ctx \in Nat
    BY ArenaAssumption
  <2>2. AllRows \subseteq Nat
    BY ArenaAssumption DEF AllRows, Rows
  <2> QED
    BY <2>1, <2>2, NeedPositive
<1>5. \A si \in Stores :
        reg'[s][si].base = b[si] /\ reg'[s][si].cap = Need(ctx, si) /\ reg'[s][si].n = 0
  <2> SUFFICES ASSUME NEW si \in Stores
               PROVE  reg'[s][si].base = b[si] /\ reg'[s][si].cap = Need(ctx, si) /\ reg'[s][si].n = 0
    OBVIOUS
  <2>1. reg'[s][si] = Region(b[si], Need(ctx, si), 0)
    BY <1>1 DEF TypeOK
  <2> QED
    BY <2>1 DEF Region
<1>6. \A t \in live, si \in Stores : reg'[t][si] = reg[t][si]
  BY <1>1 DEF TypeOK
<1>7. \A si \in Stores : free[si] = FreeRuns(si)
  BY <1>3 DEF FreeInv
<1>8. \A si \in Stores :
        /\ b[si] + Need(ctx, si) <= RowsCap[si]
        /\ \A t \in live : (b[si] .. (b[si] + Need(ctx, si) - 1)) \cap Owned(t, si) = {}
  BY <1>1, <1>4, <1>7, WindowFree DEF FirstFit
<1>9. \A si \in Stores :
        /\ End(s, si)' = b[si] + Need(ctx, si)
        /\ Owned(s, si)' = b[si] .. (b[si] + Need(ctx, si) - 1)
        /\ \A t \in live : End(t, si)' = End(t, si) /\ Owned(t, si)' = Owned(t, si)
  <2> SUFFICES ASSUME NEW si \in Stores
               PROVE  /\ End(s, si)' = b[si] + Need(ctx, si)
                      /\ Owned(s, si)' = b[si] .. (b[si] + Need(ctx, si) - 1)
                      /\ \A t \in live : End(t, si)' = End(t, si) /\ Owned(t, si)' = Owned(t, si)
    OBVIOUS
  <2>1. End(s, si)' = b[si] + Need(ctx, si)
    BY <1>5 DEF End
  <2>2. Owned(s, si)' = b[si] .. (b[si] + Need(ctx, si) - 1)
    <3>1. reg'[s][si].base = b[si] /\ reg'[s][si].cap = Need(ctx, si)
      BY <1>5
    <3> QED
      BY <1>4, <2>1, <3>1 DEF Owned
  <2>3. \A t \in live : End(t, si)' = End(t, si)
    BY <1>6 DEF End
  <2>4. \A t \in live : Owned(t, si)' = Owned(t, si)
    BY <1>6, <2>3 DEF Owned
  <2> QED
    BY <2>1, <2>2, <2>3, <2>4
<1>10. TypeOK'
  <2>1. [si \in Stores |-> Region(b[si], Need(ctx, si), 0)] \in [Stores -> [base : Nat, cap : Nat, n : Nat]]
    BY <1>4 DEF Region
  <2>2. reg' \in [Slots -> [Stores -> [base : Nat, cap : Nat, n : Nat]]]
    BY <1>1, <2>1 DEF TypeOK
  <2> QED
    BY <1>1, <1>2, <2>2 DEF TypeOK
<1>11. RegionsDisjoint'
  <2> SUFFICES ASSUME NEW si \in Stores
               PROVE  /\ \A t \in live' : End(t, si)' <= RowsCap[si] /\ reg'[t][si].n <= reg'[t][si].cap
                      /\ \A t, u \in live' : t # u => \/ End(t, si)' <= reg'[u][si].base
                                                     \/ End(u, si)' <= reg'[t][si].base
    BY DEF RegionsDisjoint
  <2>1. reg'[s][si].base = b[si] /\ reg'[s][si].cap = Need(ctx, si) /\ reg'[s][si].n = 0
    BY <1>5
  <2>2. \A t \in live : b[si] + Need(ctx, si) <= reg[t][si].base \/ End(t, si) <= b[si]
    BY <1>4, <1>8, ApartFromRegion
  <2>3. \A t \in live' : End(t, si)' <= RowsCap[si] /\ reg'[t][si].n <= reg'[t][si].cap
    BY <1>1, <1>4, <1>6, <1>8, <1>9, <2>1 DEF RegionsDisjoint
  <2>4. ASSUME NEW t \in live', NEW u \in live', t # u
        PROVE  End(t, si)' <= reg'[u][si].base \/ End(u, si)' <= reg'[t][si].base
    <3>1. CASE t = s
      BY <1>1, <1>6, <1>9, <2>1, <2>2, <2>4, <3>1
    <3>2. CASE u = s
      BY <1>1, <1>6, <1>9, <2>1, <2>2, <2>4, <3>2
    <3>3. CASE t \in live /\ u \in live
      BY <1>6, <1>9, <2>4, <3>3 DEF RegionsDisjoint
    <3> QED
      BY <1>1, <3>1, <3>2, <3>3
  <2> QED
    BY <2>3, <2>4
<1>12. CapsPositive'
  BY <1>1, <1>4, <1>5, <1>6 DEF CapsPositive
<1>13. FreeInv'
  <2> SUFFICES ASSUME NEW si \in Stores PROVE free'[si] = FreeRuns(si)'
    BY DEF FreeInv
  <2>1. free'[si] = FreeRuns(si) \ Owned(s, si)'
    BY <1>1, <1>7, <1>9
  <2>2. \A t \in live : Owned(t, si)' = Owned(t, si)
    BY <1>9
  <2> QED
    BY <1>1, <2>1, <2>2 DEF FreeRuns
<1>14. MoveInv'
  BY <1>3 DEF MoveInv
<1> QED
  BY <1>3, <1>10, <1>11, <1>12, <1>13, <1>14

\* Distinct live slots own no row in common, and own only rows of the store.
LEMMA OwnedApart ==
  ASSUME TypeOK, RegionsDisjoint, NEW si \in Stores, NEW s \in live
  PROVE  /\ Owned(s, si) \subseteq Rows(si)
         /\ \A t \in live : t # s => Owned(s, si) \cap Owned(t, si) = {}
<1>1. s \in Slots /\ RowsCap[si] \in Nat
  BY ArenaAssumption DEF TypeOK
<1>2. Owned(s, si) \subseteq Rows(si)
  <2>1. End(s, si) <= RowsCap[si]
    BY DEF RegionsDisjoint
  <2> QED
    BY <1>1, <2>1, RegionFields DEF Owned, Rows
<1>3. ASSUME NEW t \in live, t # s PROVE Owned(s, si) \cap Owned(t, si) = {}
  <2>1. t \in Slots
    BY DEF TypeOK
  <2>2. End(s, si) <= reg[t][si].base \/ End(t, si) <= reg[s][si].base
    BY <1>3 DEF RegionsDisjoint
  <2>3. /\ End(s, si) \in Nat /\ End(t, si) \in Nat
        /\ reg[s][si].base \in Nat /\ reg[t][si].base \in Nat
    BY <1>1, <2>1, RegionFields
  <2> QED
    BY <2>2, <2>3 DEF Owned
<1> QED
  BY <1>2, <1>3

LEMMA ForgetSwappedType ==
  ASSUME TypeOK, NEW S
  PROVE  ForgetSaved(S) \subseteq SwapRec
<1> SUFFICES ASSUME NEW rec \in SwapRec, rec \in swapped
             PROVE  [rec EXCEPT !.img = Forget(rec.img, S)] \in SwapRec
  BY Zenon DEF TypeOK, ForgetSaved
<1>1. Forget(rec.img, S) \in [AllRows -> Tags]
  BY ForgetType DEF SwapRec
<1> QED
  BY <1>1 DEF SwapRec

LEMMA ForgetDataType ==
  ASSUME TypeOK, NEW S, NEW si \in Stores
  PROVE  Forget(data[si], S) \in [Rows(si) -> Tags]
BY ForgetType DEF TypeOK

LEMMA ReleaseInv ==
  ASSUME ArenaInv, NEW s \in Slots, Release(s)
  PROVE  ArenaInv'
<1> USE DEF ArenaInv
<1>1. s \in live /\ live' = live \ {s} /\ ~ Moving /\ ~ Moving' /\ TaskInv'
  BY DEF Release, Quiet, Moving, TaskInv
<1>2. TypeOK'
  <2>1. [si \in Stores |-> Region(0, 0, 0)] \in [Stores -> [base : Nat, cap : Nat, n : Nat]]
    BY DEF Region
  <2>2. reg' \in [Slots -> [Stores -> [base : Nat, cap : Nat, n : Nat]]]
    BY <2>1 DEF Release, TypeOK
  <2>3. \A si \in Stores : free'[si] \subseteq Rows(si)
    BY <1>1, OwnedApart DEF Release, TypeOK
  <2>4. /\ data' = [si \in Stores |-> data'[si]] /\ free' = [si \in Stores |-> free'[si]]
        /\ \A si \in Stores : data'[si] \in [Rows(si) -> Tags]
    BY ForgetDataType DEF Release
  <2>5. swapped' \subseteq SwapRec
    BY ForgetSwappedType DEF Release
  <2>6. pos' \in [Slots -> Nat] /\ live' \subseteq Slots /\ hurt' \subseteq Slots
        /\ task' \in TaskType /\ lent' \in BOOLEAN
    BY DEF Release, TypeOK
  <2> QED
    BY <2>2, <2>3, <2>4, <2>5, <2>6 DEF TypeOK
<1>3. \A t \in live', si \in Stores : t \in live /\ t # s /\ reg'[t][si] = reg[t][si]
  BY <1>1 DEF Release, TypeOK
<1>4. \A t \in live', si \in Stores : End(t, si)' = End(t, si) /\ Owned(t, si)' = Owned(t, si)
  BY <1>3 DEF End, Owned
<1>5. RegionsDisjoint' /\ CapsPositive'
  BY <1>3, <1>4 DEF RegionsDisjoint, CapsPositive
<1>6. FreeInv'
  <2> SUFFICES ASSUME NEW si \in Stores PROVE free'[si] = FreeRuns(si)'
    BY DEF FreeInv
  <2>1. free'[si] = FreeRuns(si) \cup Owned(s, si)
    BY <1>1 DEF Release, FreeInv
  <2>2. FreeRuns(si)' = {r \in Rows(si) : \A t \in live \ {s} : r \notin Owned(t, si)}
    BY <1>1, <1>4 DEF FreeRuns
  <2>3. /\ Owned(s, si) \subseteq Rows(si)
        /\ \A t \in live : t # s => Owned(s, si) \cap Owned(t, si) = {}
    BY <1>1, OwnedApart
  <2> QED
    BY <1>1, <2>1, <2>2, <2>3 DEF FreeRuns
<1> QED
  BY <1>1, <1>2, <1>5, <1>6 DEF MoveInv

LEMMA AbortAllInv ==
  ASSUME ArenaInv, AbortAll
  PROVE  ArenaInv'
<1> USE DEF ArenaInv
<1>1. live' = {} /\ ~ Moving' /\ TaskInv'
  BY DEF AbortAll, Quiet, Moving, TaskInv
<1>2. TypeOK'
  <2>1. reg' \in [Slots -> [Stores -> [base : Nat, cap : Nat, n : Nat]]]
    BY DEF AbortAll, Region
  <2>2. /\ data' = [si \in Stores |-> data'[si]] /\ free' = [si \in Stores |-> free'[si]]
        /\ \A si \in Stores : free'[si] \subseteq Rows(si) /\ data'[si] \in [Rows(si) -> Tags]
    BY ForgetDataType DEF AbortAll
  <2>3. swapped' \subseteq SwapRec
    BY ForgetSwappedType DEF AbortAll
  <2>4. pos' \in [Slots -> Nat] /\ task' \in TaskType /\ lent' \in BOOLEAN /\ hurt' \subseteq Slots
    BY DEF AbortAll, TypeOK
  <2> QED
    BY <1>1, <2>1, <2>2, <2>3, <2>4 DEF TypeOK
<1>3. FreeInv'
  BY <1>1 DEF AbortAll, FreeInv, FreeRuns
<1> QED
  BY <1>1, <1>2, <1>3 DEF RegionsDisjoint, CapsPositive, MoveInv

\* With every region placed, the run between them is exactly the free rows.
LEMMA PackedRunIsFree ==
  ASSUME ArenaInv, Placed
  PROVE  PackedRun = FreeRuns(task.si) /\ PackedRun \subseteq Rows(task.si)
<1> DEFINE si == task.si
<1> USE DEF ArenaInv
<1>1. /\ si \in Stores /\ task.next \in Nat /\ task.top \in Nat /\ RowsCap[si] \in Nat
      /\ task.top <= RowsCap[si]
      /\ \A s \in live : End(s, si) <= task.next \/ task.top <= reg[s][si].base
      /\ \A r \in Rows(si) : r \in PackedRun \/ \E s \in live : r \in Owned(s, si)
  BY ArenaAssumption DEF Placed, Moving, MoveInv, TypeOK, TaskType
<1>2. PackedRun \subseteq Rows(si)
  BY <1>1 DEF PackedRun, Rows
<1>3. ASSUME NEW s \in live PROVE PackedRun \cap Owned(s, si) = {}
  <2>1. reg[s][si].base \in Nat /\ End(s, si) \in Nat
    BY <1>1, RegionFields DEF TypeOK
  <2> QED
    BY <1>1, <2>1 DEF PackedRun, Owned
<1> QED
  BY <1>1, <1>2, <1>3 DEF FreeRuns

LEMMA CompactStoreInv ==
  ASSUME ArenaInv, CompactStore
  PROVE  ArenaInv'
<1> USE DEF ArenaInv
<1>1. /\ Placed /\ task.si \in Stores /\ task \in TaskType
      /\ free' = [free EXCEPT ![task.si] = PackedRun]
      /\ task' = CompactFrom(task.si + 1, task.lending)
      /\ UNCHANGED <<live, pos, reg, data, lent, swapped, hurt>>
  BY DEF CompactStore, Placed, Moving, TypeOK
<1>2. task.si + 1 \in Nat \ {0} /\ task.lending \in BOOLEAN
  BY <1>1 DEF TaskType
<1>3. PackedRun = FreeRuns(task.si) /\ PackedRun \subseteq Rows(task.si)
  BY <1>1, PackedRunIsFree
<1>4. \A sj \in Stores : free'[sj] = FreeRuns(sj)
  BY <1>1, <1>3 DEF FreeInv, TypeOK
<1>5. Geometry' /\ task' \in TaskType
  BY <1>1, <1>2, <1>4, CompactFromInv
<1>6. TypeOK'
  <2>1. /\ free' = [si \in Stores |-> free'[si]]
        /\ \A si \in Stores : free'[si] \subseteq Rows(si)
    BY <1>1, <1>3 DEF TypeOK
  <2> QED
    BY <1>1, <1>5, <2>1 DEF TypeOK
<1> QED
  BY <1>5, <1>6 DEF Geometry

\* A region takes the free rows right after it.
LEMMA ExtendInv ==
  ASSUME ArenaInv, NEW s \in live, NEW si \in Stores, NEW x \in Nat, x >= 1,
         Window(FreeRuns(si), End(s, si), x),
         \A sj \in Stores : sj # si => free[sj] = FreeRuns(sj),
         reg' = [reg EXCEPT ![s][si] = WithCap(s, si, reg[s][si].cap + x)],
         free' = [free EXCEPT ![si] = FreeRuns(si) \ (End(s, si) .. (End(s, si) + x - 1))],
         ~ Moving', TaskInv', task' \in TaskType,
         UNCHANGED <<live, pos, data, lent, swapped, hurt>>
  PROVE  ArenaInv'
<1> USE DEF ArenaInv
<1> DEFINE w == End(s, si) .. (End(s, si) + x - 1)
<1>1. s \in Slots
  BY DEF TypeOK
<1>2. /\ reg[s][si].base \in Nat /\ reg[s][si].cap \in Nat /\ reg[s][si].n \in Nat
      /\ End(s, si) \in Nat /\ End(s, si) = reg[s][si].base + reg[s][si].cap
      /\ reg[s][si] \in [base : Nat, cap : Nat, n : Nat]
  BY <1>1, RegionFields
<1>3. /\ End(s, si) + x <= RowsCap[si]
      /\ \A t \in live : w \cap Owned(t, si) = {}
  BY <1>2, WindowFree
<1>4. /\ reg'[s][si].base = reg[s][si].base /\ reg'[s][si].cap = reg[s][si].cap + x
      /\ reg'[s][si].n = reg[s][si].n
      /\ reg'[s][si] \in [base : Nat, cap : Nat, n : Nat]
  <2>1. reg'[s][si] = WithCap(s, si, reg[s][si].cap + x)
    BY <1>1 DEF TypeOK
  <2> QED
    BY <1>2, <2>1 DEF WithCap, Region
<1>5. \A t \in live, sj \in Stores : ~ (t = s /\ sj = si) => reg'[t][sj] = reg[t][sj]
  BY <1>1 DEF TypeOK
<1>6. End(s, si)' = End(s, si) + x
  BY <1>2, <1>4 DEF End
<1>7. Owned(s, si)' = Owned(s, si) \cup w
  BY <1>2, <1>4, <1>6 DEF Owned
<1>8. \A t \in live, sj \in Stores : ~ (t = s /\ sj = si) => End(t, sj)' = End(t, sj)
  BY <1>5 DEF End
<1>9. \A t \in live, sj \in Stores : ~ (t = s /\ sj = si) => Owned(t, sj)' = Owned(t, sj)
  BY <1>5, <1>8 DEF Owned
<1>10. \A t \in live : t # s => End(s, si) + x <= reg[t][si].base \/ End(t, si) <= reg[s][si].base
  <2> SUFFICES ASSUME NEW t \in live, t # s
               PROVE  End(s, si) + x <= reg[t][si].base \/ End(t, si) <= reg[s][si].base
    OBVIOUS
  <2>1. End(s, si) <= reg[t][si].base \/ End(t, si) <= reg[s][si].base
    BY DEF RegionsDisjoint
  <2>2. End(s, si) + x <= reg[t][si].base \/ End(t, si) <= End(s, si)
    BY <1>2, <1>3, ApartFromRegion
  <2>3. t \in Slots /\ reg[t][si].cap >= 1 /\ reg[t][si].base \in Nat /\ reg[t][si].cap \in Nat
        /\ End(t, si) = reg[t][si].base + reg[t][si].cap
    BY RegionFields DEF TypeOK, CapsPositive
  <2> QED
    BY <1>2, <2>1, <2>2, <2>3
<1>11. TypeOK'
  <2>1. reg' \in [Slots -> [Stores -> [base : Nat, cap : Nat, n : Nat]]]
    BY <1>1, <1>4 DEF TypeOK
  <2>2. /\ free' = [sj \in Stores |-> free'[sj]]
        /\ \A sj \in Stores : free'[sj] \subseteq Rows(sj)
    BY DEF TypeOK, FreeRuns
  <2> QED
    BY <2>1, <2>2 DEF TypeOK
<1>12. RegionsDisjoint'
  <2> SUFFICES ASSUME NEW sj \in Stores
               PROVE  /\ \A t \in live : End(t, sj)' <= RowsCap[sj] /\ reg'[t][sj].n <= reg'[t][sj].cap
                      /\ \A t, u \in live : t # u => \/ End(t, sj)' <= reg'[u][sj].base
                                                    \/ End(u, sj)' <= reg'[t][sj].base
    BY DEF RegionsDisjoint
  <2>1. \A t \in live : End(t, sj)' <= RowsCap[sj] /\ reg'[t][sj].n <= reg'[t][sj].cap
    BY <1>2, <1>3, <1>4, <1>5, <1>6, <1>8 DEF RegionsDisjoint
  <2>2. \A t \in live : reg'[t][sj].base = reg[t][sj].base
    BY <1>4, <1>5
  <2>3. \A t, u \in live : t # u => \/ End(t, sj)' <= reg[u][sj].base
                                    \/ End(u, sj)' <= reg[t][sj].base
    BY <1>6, <1>8, <1>10 DEF RegionsDisjoint
  <2> QED
    BY <2>1, <2>2, <2>3
<1>13. CapsPositive'
  BY <1>2, <1>4, <1>5 DEF CapsPositive
<1>14. FreeInv'
  <2> SUFFICES ASSUME NEW sj \in Stores PROVE free'[sj] = FreeRuns(sj)'
    BY DEF FreeInv
  <2>1. CASE sj # si
    BY <1>9, <2>1 DEF FreeRuns, TypeOK
  <2>2. CASE sj = si
    <3>1. free'[si] = FreeRuns(si) \ w
      BY DEF TypeOK
    <3>2. FreeRuns(si)' = {r \in Rows(si) : \A t \in live : r \notin Owned(t, si)'}
      BY DEF FreeRuns
    <3>3. \A t \in live : t # s => Owned(t, si)' = Owned(t, si)
      BY <1>9
    <3> HIDE DEF w
    <3> QED
      BY <1>7, <2>2, <3>1, <3>2, <3>3 DEF FreeRuns
  <2> QED
    BY <2>1, <2>2
<1> QED
  BY <1>11, <1>12, <1>13, <1>14 DEF MoveInv

LEMMA NextStoreInv ==
  ASSUME TypeOK, task' = NextStore, task.slot \in live, live' = live
  PROVE  ~ Moving' /\ TaskInv' /\ task' \in TaskType
BY DEF NextStore, Job, Moving, TaskInv, TypeOK, TaskType

LEMMA GrowNeed ==
  ASSUME TypeOK, task.si \in Stores, task.slot \in live
  PROVE  /\ Need(task.ctx, task.si) \in Nat /\ Need(task.ctx, task.si) >= 1
         /\ GExtra = Need(task.ctx, task.si) - reg[GSlot][task.si].cap
         /\ GExtra \in Int /\ GSlot \in Slots /\ GSlot \in live
<1>1. task.ctx \in Nat /\ task.slot \in Slots
  BY DEF TypeOK, TaskType
<1>2. reg[task.slot][task.si].cap \in Nat
  BY <1>1, RegionFields
<1> QED
  BY <1>1, <1>2, NeedPositive DEF GExtra, Extra, GSlot

LEMMA GrowInPlaceInv ==
  ASSUME ArenaInv, GrowInPlace
  PROVE  ArenaInv'
<1> USE DEF ArenaInv
<1> DEFINE si == task.si
           x == GExtra
<1>1. /\ si \in Stores /\ task.slot \in live /\ GExtra > 0 /\ ~ Moving
  BY DEF GrowInPlace, Growing, TaskInv, Moving
<1>2. /\ Need(task.ctx, si) = reg[GSlot][si].cap + x /\ x \in Nat /\ x >= 1 /\ GSlot \in live
  BY <1>1, GrowNeed, RegionFields
<1>3. \A sj \in Stores : free[sj] = FreeRuns(sj)
  BY <1>1 DEF FreeInv
<1>4. /\ Window(FreeRuns(si), End(GSlot, si), x)
      /\ reg' = [reg EXCEPT ![GSlot][si] = WithCap(GSlot, si, reg[GSlot][si].cap + x)]
      /\ free' = [free EXCEPT ![si] = FreeRuns(si) \ (End(GSlot, si) .. (End(GSlot, si) + x - 1))]
      /\ task' = NextStore
      /\ UNCHANGED <<live, pos, data, lent, swapped, hurt>>
  BY <1>1, <1>2, <1>3 DEF GrowInPlace, ExtendInPlace, CarveAt, GEnd, GSlot
<1>5. ~ Moving' /\ TaskInv' /\ task' \in TaskType
  BY <1>1, <1>4, NextStoreInv
<1> HIDE DEF x, si
<1> QED
  BY <1>1, <1>2, <1>3, <1>4, <1>5, ExtendInv DEF si

LEMMA GrowAfterAroundInv ==
  ASSUME ArenaInv, GrowAfterAround
  PROVE  ArenaInv'
<1> USE DEF ArenaInv
<1> DEFINE si == task.si
           x == GExtra
<1>1. /\ si \in Stores /\ task.slot \in live /\ GExtra > 0 /\ Placed
  BY DEF GrowAfterAround, TaskInv
<1>2. /\ Need(task.ctx, si) = reg[GSlot][si].cap + x /\ x \in Nat /\ x >= 1 /\ GSlot \in live
  BY <1>1, GrowNeed, RegionFields
<1>3. PackedRun = FreeRuns(si)
  BY <1>1, PackedRunIsFree
<1>4. \A sj \in Stores : sj # si => free[sj] = FreeRuns(sj)
  BY <1>1 DEF FreeInv
<1>5. /\ Window(FreeRuns(si), End(GSlot, si), x)
      /\ reg' = [reg EXCEPT ![GSlot][si] = WithCap(GSlot, si, reg[GSlot][si].cap + x)]
      /\ free' = [free EXCEPT ![si] = FreeRuns(si) \ (End(GSlot, si) .. (End(GSlot, si) + x - 1))]
      /\ task' = NextStore
      /\ UNCHANGED <<live, pos, data, lent, swapped, hurt>>
  BY <1>1, <1>2, <1>3 DEF GrowAfterAround, CarveAt, GEnd, GSlot
<1>6. ~ Moving' /\ TaskInv' /\ task' \in TaskType
  BY <1>1, <1>5, NextStoreInv
<1> HIDE DEF x, si
<1> QED
  BY <1>1, <1>2, <1>4, <1>5, <1>6, ExtendInv DEF si

\* Compacting around a region: the regions not above it are to be packed down,
\* the others up.
LEMMA GrowAroundInv ==
  ASSUME ArenaInv, GrowAround
  PROVE  ArenaInv'
<1> USE DEF ArenaInv
<1> DEFINE si == task.si
<1>1. /\ si \in Stores /\ task.slot \in live /\ GExtra > 0 /\ ~ Moving /\ task \in TaskType
      /\ UNCHANGED <<live, pos, reg, free, data, lent, swapped, hurt>>
      /\ live \subseteq Slots
  BY DEF GrowAround, Growing, TaskInv, Moving, TypeOK
<1>2. /\ task'.op = "around" /\ task'.si = si /\ task'.slot = task.slot /\ task'.ctx = task.ctx
      /\ task'.low = PackDown(si) /\ task'.high = live \ PackDown(si)
      /\ task'.next = 0 /\ task'.top = RowsCap[si]
      /\ task' \in TaskType
  BY <1>1, ArenaAssumption DEF GrowAround, TaskType, PackDown
<1>3. \A s \in live, sj \in Stores : End(s, sj)' = End(s, sj) /\ Owned(s, sj)' = Owned(s, sj)
  BY <1>1 DEF End, Owned
<1>4. TypeOK'
  BY <1>1, <1>2 DEF TypeOK
<1>5. RegionsDisjoint' /\ CapsPositive'
  BY <1>1, <1>3 DEF RegionsDisjoint, CapsPositive
<1>6. FreeInv'
  <2>1. \A sj \in Stores : FreeRuns(sj)' = FreeRuns(sj)
    BY <1>1, <1>3 DEF FreeRuns
  <2> QED
    BY <1>1, <2>1 DEF FreeInv
<1>7. TaskInv'
  BY <1>1, <1>2 DEF TaskInv, GExtra, Extra
<1>8. MoveInv'
  <2>1. \A s \in live : 0 <= reg[s][si].base /\ End(s, si) <= RowsCap[si]
    BY <1>1, RegionFields DEF RegionsDisjoint
  <2>2. PackedRun' = Rows(si)
    BY <1>2 DEF PackedRun, Rows
  <2>3. ASSUME NEW s \in PackDown(si), NEW t \in live \ PackDown(si)
        PROVE  End(s, si) <= reg[t][si].base
    <3>1. s \in live /\ s # t /\ s \in Slots /\ t \in Slots
          /\ reg[s][si].base <= reg[GSlot][si].base /\ ~ (reg[t][si].base <= reg[GSlot][si].base)
      BY <1>1 DEF PackDown
    <3>2. GSlot \in Slots
      BY <1>1 DEF GSlot
    <3>3. /\ reg[s][si].base \in Nat /\ reg[t][si].base \in Nat /\ reg[GSlot][si].base \in Nat
          /\ End(t, si) = reg[t][si].base + reg[t][si].cap /\ reg[t][si].cap \in Nat
      BY <1>1, <3>1, <3>2, RegionFields
    <3>4. End(s, si) <= reg[t][si].base \/ End(t, si) <= reg[s][si].base
      BY <1>1, <3>1 DEF RegionsDisjoint
    <3> QED
      BY <3>1, <3>3, <3>4
  <2>4. PackDown(si) \subseteq live
    BY DEF PackDown
  <2>5. 0 <= RowsCap[si] /\ RowsCap[si] <= RowsCap[si]
    BY <1>1, ArenaAssumption
  <2> QED
    BY <1>1, <1>2, <1>3, <2>1, <2>2, <2>3, <2>4, <2>5 DEF MoveInv
<1> QED
  BY <1>4, <1>5, <1>6, <1>7, <1>8

Todo == task.low \cup task.high

MoveFacts(s) ==
  /\ task.si \in Stores /\ task \in TaskType /\ RowsCap[task.si] \in Nat
  /\ task.next \in Nat /\ task.top \in Nat /\ task.next <= task.top /\ task.top <= RowsCap[task.si]
  /\ s \in live /\ s \in Slots
  /\ reg[s][task.si] \in [base : Nat, cap : Nat, n : Nat]
  /\ reg[s][task.si].base \in Nat /\ reg[s][task.si].cap \in Nat /\ reg[s][task.si].n \in Nat
  /\ reg[s][task.si].cap >= 1 /\ reg[s][task.si].n <= reg[s][task.si].cap
  /\ End(s, task.si) = reg[s][task.si].base + reg[s][task.si].cap
  /\ task.next <= reg[s][task.si].base /\ End(s, task.si) <= task.top

LEMMA MovingFacts ==
  ASSUME ArenaInv, Moving, NEW s \in Todo
  PROVE  MoveFacts(s)
<1> USE DEF ArenaInv
<1>1. task.si \in Stores /\ task \in TaskType /\ RowsCap[task.si] \in Nat
  BY ArenaAssumption DEF Moving, TypeOK
<1>2. task.next \in Nat /\ task.top \in Nat
  BY <1>1 DEF TaskType
<1>3. s \in live /\ s \in Slots
  BY DEF MoveInv, Todo, TypeOK
<1>4. /\ task.next <= task.top /\ task.top <= RowsCap[task.si]
      /\ task.next <= reg[s][task.si].base /\ End(s, task.si) <= task.top
  BY DEF MoveInv, Todo
<1>5. reg[s][task.si].cap >= 1 /\ reg[s][task.si].n <= reg[s][task.si].cap
  BY <1>1, <1>3 DEF CapsPositive, RegionsDisjoint
<1> QED
  BY <1>1, <1>2, <1>3, <1>4, <1>5, RegionFields DEF MoveFacts

\* One region moves to nb, next to the regions already placed; the run between
\* the placed regions shrinks by exactly the rows it takes there.
LEMMA PlaceInv ==
  ASSUME ArenaInv, Moving, NEW s \in Todo, NEW nb \in Nat, NEW nx \in Nat, NEW tp \in Nat,
         task' \in TaskType, task'.op = task.op, task'.si = task.si, task'.slot = task.slot,
         task'.ctx = task.ctx, task'.low \subseteq task.low, task'.high \subseteq task.high,
         task'.low \cup task'.high = Todo \ {s}, task'.next = nx, task'.top = tp,
         nx <= tp,
         \/ nb = task.next /\ nx = nb + reg[s][task.si].cap /\ tp = task.top
         \/ nb + reg[s][task.si].cap = task.top /\ tp = nb /\ nx = task.next,
         \A t \in Todo \ {s} : nx <= reg[t][task.si].base /\ End(t, task.si) <= tp,
         MoveRegion(s, nb)
  PROVE  ArenaInv'
<1> USE DEF ArenaInv
<1> DEFINE si == task.si
           k == reg[s][si].cap
<1>1. MoveFacts(s)
  BY MovingFacts
<1>2. reg' = [reg EXCEPT ![s][si] = Region(nb, reg[s][si].cap, reg[s][si].n)]
      /\ UNCHANGED <<live, pos, free, lent, swapped, hurt>>
  BY DEF MoveRegion
<1>3. si \in Stores /\ s \in live /\ s \in Slots /\ live \subseteq Slots
  BY <1>1 DEF MoveFacts, TypeOK
<1>4. /\ reg'[s][si].base = nb /\ reg'[s][si].cap = k /\ reg'[s][si].n = reg[s][si].n
      /\ reg'[s][si] \in [base : Nat, cap : Nat, n : Nat]
  <2>1. reg'[s][si] = Region(nb, reg[s][si].cap, reg[s][si].n)
    BY <1>2, <1>3 DEF TypeOK
  <2> QED
    BY <1>1, <2>1 DEF MoveFacts, Region
<1>5. \A t \in live, sj \in Stores : ~ (t = s /\ sj = si) => reg'[t][sj] = reg[t][sj]
  BY <1>2, <1>3 DEF TypeOK
<1>6. k \in Nat /\ End(s, si)' = nb + k
  BY <1>1, <1>4 DEF MoveFacts, End
<1>7. Owned(s, si)' = nb .. (nb + k - 1)
  BY <1>4, <1>6 DEF Owned
<1>8. \A t \in live, sj \in Stores : ~ (t = s /\ sj = si) => End(t, sj)' = End(t, sj)
  BY <1>5 DEF End
<1>9. \A t \in live, sj \in Stores : ~ (t = s /\ sj = si) => Owned(t, sj)' = Owned(t, sj)
  BY <1>5, <1>8 DEF Owned
<1>10. task.next <= nb /\ nb + k <= task.top /\ task.top <= RowsCap[si] /\ task.top \in Nat
       /\ RowsCap[si] \in Nat
  BY <1>1, <1>6 DEF MoveFacts
<1>11. \A t \in live : t # s => nb + k <= reg[t][si].base \/ End(t, si) <= nb
  <2> SUFFICES ASSUME NEW t \in live, t # s
               PROVE  nb + k <= reg[t][si].base \/ End(t, si) <= nb
    OBVIOUS
  <2>1. reg[t][si].base \in Nat /\ End(t, si) \in Nat /\ task.next \in Nat
    BY <1>1, <1>3, RegionFields DEF MoveFacts
  <2>2. CASE t \in Todo
    <3>1. nx <= reg[t][si].base /\ End(t, si) <= tp
      BY <2>2
    <3> QED
      BY <1>6, <2>1, <3>1
  <2>3. CASE t \notin Todo
    <3>1. End(t, si) <= task.next \/ task.top <= reg[t][si].base
      BY <2>3 DEF MoveInv, Todo
    <3> QED
      BY <1>6, <1>10, <2>1, <3>1
  <2> QED
    BY <2>2, <2>3
<1>12. TypeOK'
  <2>1. \A sj \in Stores : data'[sj] \in [Rows(sj) -> Tags]
    <3>1. MoveRows(data[si], reg[s][si].base, nb, reg[s][si].n) \in Contents(si)
      <4>1. reg[s][si].base + reg[s][si].n <= RowsCap[si]
        BY <1>1 DEF MoveFacts
      <4>2. data[si] \in Contents(si)
        BY <1>3 DEF TypeOK, Contents
      <4> QED
        BY <1>1, <1>3, <4>1, <4>2, MoveRowsType DEF MoveFacts
    <3>2. \/ data' = data
          \/ data' = [data EXCEPT ![si] = MoveRows(data[si], reg[s][si].base, nb, reg[s][si].n)]
      BY DEF MoveRegion
    <3> QED
      BY <3>1, <3>2 DEF TypeOK, Contents
  <2>2. data' = [sj \in Stores |-> data'[sj]]
    BY DEF MoveRegion, TypeOK
  <2>3. reg' \in [Slots -> [Stores -> [base : Nat, cap : Nat, n : Nat]]]
    <3>1. Region(nb, reg[s][si].cap, reg[s][si].n) \in [base : Nat, cap : Nat, n : Nat]
      BY <1>1 DEF MoveFacts, Region
    <3> QED
      BY <1>2, <1>3, <3>1 DEF TypeOK
  <2> QED
    BY <1>2, <2>1, <2>2, <2>3 DEF TypeOK
<1>13. RegionsDisjoint'
  <2> SUFFICES ASSUME NEW sj \in Stores
               PROVE  /\ \A t \in live : End(t, sj)' <= RowsCap[sj] /\ reg'[t][sj].n <= reg'[t][sj].cap
                      /\ \A t, u \in live : t # u => \/ End(t, sj)' <= reg'[u][sj].base
                                                    \/ End(u, sj)' <= reg'[t][sj].base
    BY <1>2 DEF RegionsDisjoint
  <2>1. CASE sj # si
    BY <1>5, <1>8, <2>1 DEF RegionsDisjoint
  <2>2. CASE sj = si
    <3>1. End(s, si)' <= RowsCap[si] /\ reg'[s][si].n <= reg'[s][si].cap
      BY <1>1, <1>4, <1>6, <1>10 DEF MoveFacts
    <3>2. \A t \in live : t # s => /\ reg'[t][si] = reg[t][si] /\ End(t, si)' = End(t, si)
                                   /\ End(t, si) <= RowsCap[si] /\ reg[t][si].n <= reg[t][si].cap
      BY <1>3, <1>5, <1>8 DEF RegionsDisjoint
    <3>3. \A t, u \in live : t # u /\ t # s /\ u # s =>
             End(t, si) <= reg[u][si].base \/ End(u, si) <= reg[t][si].base
      BY <1>3 DEF RegionsDisjoint
    <3> HIDE DEF k
    <3>4. ASSUME NEW t \in live, NEW u \in live, t # u
          PROVE  End(t, si)' <= reg'[u][si].base \/ End(u, si)' <= reg'[t][si].base
      <4>1. CASE t = s
        BY <1>4, <1>6, <1>11, <3>2, <3>4, <4>1
      <4>2. CASE u = s
        BY <1>4, <1>6, <1>11, <3>2, <3>4, <4>2
      <4>3. CASE t # s /\ u # s
        BY <3>2, <3>3, <3>4, <4>3
      <4> QED
        BY <4>1, <4>2, <4>3
    <3> QED
      BY <2>2, <3>1, <3>2, <3>4
  <2> QED
    BY <2>1, <2>2
<1>14. CapsPositive'
  BY <1>2, <1>4, <1>5 DEF CapsPositive
<1>15. FreeInv'
  <2> SUFFICES ASSUME NEW sj \in Stores, sj # si PROVE free'[sj] = FreeRuns(sj)'
    BY DEF FreeInv, Moving
  <2>1. FreeRuns(sj)' = FreeRuns(sj)
    BY <1>2, <1>9 DEF FreeRuns
  <2> QED
    BY <1>2, <2>1 DEF FreeInv
<1>16. TaskInv'
  <2>1. task.slot \in Slots
    BY <1>1 DEF MoveFacts, TaskType
  <2>2. task.slot \in live => reg'[task.slot][si].cap = reg[task.slot][si].cap
    BY <1>3, <1>4, <1>5
  <2> QED
    BY <1>2, <2>2 DEF TaskInv, GExtra, Extra
<1>17. MoveInv'
  <2>1. /\ Todo \ {s} \subseteq live /\ task'.low \cap task'.high = {}
        /\ tp <= RowsCap[si]
    BY <1>1, <1>6, <1>10 DEF MoveInv, Todo
  <2>2. \A t \in Todo \ {s} : nx <= reg'[t][si].base /\ End(t, si)' <= tp
    BY <1>3, <1>5, <1>8, <2>1
  <2>3. \A t \in live \ (Todo \ {s}) : End(t, si)' <= nx \/ tp <= reg'[t][si].base
    <3> SUFFICES ASSUME NEW t \in live \ (Todo \ {s})
                 PROVE  End(t, si)' <= nx \/ tp <= reg'[t][si].base
      OBVIOUS
    <3>1. CASE t = s
      BY <1>4, <1>6, <3>1
    <3>2. CASE t # s
      <4>1. End(t, si) <= task.next \/ task.top <= reg[t][si].base
        BY <3>2 DEF MoveInv, Todo
      <4>2. End(t, si)' = End(t, si) /\ reg'[t][si] = reg[t][si]
        BY <1>3, <1>5, <1>8, <3>2
      <4>3. reg[t][si].base \in Nat /\ End(t, si) \in Nat /\ task.next \in Nat
        BY <1>1, <1>3, RegionFields DEF MoveFacts
      <4>4. task.next <= nx /\ tp <= task.top
        BY <1>6, <1>10, <4>3
      <4> QED
        BY <1>10, <4>1, <4>2, <4>3, <4>4
    <3> QED
      BY <3>1, <3>2
  <2>4. \A r \in Rows(si) : (r \in nx .. (tp - 1)) \/ \E t \in live \ (Todo \ {s}) : r \in Owned(t, si)'
    <3> SUFFICES ASSUME NEW r \in Rows(si), r \notin nx .. (tp - 1)
                 PROVE  \E t \in live \ (Todo \ {s}) : r \in Owned(t, si)'
      OBVIOUS
    <3>1. CASE r \in PackedRun
      <4>1. r \in nb .. (nb + k - 1)
        BY <1>6, <1>10, <3>1 DEF PackedRun
      <4> QED
        BY <1>3, <1>7, <4>1
    <3>2. CASE r \notin PackedRun
      <4>1. PICK t \in live \ Todo : r \in Owned(t, si)
        BY <3>2 DEF MoveInv, Todo
      <4>2. t # s /\ Owned(t, si)' = Owned(t, si)
        BY <1>3, <1>9, <4>1
      <4> QED
        BY <4>1, <4>2
    <3> QED
      BY <3>1, <3>2
  <2>5. \A t \in task'.low, u \in task'.high : End(t, si)' <= reg'[u][si].base
    <3> SUFFICES ASSUME NEW t \in task'.low, NEW u \in task'.high
                 PROVE  End(t, si)' <= reg'[u][si].base
      OBVIOUS
    <3>1. t \in live /\ u \in live /\ t # s /\ u # s
      BY <2>1
    <3>2. End(t, si) <= reg[u][si].base
      BY DEF MoveInv
    <3> QED
      BY <1>3, <1>5, <1>8, <3>1, <3>2
  <2>6. PackedRun' = nx .. (tp - 1)
    BY DEF PackedRun
  <2> QED
    BY <1>2, <2>1, <2>2, <2>3, <2>4, <2>5, <2>6 DEF MoveInv
<1> QED
  BY <1>12, <1>13, <1>14, <1>15, <1>16, <1>17

LEMMA SlideDownInv ==
  ASSUME ArenaInv, NEW s \in Slots, SlideDown(s)
  PROVE  ArenaInv'
<1> USE DEF ArenaInv
<1> DEFINE si == task.si
           nx == task.next + reg[s][si].cap
<1>1. Moving /\ s \in task.low /\ s \in Todo /\ \A t \in task.low : reg[s][si].base <= reg[t][si].base
  BY DEF SlideDown, MovesDown, Todo
<1>2. MoveFacts(s)
  BY <1>1, MovingFacts
<1>3. task' = [task EXCEPT !.low = task.low \ {s}, !.next = nx] /\ MoveRegion(s, task.next)
  BY DEF SlideDown
<1>4. nx \in Nat /\ nx <= End(s, si) /\ nx <= task.top
  BY <1>2 DEF MoveFacts
<1> HIDE DEF nx
<1>5. /\ task' \in TaskType /\ task'.op = task.op /\ task'.si = task.si /\ task'.slot = task.slot
      /\ task'.ctx = task.ctx /\ task'.low = task.low \ {s} /\ task'.high = task.high
      /\ task'.next = nx /\ task'.top = task.top
  BY <1>2, <1>3, <1>4 DEF MoveFacts, TaskType
<1>6. s \notin task.high
  BY <1>1 DEF MoveInv
<1>7. \A t \in Todo \ {s} : nx <= reg[t][si].base /\ End(t, si) <= task.top
  <2> SUFFICES ASSUME NEW t \in Todo \ {s}
               PROVE  nx <= reg[t][si].base /\ End(t, si) <= task.top
    OBVIOUS
  <2>1. MoveFacts(t)
    BY <1>1, MovingFacts
  <2>2. CASE t \in task.low
    <3>1. End(s, si) <= reg[t][si].base \/ End(t, si) <= reg[s][si].base
      BY <1>2, <2>1 DEF RegionsDisjoint, MoveFacts
    <3>2. reg[s][si].base <= reg[t][si].base
      BY <1>1, <2>2
    <3> QED
      BY <1>2, <1>4, <2>1, <3>1, <3>2 DEF MoveFacts
  <2>3. CASE t \in task.high
    <3>1. End(s, si) <= reg[t][si].base
      BY <1>1, <2>3 DEF MoveInv
    <3> QED
      BY <1>2, <1>4, <2>1, <3>1 DEF MoveFacts
  <2> QED
    BY <2>2, <2>3 DEF Todo
<1>8. task.next \in Nat /\ task.top \in Nat
  BY <1>2 DEF MoveFacts
<1>9. task'.low \cup task'.high = Todo \ {s}
  BY <1>1, <1>5, <1>6 DEF Todo
<1> QED
  BY <1>1, <1>3, <1>4, <1>5, <1>7, <1>8, <1>9, PlaceInv DEF nx

LEMMA SlideUpInv ==
  ASSUME ArenaInv, NEW s \in Slots, SlideUp(s)
  PROVE  ArenaInv'
<1> USE DEF ArenaInv
<1> DEFINE si == task.si
           tp == task.top - reg[s][si].cap
<1>1. /\ Moving /\ s \in task.high /\ s \in Todo /\ task.low = {}
      /\ \A t \in task.high : reg[t][si].base <= reg[s][si].base
  BY DEF SlideUp, MovesUp, Todo
<1>2. MoveFacts(s)
  BY <1>1, MovingFacts
<1>3. task' = [task EXCEPT !.high = task.high \ {s}, !.top = tp] /\ MoveRegion(s, tp)
  BY DEF SlideUp
<1>4. tp \in Nat /\ reg[s][si].base <= tp /\ task.next <= tp /\ tp + reg[s][si].cap = task.top
  BY <1>2 DEF MoveFacts
<1> HIDE DEF tp
<1>5. /\ task' \in TaskType /\ task'.op = task.op /\ task'.si = task.si /\ task'.slot = task.slot
      /\ task'.ctx = task.ctx /\ task'.low = {} /\ task'.high = task.high \ {s}
      /\ task'.next = task.next /\ task'.top = tp
  BY <1>1, <1>2, <1>3, <1>4 DEF MoveFacts, TaskType
<1>6. \A t \in Todo \ {s} : task.next <= reg[t][si].base /\ End(t, si) <= tp
  <2> SUFFICES ASSUME NEW t \in Todo \ {s}
               PROVE  task.next <= reg[t][si].base /\ End(t, si) <= tp
    OBVIOUS
  <2>1. MoveFacts(t) /\ t \in task.high
    BY <1>1, MovingFacts DEF Todo
  <2>2. End(s, si) <= reg[t][si].base \/ End(t, si) <= reg[s][si].base
    BY <1>2, <2>1 DEF RegionsDisjoint, MoveFacts
  <2>3. reg[t][si].base <= reg[s][si].base
    BY <1>1, <2>1
  <2> QED
    BY <1>2, <1>4, <2>1, <2>2, <2>3 DEF MoveFacts
<1>7. task.next \in Nat
  BY <1>2 DEF MoveFacts
<1>8. task'.low \cup task'.high = Todo \ {s} /\ task'.low \subseteq task.low
  BY <1>1, <1>5 DEF Todo
<1> QED
  BY <1>1, <1>3, <1>4, <1>5, <1>6, <1>7, <1>8, PlaceInv

\* A failed move leaves the regions where they were and rebuilds every list.
LEMMA MoveFailsInv ==
  ASSUME ArenaInv, task.si \in Stores, NEW s \in live, NEW nb \in Nat, NEW k \in Nat,
         MoveFails(s, nb, k)
  PROVE  ArenaInv'
<1> USE DEF ArenaInv
<1> DEFINE si == task.si
<1>1. /\ UNCHANGED <<live, pos, reg, lent, swapped>> /\ task' = Idle
      /\ free' = [sj \in Stores |-> FreeRuns(sj)]
      /\ k \in 0 .. reg[s][si].n
      /\ data' = [data EXCEPT ![si] = PartMove(data[si], reg[s][si].base, nb, reg[s][si].n, k)]
      /\ hurt' \subseteq hurt \cup {s}
  BY DEF MoveFails, Rebuilt
<1>2. ~ Moving' /\ TaskInv' /\ task' \in TaskType
  BY <1>1, ArenaAssumption DEF Idle, Job, Moving, TaskInv, TaskType, Slots
<1>3. \A t \in live, sj \in Stores : End(t, sj)' = End(t, sj) /\ Owned(t, sj)' = Owned(t, sj)
  BY <1>1 DEF End, Owned
<1>4. TypeOK'
  <2>1. s \in Slots /\ data[si] \in Contents(si)
    BY DEF TypeOK, Contents
  <2>2. reg[s][si].base \in Nat /\ reg[s][si].n \in Nat /\ reg[s][si].base + reg[s][si].n <= RowsCap[si]
    <3>1. End(s, si) <= RowsCap[si] /\ reg[s][si].n <= reg[s][si].cap
      BY DEF RegionsDisjoint
    <3>2. RowsCap[si] \in Nat
      BY ArenaAssumption
    <3> QED
      BY <2>1, <3>1, <3>2, RegionFields
  <2>3. PartMove(data[si], reg[s][si].base, nb, reg[s][si].n, k) \in Contents(si)
    BY <1>1, <2>1, <2>2, PartMoveType
  <2>4. /\ data' = [sj \in Stores |-> data'[sj]]
        /\ \A sj \in Stores : data'[sj] \in [Rows(sj) -> Tags]
    BY <1>1, <2>3 DEF TypeOK, Contents
  <2>5. /\ free' = [sj \in Stores |-> free'[sj]]
        /\ \A sj \in Stores : free'[sj] \subseteq Rows(sj)
    BY <1>1 DEF FreeRuns
  <2> QED
    BY <1>1, <1>2, <2>1, <2>4, <2>5 DEF TypeOK
<1>5. RegionsDisjoint' /\ CapsPositive'
  BY <1>1, <1>3 DEF RegionsDisjoint, CapsPositive
<1>6. FreeInv'
  BY <1>1, <1>3 DEF FreeInv, FreeRuns
<1> QED
  BY <1>2, <1>4, <1>5, <1>6 DEF MoveInv

LEMMA SlideFailsInv ==
  ASSUME ArenaInv, SlideFails
  PROVE  ArenaInv'
<1> USE DEF ArenaInv
<1>1. PICK s \in live, k \in 0 .. MaxCtx :
        \/ MovesDown(s) /\ MoveFails(s, task.next, k)
        \/ MovesUp(s) /\ MoveFails(s, task.top - reg[s][task.si].cap, k)
  BY DEF SlideFails
<1>2. Moving /\ s \in Todo /\ k \in Nat /\ task.si \in Stores
  BY <1>1, ArenaAssumption DEF MovesDown, MovesUp, Todo, Moving
<1>3. MoveFacts(s)
  BY <1>2, MovingFacts
<1>4. task.next \in Nat /\ task.top - reg[s][task.si].cap \in Nat
  BY <1>3 DEF MoveFacts
<1> QED
  BY <1>1, <1>2, <1>4, MoveFailsInv

LEMMA RelocateFailsInv ==
  ASSUME ArenaInv, RelocateFails
  PROVE  ArenaInv'
<1> USE DEF ArenaInv
<1>1. PICK nb \in AllRows, k \in 0 .. MaxCtx : RelocateTo(nb) /\ MoveFails(GSlot, nb, k)
  BY DEF RelocateFails
<1>2. nb \in Nat /\ k \in Nat
  BY <1>1, ArenaAssumption DEF AllRows, Rows
<1>3. task.si \in Stores /\ GSlot \in live
  BY <1>1 DEF RelocateTo, Growing, TaskInv, GSlot
<1> QED
  BY <1>1, <1>2, <1>3, MoveFailsInv

\* A region moves into a free window that holds its new size; the rows it
\* leaves are free again.
LEMMA RelocateInv ==
  ASSUME ArenaInv, NEW s \in live, NEW si \in Stores, NEW nb \in Nat, NEW k \in Nat, k >= 1,
         ~ Moving, Window(free[si], nb, k), reg[s][si].cap < k,
         data' = [data EXCEPT ![si] = MoveRows(data[si], reg[s][si].base, nb, reg[s][si].n)],
         free' = [free EXCEPT ![si] = (free[si] \ (nb .. (nb + k - 1))) \cup Owned(s, si)],
         reg' = [reg EXCEPT ![s][si] = Region(nb, k, reg[s][si].n)],
         ~ Moving', TaskInv', task' \in TaskType,
         UNCHANGED <<live, pos, lent, swapped, hurt>>
  PROVE  ArenaInv'
<1> USE DEF ArenaInv
<1> DEFINE w == nb .. (nb + k - 1)
<1>3. /\ s \in Slots
      /\ reg[s][si].base \in Nat /\ reg[s][si].cap \in Nat /\ reg[s][si].n \in Nat
  <2>1. s \in Slots
    BY DEF TypeOK
  <2> QED
    BY <2>1, RegionFields
<1>5. \A sj \in Stores : free[sj] = FreeRuns(sj)
  BY DEF FreeInv
<1>6. nb + k <= RowsCap[si] /\ \A t \in live : w \cap Owned(t, si) = {}
  BY <1>3, <1>5, WindowFree
<1>7. /\ reg'[s][si].base = nb /\ reg'[s][si].cap = k /\ reg'[s][si].n = reg[s][si].n
      /\ reg'[s][si] \in [base : Nat, cap : Nat, n : Nat]
  <2>1. reg'[s][si] = Region(nb, k, reg[s][si].n)
    BY <1>3 DEF TypeOK
  <2> QED
    BY <1>3, <2>1 DEF Region
<1>8. \A t \in live, sj \in Stores : ~ (t = s /\ sj = si) => reg'[t][sj] = reg[t][sj]
  BY <1>3 DEF TypeOK
<1>9. End(s, si)' = nb + k /\ Owned(s, si)' = w
  BY <1>7 DEF End, Owned
<1>10. \A t \in live, sj \in Stores : ~ (t = s /\ sj = si) => End(t, sj)' = End(t, sj)
  BY <1>8 DEF End
<1>11. \A t \in live, sj \in Stores : ~ (t = s /\ sj = si) => Owned(t, sj)' = Owned(t, sj)
  BY <1>8, <1>10 DEF Owned
<1>12. \A t \in live : nb + k <= reg[t][si].base \/ End(t, si) <= nb
  BY <1>3, <1>6, ApartFromRegion
<1>13. TypeOK'
  <2>1. reg' \in [Slots -> [Stores -> [base : Nat, cap : Nat, n : Nat]]]
    BY <1>3, <1>7 DEF TypeOK
  <2>2. Owned(s, si) \subseteq Rows(si)
    BY <1>3, OwnedApart
  <2>3. /\ free' = [sj \in Stores |-> free'[sj]]
        /\ \A sj \in Stores : free'[sj] \subseteq Rows(sj)
    BY <2>2 DEF TypeOK
  <2>4. reg[s][si].base + reg[s][si].n <= RowsCap[si]
    <3>1. End(s, si) <= RowsCap[si] /\ reg[s][si].n <= reg[s][si].cap
      BY <1>3 DEF RegionsDisjoint
    <3> QED
      BY <1>3, <3>1, ArenaAssumption DEF End
  <2>5. MoveRows(data[si], reg[s][si].base, nb, reg[s][si].n) \in Contents(si)
    <3>1. data[si] \in Contents(si)
      BY DEF TypeOK, Contents
    <3> QED
      BY <1>3, <2>4, <3>1, MoveRowsType
  <2>6. /\ data' = [sj \in Stores |-> data'[sj]]
        /\ \A sj \in Stores : data'[sj] \in [Rows(sj) -> Tags]
    BY <2>5 DEF TypeOK, Contents
  <2> QED
    BY <2>1, <2>3, <2>6 DEF TypeOK
<1>14. RegionsDisjoint'
  <2> SUFFICES ASSUME NEW sj \in Stores
               PROVE  /\ \A t \in live : End(t, sj)' <= RowsCap[sj] /\ reg'[t][sj].n <= reg'[t][sj].cap
                      /\ \A t, u \in live : t # u => \/ End(t, sj)' <= reg'[u][sj].base
                                                    \/ End(u, sj)' <= reg'[t][sj].base
    BY DEF RegionsDisjoint
  <2>1. CASE sj # si
    BY <1>8, <1>10, <2>1 DEF RegionsDisjoint
  <2>2. CASE sj = si
    <3>1. reg[s][si].n <= reg[s][si].cap
      BY <1>3 DEF RegionsDisjoint
    <3>2. \A t \in live : End(t, si)' <= RowsCap[si] /\ reg'[t][si].n <= reg'[t][si].cap
      BY <1>3, <1>6, <1>7, <1>8, <1>9, <1>10, <3>1 DEF RegionsDisjoint
    <3>3. ASSUME NEW t \in live, NEW u \in live, t # u
          PROVE  End(t, si)' <= reg'[u][si].base \/ End(u, si)' <= reg'[t][si].base
      <4>1. CASE t = s
        BY <1>7, <1>8, <1>9, <1>10, <1>12, <3>3, <4>1
      <4>2. CASE u = s
        BY <1>7, <1>8, <1>9, <1>10, <1>12, <3>3, <4>2
      <4>3. CASE t # s /\ u # s
        BY <1>8, <1>10, <3>3, <4>3 DEF RegionsDisjoint
      <4> QED
        BY <4>1, <4>2, <4>3
    <3> QED
      BY <2>2, <3>2, <3>3
  <2> QED
    BY <2>1, <2>2
<1>15. CapsPositive'
  BY <1>3, <1>7, <1>8 DEF CapsPositive
<1>16. FreeInv'
  <2> SUFFICES ASSUME NEW sj \in Stores PROVE free'[sj] = FreeRuns(sj)'
    BY DEF FreeInv
  <2>1. CASE sj # si
    BY <1>5, <1>11, <2>1 DEF FreeRuns, TypeOK
  <2>2. CASE sj = si
    <3>1. free'[si] = (FreeRuns(si) \ w) \cup Owned(s, si)
      BY <1>5 DEF TypeOK
    <3>2. FreeRuns(si)' = {r \in Rows(si) : r \notin w /\ \A t \in live : t # s => r \notin Owned(t, si)}
      BY <1>3, <1>9, <1>11 DEF FreeRuns
    <3>3. Owned(s, si) \subseteq Rows(si) /\ Owned(s, si) \cap w = {}
          /\ \A t \in live : t # s => Owned(s, si) \cap Owned(t, si) = {}
      BY <1>3, <1>6, OwnedApart
    <3> HIDE DEF w
    <3> QED
      BY <1>3, <2>2, <3>1, <3>2, <3>3 DEF FreeRuns
  <2> QED
    BY <2>1, <2>2
<1> QED
  BY <1>13, <1>14, <1>15, <1>16 DEF MoveInv

LEMMA GrowRelocateInv ==
  ASSUME ArenaInv, GrowRelocate
  PROVE  ArenaInv'
<1> USE DEF ArenaInv
<1>1. PICK nb \in AllRows :
        LET si == task.si
            r  == reg[GSlot][si]
            k  == Need(task.ctx, si)
        IN /\ RelocateTo(nb)
           /\ data' = [data EXCEPT ![si] = MoveRows(@, r.base, nb, r.n)]
           /\ free' = [free EXCEPT ![si] = (@ \ (nb .. (nb + k - 1))) \cup Owned(GSlot, si)]
           /\ reg' = [reg EXCEPT ![GSlot][si] = Region(nb, k, r.n)]
           /\ task' = NextStore
           /\ UNCHANGED <<live, pos, lent, swapped, hurt>>
  BY DEF GrowRelocate
<1>2. /\ task.si \in Stores /\ task.slot \in live /\ GExtra > 0 /\ ~ Moving
      /\ Window(free[task.si], nb, Need(task.ctx, task.si))
  BY <1>1 DEF RelocateTo, Growing, TaskInv, Moving, FirstFit
<1>3. nb \in Nat
  BY ArenaAssumption DEF AllRows, Rows
<1>4. /\ GSlot \in live /\ GSlot \in Slots
      /\ Need(task.ctx, task.si) \in Nat /\ Need(task.ctx, task.si) >= 1
      /\ GExtra = Need(task.ctx, task.si) - reg[GSlot][task.si].cap
  BY <1>2, GrowNeed
<1>5. reg[GSlot][task.si].cap < Need(task.ctx, task.si)
  BY <1>2, <1>4, RegionFields
<1>6. ~ Moving' /\ TaskInv' /\ task' \in TaskType
  BY <1>1, <1>2, NextStoreInv
<1> QED
  BY <1>1, <1>2, <1>3, <1>4, <1>5, <1>6, RelocateInv

\* Every step preserves the invariant.
LEMMA NextInv ==
  ASSUME ArenaInv, [Next]_vars
  PROVE  ArenaInv'
<1>1. ASSUME NEW ctx \in 1 .. MaxCtx, Reserve(ctx) PROVE ArenaInv'
  BY <1>1, ReserveInv
<1>2. ASSUME NEW s \in Slots, Release(s) PROVE ArenaInv'
  BY <1>2, ReleaseInv
<1>3. ASSUME NEW s \in Slots, NEW p \in 1 .. MaxCtx, Fill(s, p) PROVE ArenaInv'
  BY <1>3, FillInv
<1>4. ASSUME NEW s \in Slots, NEW p \in 1 .. MaxCtx, NEW k \in Stores, FillFails(s, p, k)
      PROVE  ArenaInv'
  BY <1>4, FillFailsInv
<1>5. ASSUME NEW s \in Slots, NEW k \in 1 .. 2, NEW keep \in 1 .. k, DecodeStep(s, k, keep)
      PROVE  ArenaInv'
  BY <1>5, DecodeStepInv
<1>6. ASSUME NEW s \in Slots, NEW ctx \in 1 .. MaxCtx, GrowStart(s, ctx) PROVE ArenaInv'
  BY <1>6, GrowBookkeepingInv
<1>7. CASE GrowKeep \/ GrowDone
  BY <1>7, GrowBookkeepingInv
<1>8. CASE GrowInPlace \/ GrowRelocate \/ GrowAround \/ GrowAfterAround
  BY <1>8, GrowInPlaceInv, GrowRelocateInv, GrowAroundInv, GrowAfterAroundInv
<1>9. ASSUME NEW s \in Slots, SlideDown(s) \/ SlideUp(s) PROVE ArenaInv'
  BY <1>9, SlideDownInv, SlideUpInv
<1>10. CASE SlideFails \/ RelocateFails
  BY <1>10, SlideFailsInv, RelocateFailsInv
<1>11. CASE CompactStart \/ CompactStore \/ CompactDone
  BY <1>11, StartInv, CompactStoreInv, CompactDoneInv
<1>12. CASE LendStart \/ LendSave \/ PrefillPass \/ EndLend
  BY <1>12, StartInv, LendSaveInv, PrefillPassInv, EndLendInv
<1>13. ASSUME NEW rec \in swapped, EndLendFails(rec) PROVE ArenaInv'
  BY <1>13, EndLendInv
<1>14. CASE AbortAll
  BY <1>14, AbortAllInv
<1>15. CASE UNCHANGED vars
  BY <1>15, QuietFrame DEF vars, ArenaInv, TypeOK, RegionsDisjoint, CapsPositive, FreeInv, TaskInv,
     MoveInv, Moving, FreeRuns, Owned, End, GExtra, Extra, PackedRun
<1> QED
  BY <1>1, <1>2, <1>3, <1>4, <1>5, <1>6, <1>7, <1>8, <1>9, <1>10, <1>11, <1>12, <1>13, <1>14,
     <1>15 DEF Next

\* The arena's inductive invariant holds for every number of slots and stores,
\* every ratio, store size and lent end, and every copy that may fail.
THEOREM ArenaInvariant == Spec => []ArenaInv
<1>1. ArenaInv /\ [Next]_vars => ArenaInv'
  BY NextInv
<1> QED
  BY InitInv, <1>1, PTL DEF Spec

\* Every variable keeps its type (KvArena, StreamKv, CompRegion).
THEOREM TypeCorrect == Spec => []TypeOK
<1>1. ArenaInv => TypeOK
  BY DEF ArenaInv
<1> QED
  BY ArenaInvariant, <1>1, PTL

\* No two live slots ever hold the same row and no region leaves its store: in
\* every state of every grow, compaction and loan, whichever copy fails
\* (grow_inner, compact_store_around, compact_stores_inner, lend).
THEOREM Disjoint == Spec => []RegionsDisjoint
<1>1. ArenaInv => RegionsDisjoint
  BY DEF ArenaInv
<1> QED
  BY ArenaInvariant, <1>1, PTL

\* Between calls the free lists are exactly the rows no live slot holds: no
\* call, and no failed copy in one, leaks a row or frees a held one (carve,
\* give_back, rebuild_free_lists).
THEOREM FreeListExact == Spec => []FreeExact
<1>1. ArenaInv => FreeExact
  BY DEF ArenaInv, FreeExact, FreeInv, Moving, Quiet
<1> QED
  BY ArenaInvariant, <1>1, PTL

(***************************************************************************)
(* The rows of the streams                                                 *)
(***************************************************************************)
\* Nothing is moved while the ends are lent, and the host copies are of lent
\* rows, one per region.
RecordsInv ==
  /\ lent \/ swapped = {}
  /\ lent => Quiet
  /\ \A rec \in swapped : rec.base <= rec.lo /\ LentLo(rec.si) <= rec.lo
  /\ \A rec, old \in swapped : rec.slot = old.slot /\ rec.si = old.si => rec = old

RowsInv == RowsIntact /\ RowsTrackPosition /\ RecordsInv

\* row i of the region can be read back, in place or from its host copy
Readable(s, si, i) ==
  IF IsLent(reg[s][si].base + i, si) THEN SavedRow(s, si, i) ELSE InPlace(s, si, i)

\* every row of the region is where the region says it is
Clean(s, si) ==
  \A i \in 0 .. (reg[s][si].n - 1) : data[si][reg[s][si].base + i] = <<s, i>>

\* While nothing is lent, that is what RowsIntact says.
LEMMA UnlentRows ==
  ASSUME ~ lent
  PROVE  RowsIntact <=> \A s \in live \ hurt, si \in Stores : Clean(s, si)
BY DEF RowsIntact, IsLent, InPlace, Clean

\* ... also after a step that leaves nothing lent.
LEMMA UnlentRowsNext ==
  ASSUME ~ lent', \A s \in live' \ hurt', si \in Stores : Clean(s, si)'
  PROVE  RowsIntact'
BY DEF RowsIntact, IsLent, InPlace, Clean

\* The rows of a region are rows of its store and of nobody else.
LEMMA RowPlaces ==
  ASSUME ArenaInv, NEW s \in live, NEW si \in Stores, NEW i \in 0 .. (reg[s][si].n - 1)
  PROVE  /\ s \in Slots /\ i \in Nat /\ reg[s][si].base \in Nat /\ reg[s][si].n \in Nat
         /\ reg[s][si].base + i \in Owned(s, si)
         /\ reg[s][si].base + i \in Rows(si)
         /\ \A t \in live : t # s => reg[s][si].base + i \notin Owned(t, si)
<1> USE DEF ArenaInv
<1>1. s \in Slots
  BY DEF TypeOK
<1>2. /\ reg[s][si].base \in Nat /\ reg[s][si].cap \in Nat /\ reg[s][si].n \in Nat
      /\ reg[s][si].n <= reg[s][si].cap /\ End(s, si) = reg[s][si].base + reg[s][si].cap
  BY <1>1, RegionFields DEF RegionsDisjoint
<1>3. reg[s][si].base + i \in Owned(s, si)
  BY <1>2 DEF Owned
<1> QED
  BY <1>1, <1>2, <1>3, OwnedApart

\* A step that leaves a region's rows, and the host copies, as they are keeps
\* its rows readable.
LEMMA FrameRows ==
  ASSUME ArenaInv, NEW s \in live, s \in live', NEW si \in Stores, NEW i \in 0 .. (reg[s][si].n - 1),
         reg'[s][si].base = reg[s][si].base, reg'[s][si].n = reg[s][si].n,
         UNCHANGED <<lent, swapped>>,
         ~ IsLent(reg[s][si].base + i, si) =>
            data'[si][reg[s][si].base + i] = data[si][reg[s][si].base + i],
         Readable(s, si, i)
  PROVE  Readable(s, si, i)'
<1> DEFINE r == reg[s][si].base + i
<1>1. IsLent(r, si)' = IsLent(r, si)
  BY DEF IsLent
<1>2. CASE ~ IsLent(r, si)
  BY <1>1, <1>2 DEF Readable, InPlace
<1>3. CASE IsLent(r, si)
  <2>1. PICK rec \in swapped :
          /\ rec.si = si /\ Restorable(rec) /\ rec.slot = s
          /\ r \in rec.lo .. (rec.lo + rec.n - 1) /\ rec.img[r] = <<s, i>>
    BY <1>3 DEF Readable, SavedRow
  <2>2. Restorable(rec)'
    BY <2>1 DEF Restorable, LiveEnd
  <2>3. reg'[s][si].base + i = r
    OBVIOUS
  <2> HIDE DEF r
  <2>4. SavedRow(s, si, i)'
    BY <2>1, <2>2, <2>3 DEF SavedRow
  <2> QED
    BY <1>1, <1>3, <2>4 DEF Readable, r
<1> QED
  BY <1>2, <1>3

\* Steps that change no region's rows, no copy and no live slot.
LEMMA QuietRows ==
  ASSUME ArenaInv, RowsInv, UNCHANGED <<live, pos, data, lent, swapped, hurt>>,
         lent' => Quiet',
         \A s \in live, si \in Stores :
            reg'[s][si].base = reg[s][si].base /\ reg'[s][si].n = reg[s][si].n
  PROVE  RowsInv'
<1> USE DEF RowsInv
<1>1. RowsIntact'
  <2> SUFFICES ASSUME NEW s \in live \ hurt, NEW si \in Stores, NEW i \in 0 .. (reg[s][si].n - 1)
               PROVE  Readable(s, si, i)'
    BY DEF RowsIntact, Readable
  <2>1. Readable(s, si, i)
    BY DEF RowsIntact, Readable
  <2> QED
    BY <2>1, FrameRows
<1>2. RowsTrackPosition'
  BY DEF RowsTrackPosition
<1>3. RecordsInv'
  BY DEF RecordsInv
<1> QED
  BY <1>1, <1>2, <1>3

LEMMA BookkeepingRows ==
  ASSUME ArenaInv, RowsInv,
         \/ \E s \in Slots, ctx \in 1 .. MaxCtx : GrowStart(s, ctx)
         \/ GrowKeep \/ GrowAround \/ GrowDone \/ CompactStart \/ CompactStore \/ CompactDone
         \/ LendStart
  PROVE  RowsInv'
<1>1. UNCHANGED <<live, pos, reg, data, lent, swapped, hurt>>
  BY DEF GrowStart, GrowKeep, GrowAround, GrowDone, CompactStart, CompactStore, CompactDone, LendStart
<1>2. ~ lent
  BY DEF RowsInv, RecordsInv, Quiet, GrowStart, GrowKeep, GrowAround, GrowDone, CompactStart,
         CompactStore, CompactDone, LendStart, Growing, Placed, Moving
<1> QED
  BY <1>1, <1>2, QuietRows

\* A region that takes the rows after it keeps its own.
LEMMA ExtendRows ==
  ASSUME ArenaInv, RowsInv, GrowInPlace \/ GrowAfterAround
  PROVE  RowsInv'
<1> USE DEF ArenaInv
<1>1. task.si \in Stores /\ GSlot \in live /\ GSlot \in Slots
  BY DEF GrowInPlace, Growing, GrowAfterAround, TaskInv, GSlot, TypeOK, Placed, Moving
<1>2. /\ UNCHANGED <<live, pos, data, lent, swapped, hurt>>
      /\ reg' = [reg EXCEPT ![GSlot][task.si] = WithCap(GSlot, task.si, Need(task.ctx, task.si))]
  BY DEF GrowInPlace, ExtendInPlace, GrowAfterAround
<1>3. ~ lent
  BY DEF RowsInv, RecordsInv, Quiet, GrowInPlace, GrowAfterAround, Growing, Placed, Moving
<1>4. \A s \in live, si \in Stores :
        reg'[s][si].base = reg[s][si].base /\ reg'[s][si].n = reg[s][si].n
  BY <1>1, <1>2 DEF TypeOK, WithCap, Region
<1> QED
  BY <1>2, <1>3, <1>4, QuietRows

\* A move takes every row along, and touches no other region's row.
LEMMA MovedRow ==
  ASSUME NEW si \in Stores, NEW d \in Contents(si), NEW from \in Nat, NEW to \in Nat, NEW n \in Nat,
         to + n <= RowsCap[si]
  PROVE  /\ \A i \in 0 .. (n - 1) : MoveRows(d, from, to, n)[to + i] = d[from + i]
         /\ \A r \in Rows(si) : r \notin to .. (to + n - 1) /\ r \notin from .. (from + n - 1)
              => MoveRows(d, from, to, n)[r] = d[r]
<1>1. DOMAIN d = Rows(si)
  BY DEF Contents
<1>2. ASSUME NEW i \in 0 .. (n - 1)
      PROVE  MoveRows(d, from, to, n)[to + i] = d[from + i]
  <2>1. to + i \in Rows(si) /\ to + i \in to .. (to + n - 1) /\ (to + i) - to + from = from + i
    BY ArenaAssumption DEF Rows
  <2> QED
    BY <1>1, <2>1 DEF MoveRows
<1> QED
  BY <1>1, <1>2 DEF MoveRows

LEMMA MoveRowsKept ==
  ASSUME ArenaInv, ArenaInv', RowsInv, ~ lent, NEW s \in live, NEW si \in Stores, NEW nb \in Nat,
         UNCHANGED <<live, pos, lent, swapped, hurt>>,
         reg'[s][si].base = nb, reg'[s][si].n = reg[s][si].n,
         \A t \in live, sj \in Stores : ~ (t = s /\ sj = si) => reg'[t][sj] = reg[t][sj],
         \/ nb = reg[s][si].base /\ data' = data
         \/ data' = [data EXCEPT ![si] = MoveRows(data[si], reg[s][si].base, nb, reg[s][si].n)]
  PROVE  RowsInv'
<1> DEFINE from == reg[s][si].base
           n == reg[s][si].n
<1>1. /\ s \in Slots /\ from \in Nat /\ n \in Nat /\ n <= reg[s][si].cap /\ reg[s][si].cap \in Nat
      /\ Owned(s, si) = from .. (from + reg[s][si].cap - 1)
  <2>1. s \in Slots
    BY DEF ArenaInv, TypeOK
  <2> QED
    BY <2>1, RegionFields DEF ArenaInv, RegionsDisjoint, Owned
<1>2. /\ n <= reg'[s][si].cap /\ reg'[s][si].cap \in Nat /\ nb + reg'[s][si].cap <= RowsCap[si]
      /\ \A t \in live : t # s => \/ nb + reg'[s][si].cap <= reg[t][si].base
                                  \/ End(t, si) <= nb
  <2>1. reg'[s][si].cap \in Nat
    BY <1>1 DEF ArenaInv, TypeOK
  <2>2. n <= reg'[s][si].cap /\ nb + reg'[s][si].cap <= RowsCap[si]
    BY DEF ArenaInv, RegionsDisjoint, End
  <2>3. ASSUME NEW t \in live, t # s
        PROVE  nb + reg'[s][si].cap <= reg[t][si].base \/ End(t, si) <= nb
    <3>1. End(s, si)' <= reg'[t][si].base \/ End(t, si)' <= reg'[s][si].base
      BY <2>3 DEF ArenaInv, RegionsDisjoint
    <3>2. reg'[t][si] = reg[t][si]
      BY <2>3
    <3> QED
      BY <3>1, <3>2 DEF End
  <2> QED
    BY <2>1, <2>2, <2>3
<1>3. nb + n <= RowsCap[si]
  BY <1>1, <1>2, ArenaAssumption
<1>4. data[si] \in Contents(si) /\ data = [sj \in Stores |-> data[sj]]
  BY DEF ArenaInv, TypeOK, Contents
<1>5. \A t \in live \ hurt, sj \in Stores : Clean(t, sj)
  BY UnlentRows DEF RowsInv
<1>6. ASSUME NEW t \in live \ hurt, NEW sj \in Stores PROVE Clean(t, sj)'
  <2> SUFFICES ASSUME NEW i \in 0 .. (reg'[t][sj].n - 1)
               PROVE  data'[sj][reg'[t][sj].base + i] = <<t, i>>
    BY DEF Clean
  <2>1. CASE sj # si
    <3>1. reg'[t][sj] = reg[t][sj] /\ data'[sj] = data[sj]
      BY <1>4, <2>1
    <3> QED
      BY <1>5, <3>1 DEF Clean
  <2>2. CASE sj = si /\ t # s
    <3>1. reg'[t][si] = reg[t][si]
      BY <2>2
    <3>2. i \in 0 .. (reg[t][si].n - 1) /\ data[si][reg[t][si].base + i] = <<t, i>>
      BY <1>5, <2>2, <3>1 DEF Clean
    <3> DEFINE r == reg[t][si].base + i
    <3>3. /\ r \in Rows(si) /\ r \in Owned(t, si) /\ r \notin Owned(s, si)
          /\ reg[t][si].base \in Nat
      <4>1. t \in live /\ s # t
        BY <1>6, <2>2
      <4> QED
        BY <3>2, <4>1, RowPlaces
    <3>4. r \notin from .. (from + n - 1)
      <4> HIDE DEF r
      <4>1. r \notin from .. (from + reg[s][si].cap - 1)
        BY <1>1, <3>3
      <4> HIDE DEF from, n
      <4>2. \A x : x \in from .. (from + n - 1) => x \in from .. (from + reg[s][si].cap - 1)
        BY <1>1
      <4> QED
        BY <4>1, <4>2, Zenon
    <3>5. r \notin nb .. (nb + n - 1)
      <4>1. r < End(t, si) /\ reg[t][si].base <= r /\ r \in Int /\ End(t, si) \in Int
        <5>1. t \in Slots
          BY DEF ArenaInv, TypeOK
        <5> QED
          BY <5>1, <3>3, RegionFields DEF Owned, ArenaInv
      <4>2. nb + reg'[s][si].cap <= reg[t][si].base \/ End(t, si) <= nb
        BY <1>2, <2>2
      <4> HIDE DEF r, n
      <4> QED
        BY <1>1, <1>2, <3>3, <4>1, <4>2
    <3>6. data'[si][r] = data[si][r]
      <4>1. CASE data' = data
        BY <4>1
      <4>2. CASE data' = [data EXCEPT ![si] = MoveRows(data[si], from, nb, n)]
        <5> HIDE DEF r, from, n
        <5>1. MoveRows(data[si], from, nb, n)[r] = data[si][r]
          BY <1>1, <1>3, <1>4, <3>3, <3>4, <3>5, MovedRow
        <5>2. data'[si] = MoveRows(data[si], from, nb, n)
          BY <1>4, <4>2
        <5> QED
          BY <5>1, <5>2
      <4> QED
        BY <4>1, <4>2
    <3> QED
      BY <2>2, <3>1, <3>2, <3>6
  <2>3. CASE sj = si /\ t = s
    <3>1. i \in 0 .. (n - 1) /\ data[si][from + i] = <<s, i>>
      BY <1>5, <2>3 DEF Clean
    <3>2. data'[si][nb + i] = data[si][from + i]
      <4>1. CASE nb = from /\ data' = data
        BY <4>1
      <4>2. CASE data' = [data EXCEPT ![si] = MoveRows(data[si], from, nb, n)]
        <5> HIDE DEF from, n
        <5>1. MoveRows(data[si], from, nb, n)[nb + i] = data[si][from + i]
          BY <1>1, <1>3, <1>4, <3>1, MovedRow
        <5>2. data'[si] = MoveRows(data[si], from, nb, n)
          BY <1>4, <4>2
        <5> QED
          BY <5>1, <5>2
      <4> QED
        BY <4>1, <4>2
    <3> QED
      BY <2>3, <3>1, <3>2
  <2> QED
    BY <2>1, <2>2, <2>3
<1>7. RowsIntact'
  BY <1>6, UnlentRowsNext
<1>8. RowsTrackPosition'
  BY <1>1 DEF RowsInv, RowsTrackPosition
<1>9. RecordsInv'
  BY DEF RowsInv, RecordsInv
<1> QED
  BY <1>7, <1>8, <1>9 DEF RowsInv

LEMMA SlideRows ==
  ASSUME ArenaInv, ArenaInv', RowsInv, NEW s \in Slots, SlideDown(s) \/ SlideUp(s)
  PROVE  RowsInv'
<1>1. Moving /\ s \in Todo
  BY DEF SlideDown, MovesDown, SlideUp, MovesUp, Todo
<1>2. MoveFacts(s)
  BY <1>1, MovingFacts
<1>3. PICK nb \in Nat : MoveRegion(s, nb)
  <2>1. task.next \in Nat /\ task.top - reg[s][task.si].cap \in Nat
    BY <1>2 DEF MoveFacts
  <2> QED
    BY <2>1 DEF SlideDown, SlideUp
<1>4. s \in live /\ task.si \in Stores
  BY <1>2 DEF MoveFacts
<1>5. ~ lent
  BY <1>1 DEF Moving, RowsInv, RecordsInv, Quiet
<1>6. /\ reg' = [reg EXCEPT ![s][task.si] = Region(nb, reg[s][task.si].cap, reg[s][task.si].n)]
      /\ UNCHANGED <<live, pos, lent, swapped, hurt>>
  BY <1>3 DEF MoveRegion
<1>7. /\ reg'[s][task.si].base = nb /\ reg'[s][task.si].n = reg[s][task.si].n
      /\ \A t \in live, sj \in Stores : ~ (t = s /\ sj = task.si) => reg'[t][sj] = reg[t][sj]
  BY <1>4, <1>6 DEF ArenaInv, TypeOK, Region
<1>8. \/ nb = reg[s][task.si].base /\ data' = data
      \/ data' = [data EXCEPT ![task.si] =
                    MoveRows(data[task.si], reg[s][task.si].base, nb, reg[s][task.si].n)]
  BY <1>3 DEF MoveRegion
<1> QED
  BY <1>4, <1>5, <1>6, <1>7, <1>8, MoveRowsKept

LEMMA RelocateRows ==
  ASSUME ArenaInv, ArenaInv', RowsInv, GrowRelocate
  PROVE  RowsInv'
<1> DEFINE si == task.si
<1>1. PICK nb \in AllRows :
         /\ RelocateTo(nb)
         /\ data' = [data EXCEPT ![si] = MoveRows(@, reg[GSlot][si].base, nb, reg[GSlot][si].n)]
         /\ reg' = [reg EXCEPT ![GSlot][si] = Region(nb, Need(task.ctx, si), reg[GSlot][si].n)]
         /\ UNCHANGED <<live, pos, lent, swapped, hurt>>
  BY DEF GrowRelocate
<1>2. nb \in Nat
  BY ArenaAssumption DEF AllRows, Rows
<1>3. si \in Stores /\ GSlot \in live /\ GSlot \in Slots /\ ~ lent
  BY <1>1 DEF RelocateTo, Growing, ArenaInv, TaskInv, GSlot, TypeOK, RowsInv, RecordsInv, Quiet
<1>4. /\ reg'[GSlot][si].base = nb /\ reg'[GSlot][si].n = reg[GSlot][si].n
      /\ \A t \in live, sj \in Stores : ~ (t = GSlot /\ sj = si) => reg'[t][sj] = reg[t][sj]
  BY <1>1, <1>3 DEF ArenaInv, TypeOK, Region
<1>5. data' = [data EXCEPT ![si] = MoveRows(data[si], reg[GSlot][si].base, nb, reg[GSlot][si].n)]
  BY <1>1
<1> HIDE DEF si
<1> QED
  BY <1>1, <1>2, <1>3, <1>4, <1>5, MoveRowsKept

\* A copy that fails has overwritten rows of the moving region at most: they
\* are at the place it moves to, which is nobody else's.
LEMMA MoveFailsRows ==
  ASSUME ArenaInv, RowsInv, ~ lent, task.si \in Stores, NEW s \in live, NEW nb \in Nat, NEW k \in Nat,
         MoveFails(s, nb, k),
         \A t \in live : t # s => \/ nb + reg[s][task.si].n <= reg[t][task.si].base
                                  \/ End(t, task.si) <= nb
  PROVE  RowsInv'
<1> DEFINE si == task.si
           from == reg[s][si].base
           n == reg[s][si].n
           to == Copied(from, nb, n, k)
<1>1. /\ UNCHANGED <<live, pos, reg, lent, swapped>>
      /\ k \in 0 .. n
      /\ data' = [data EXCEPT ![si] = PartMove(data[si], from, nb, n, k)]
      /\ hurt' = IF to \cap (from .. (from + n - 1)) = {} THEN hurt ELSE hurt \cup {s}
  BY DEF MoveFails
<1>2. s \in Slots /\ from \in Nat /\ n \in Nat /\ si \in Stores
  <2>1. s \in Slots
    BY DEF ArenaInv, TypeOK
  <2> QED
    BY <2>1, RegionFields DEF ArenaInv
<1>3. to \subseteq nb .. (nb + n - 1)
  <2> HIDE DEF from, n
  <2> QED
    BY <1>1, <1>2 DEF Copied
<1>4. data[si] \in Contents(si) /\ data = [sj \in Stores |-> data[sj]]
  BY DEF ArenaInv, TypeOK, Contents
<1>5. \A r \in Rows(si) : r \notin to => data'[si][r] = data[si][r]
  <2>1. data'[si] = PartMove(data[si], from, nb, n, k)
    BY <1>1, <1>4
  <2> QED
    BY <1>4, <2>1 DEF PartMove, Contents
<1>6. \A t \in live \ hurt, sj \in Stores : Clean(t, sj)
  BY UnlentRows DEF RowsInv
<1>7. ASSUME NEW t \in live' \ hurt', NEW sj \in Stores PROVE Clean(t, sj)'
  <2>1. t \in live \ hurt /\ (t = s => to \cap (from .. (from + n - 1)) = {})
    BY <1>1, <1>7
  <2> SUFFICES ASSUME NEW i \in 0 .. (reg[t][sj].n - 1)
               PROVE  data'[sj][reg[t][sj].base + i] = <<t, i>>
    BY <1>1 DEF Clean
  <2>2. data[sj][reg[t][sj].base + i] = <<t, i>>
    BY <1>6, <2>1 DEF Clean
  <2>3. CASE sj # si
    BY <1>1, <1>4, <2>2, <2>3
  <2>4. CASE sj = si
    <3> DEFINE r == reg[t][si].base + i
    <3>1. r \in Rows(si) /\ r \in Owned(t, si) /\ i \in Nat
      BY <2>1, <2>4, RowPlaces
    <3>2. r \notin to
      <4>1. CASE t = s
        <5>1. r \in from .. (from + n - 1)
          BY <1>2, <2>4, <3>1, <4>1
        <5> HIDE DEF r, to
        <5> QED
          BY <2>1, <4>1, <5>1
      <4>2. CASE t # s
        <5>1. t \in Slots
          BY <2>1 DEF ArenaInv, TypeOK
        <5>2. r < End(t, si) /\ reg[t][si].base <= r /\ r \in Int /\ End(t, si) \in Int
              /\ reg[t][si].base \in Int
          BY <1>2, <5>1, <3>1, RegionFields DEF Owned, ArenaInv
        <5>3. nb + n <= reg[t][si].base \/ End(t, si) <= nb
          BY <2>1, <4>2
        <5> HIDE DEF r, n, to
        <5> QED
          BY <1>2, <1>3, <5>2, <5>3
      <4> QED
        BY <4>1, <4>2
    <3> HIDE DEF r, to
    <3>3. data'[si][r] = data[si][r]
      BY <1>5, <3>1, <3>2
    <3> QED
      BY <2>2, <2>4, <3>3 DEF r
  <2> QED
    BY <2>3, <2>4
<1>8. RowsIntact'
  BY <1>1, <1>7, UnlentRowsNext
<1>9. RowsTrackPosition' /\ RecordsInv'
  BY <1>1 DEF RowsInv, RowsTrackPosition, RecordsInv
<1> QED
  BY <1>8, <1>9 DEF RowsInv

LEMMA SlideFailsRows ==
  ASSUME ArenaInv, RowsInv, SlideFails
  PROVE  RowsInv'
<1> DEFINE si == task.si
<1>1. PICK s \in live, k \in 0 .. MaxCtx :
        \/ MovesDown(s) /\ MoveFails(s, task.next, k)
        \/ MovesUp(s) /\ MoveFails(s, task.top - reg[s][task.si].cap, k)
  BY DEF SlideFails
<1>2. Moving /\ s \in Todo /\ k \in Nat /\ task.si \in Stores /\ ~ lent
  BY <1>1, ArenaAssumption DEF MovesDown, MovesUp, Todo, Moving, RowsInv, RecordsInv, Quiet
<1>3. MoveFacts(s)
  BY <1>2, MovingFacts
<1>4. task.next \in Nat /\ task.top - reg[s][si].cap \in Nat
  BY <1>3 DEF MoveFacts
<1>5. ASSUME NEW t \in live, t # s
      PROVE  /\ t \in Slots /\ reg[t][si].base \in Nat /\ End(t, si) \in Nat
             /\ End(t, si) = reg[t][si].base + reg[t][si].cap /\ reg[t][si].cap \in Nat
             /\ reg[t][si].cap >= 1
             /\ End(s, si) <= reg[t][si].base \/ End(t, si) <= reg[s][si].base
             /\ t \notin Todo => End(t, si) <= task.next \/ task.top <= reg[t][si].base
  <2>1. t \in Slots
    BY DEF ArenaInv, TypeOK
  <2>2. /\ reg[t][si].base \in Nat /\ End(t, si) \in Nat
        /\ End(t, si) = reg[t][si].base + reg[t][si].cap /\ reg[t][si].cap \in Nat
    BY <1>2, <2>1, RegionFields DEF ArenaInv
  <2>3. t \notin Todo => End(t, si) <= task.next \/ task.top <= reg[t][si].base
    BY <1>2 DEF ArenaInv, MoveInv, Todo
  <2> QED
    BY <1>2, <1>5, <2>1, <2>2, <2>3 DEF ArenaInv, RegionsDisjoint, CapsPositive
<1>6. CASE MovesDown(s) /\ MoveFails(s, task.next, k)
  <2>1. \A t \in live : t # s => \/ task.next + reg[s][si].n <= reg[t][si].base
                                 \/ End(t, si) <= task.next
    <3> SUFFICES ASSUME NEW t \in live, t # s
                 PROVE  task.next + reg[s][si].n <= reg[t][si].base \/ End(t, si) <= task.next
      OBVIOUS
    <3>1. CASE t \in task.low
      <4>1. reg[s][si].base <= reg[t][si].base
        BY <1>6, <3>1 DEF MovesDown
      <4> QED
        BY <1>3, <1>5, <4>1 DEF MoveFacts
    <3>2. CASE t \in task.high
      <4>1. End(s, si) <= reg[t][si].base
        BY <1>2, <1>6, <3>2 DEF ArenaInv, MoveInv, MovesDown
      <4> QED
        BY <1>3, <1>5, <4>1 DEF MoveFacts
    <3>3. CASE t \notin Todo
      BY <1>3, <1>5, <3>3 DEF MoveFacts
    <3> QED
      BY <3>1, <3>2, <3>3 DEF Todo
  <2> QED
    BY <1>2, <1>4, <1>6, <2>1, MoveFailsRows
<1>7. CASE MovesUp(s) /\ MoveFails(s, task.top - reg[s][task.si].cap, k)
  <2> DEFINE nb == task.top - reg[s][si].cap
  <2>1. \A t \in live : t # s => nb + reg[s][si].n <= reg[t][si].base \/ End(t, si) <= nb
    <3> SUFFICES ASSUME NEW t \in live, t # s
                 PROVE  nb + reg[s][si].n <= reg[t][si].base \/ End(t, si) <= nb
      OBVIOUS
    <3>1. CASE t \in Todo
      <4>1. reg[t][si].base <= reg[s][si].base
        BY <1>7, <3>1 DEF MovesUp, Todo
      <4> QED
        BY <1>3, <1>5, <4>1 DEF MoveFacts
    <3>2. CASE t \notin Todo
      BY <1>3, <1>5, <3>2 DEF MoveFacts
    <3> QED
      BY <3>1, <3>2
  <2>2. nb \in Nat /\ MoveFails(s, nb, k)
    BY <1>4, <1>7
  <2> HIDE DEF nb
  <2> QED
    BY <1>2, <2>1, <2>2, MoveFailsRows
<1> QED
  BY <1>1, <1>6, <1>7

LEMMA RelocateFailsRows ==
  ASSUME ArenaInv, RowsInv, RelocateFails
  PROVE  RowsInv'
<1> DEFINE si == task.si
           need == Need(task.ctx, task.si)
<1>1. PICK nb \in AllRows, k \in 0 .. MaxCtx : RelocateTo(nb) /\ MoveFails(GSlot, nb, k)
  BY DEF RelocateFails
<1>2. nb \in Nat /\ k \in Nat
  BY <1>1, ArenaAssumption DEF AllRows, Rows
<1>3. /\ si \in Stores /\ GSlot \in live /\ task.slot \in live /\ GSlot \in Slots /\ ~ Moving /\ ~ lent
      /\ GExtra > 0 /\ Window(free[si], nb, need)
  BY <1>1 DEF RelocateTo, Growing, ArenaInv, TaskInv, GSlot, TypeOK, Moving, FirstFit, RowsInv,
              RecordsInv, Quiet
<1>4. /\ need \in Nat /\ need >= 1 /\ GExtra = need - reg[GSlot][si].cap
  BY <1>3, GrowNeed DEF ArenaInv
<1>5. reg[GSlot][si].cap \in Nat /\ reg[GSlot][si].n \in Nat /\ reg[GSlot][si].n <= reg[GSlot][si].cap
  BY <1>3, RegionFields DEF ArenaInv, RegionsDisjoint
<1>6. free[si] = FreeRuns(si)
  BY <1>3 DEF ArenaInv, FreeInv
<1> HIDE DEF need, si
<1>7. ASSUME NEW t \in live
      PROVE  nb + reg[GSlot][si].n <= reg[t][si].base \/ End(t, si) <= nb
  <2>1. (nb .. (nb + need - 1)) \cap Owned(t, si) = {}
    BY <1>2, <1>3, <1>4, <1>6, WindowFree DEF ArenaInv
  <2>2. nb + need <= reg[t][si].base \/ End(t, si) <= nb
    BY <1>2, <1>3, <1>4, <2>1, ApartFromRegion DEF ArenaInv
  <2>3. t \in Slots
    BY DEF ArenaInv, TypeOK
  <2>4. reg[t][si].base \in Nat
    BY <1>3, <2>3, RegionFields DEF ArenaInv
  <2> QED
    BY <1>2, <1>3, <1>4, <1>5, <2>2, <2>4
<1> QED
  BY <1>1, <1>2, <1>3, <1>7, MoveFailsRows DEF si

\* A stream's own step writes inside its region only.
LEMMA OwnWrites ==
  ASSUME ArenaInv, RowsInv, ~ lent, NEW s \in live, UNCHANGED <<live, lent, swapped, task, hurt>>,
         \A t \in live, sj \in Stores : t # s => reg'[t][sj] = reg[t][sj] /\ pos'[t] = pos[t],
         \A sj \in Stores : \A r \in Rows(sj) : r \notin Owned(s, sj) => data'[sj][r] = data[sj][r],
         \A sj \in Stores : reg'[s][sj].n = RowsAt(pos'[s], sj),
         \A sj \in Stores : s \notin hurt => Clean(s, sj)'
  PROVE  RowsInv'
<1>1. ASSUME NEW t \in live' \ hurt', NEW sj \in Stores PROVE Clean(t, sj)'
  <2>1. CASE t = s
    BY <1>1, <2>1
  <2>2. CASE t # s
    <3>1. t \in live \ hurt /\ reg'[t][sj] = reg[t][sj]
      BY <1>1, <2>2
    <3> SUFFICES ASSUME NEW i \in 0 .. (reg[t][sj].n - 1)
                 PROVE  data'[sj][reg[t][sj].base + i] = <<t, i>>
      BY <3>1 DEF Clean
    <3>2. data[sj][reg[t][sj].base + i] = <<t, i>>
      BY <3>1, UnlentRows DEF RowsInv, Clean
    <3>3. reg[t][sj].base + i \in Rows(sj) /\ reg[t][sj].base + i \notin Owned(s, sj)
      BY <2>2, <3>1, RowPlaces
    <3> QED
      BY <3>2, <3>3
  <2> QED
    BY <2>1, <2>2
<1>2. RowsIntact'
  BY <1>1, UnlentRowsNext
<1>3. RowsTrackPosition'
  BY DEF RowsInv, RowsTrackPosition
<1>4. RecordsInv'
  BY DEF RowsInv, RecordsInv
<1> QED
  BY <1>2, <1>3, <1>4 DEF RowsInv

\* A prompt of p positions leaves room for its rows in the reservation.
LEMMA FillFits ==
  ASSUME TypeOK, NEW s \in Slots, NEW p \in Nat, HoldsPositions(s, p + 1), NEW si \in Stores
  PROVE  RowsAt(p, si) \in Nat /\ RowsAt(p, si) <= reg[s][si].cap
<1>1. reg[s][si].cap * Ratio[si] >= p + 1
  BY DEF HoldsPositions, ReservedPositions
<1>2. reg[s][si].cap \in Nat
  BY RegionFields
<1>3. CASE Ratio[si] = 1
  BY <1>1, <1>2, <1>3 DEF RowsAt
<1>4. CASE Ratio[si] = 2
  BY <1>1, <1>2, <1>4 DEF RowsAt
<1> QED
  BY <1>3, <1>4, ArenaAssumption

\* Rows written from a region's start, no more than it has.
LEMMA WrittenRows ==
  ASSUME NEW si \in Stores, NEW d \in Contents(si), NEW s \in Slots, NEW lo \in Nat, NEW hi \in Nat,
         NEW i \in Nat
  PROVE  /\ \A r \in Rows(si) : r \notin lo .. (hi - 1) => WriteRows(d, s, lo, hi, i)[r] = d[r]
         /\ \A r \in Rows(si) : r \in lo .. (hi - 1) =>
              WriteRows(d, s, lo, hi, i)[r] = <<s, i + r - lo>>
BY DEF WriteRows, Contents

LEMMA FillRows ==
  ASSUME ArenaInv, RowsInv, NEW s \in Slots, NEW p \in 1 .. MaxCtx,
         Fill(s, p) \/ \E k \in Stores : FillFails(s, p, k)
  PROVE  RowsInv'
<1>1. /\ s \in live /\ ~ lent /\ Fresh(s) /\ HoldsPositions(s, p + 1)
      /\ UNCHANGED <<live, lent, swapped, task, hurt>>
  BY DEF Fill, FillFails
<1>2. p \in Nat
  BY ArenaAssumption
<1>3. ASSUME NEW sj \in Stores
      PROVE  /\ RowsAt(p, sj) \in Nat /\ reg[s][sj].base \in Nat /\ reg[s][sj].cap \in Nat
             /\ RowsAt(p, sj) <= reg[s][sj].cap
             /\ Owned(s, sj) = reg[s][sj].base .. (reg[s][sj].base + reg[s][sj].cap - 1)
             /\ data[sj] \in Contents(sj) /\ reg[s][sj].n = 0
             /\ reg[s][sj].base + reg[s][sj].cap <= RowsCap[sj]
  BY <1>1, <1>2, RegionFields, FillFits
     DEF ArenaInv, Owned, End, TypeOK, Contents, Fresh, RegionsDisjoint
<1> DEFINE b(sj) == reg[s][sj].base
           top(sj) == b(sj) + RowsAt(p, sj)
           written(sj) == WriteRows(data[sj], s, b(sj), top(sj), 0)
<1>4. ASSUME NEW sj \in Stores
      PROVE  /\ \A r \in Rows(sj) : r \notin Owned(s, sj) => written(sj)[r] = data[sj][r]
             /\ \A i \in 0 .. (RowsAt(p, sj) - 1) : written(sj)[b(sj) + i] = <<s, i>>
  <2>1. /\ RowsAt(p, sj) \in Nat /\ b(sj) \in Nat /\ reg[s][sj].cap \in Nat
        /\ RowsAt(p, sj) <= reg[s][sj].cap /\ data[sj] \in Contents(sj) /\ top(sj) \in Nat
        /\ b(sj) .. (top(sj) - 1) \subseteq Owned(s, sj)
    <3>1. /\ RowsAt(p, sj) \in Nat /\ b(sj) \in Nat /\ reg[s][sj].cap \in Nat
          /\ RowsAt(p, sj) <= reg[s][sj].cap /\ data[sj] \in Contents(sj)
          /\ Owned(s, sj) = b(sj) .. (b(sj) + reg[s][sj].cap - 1)
          /\ top(sj) = b(sj) + RowsAt(p, sj)
      BY <1>3
    <3> HIDE DEF b, top
    <3>2. top(sj) \in Nat
      BY <3>1
    <3>3. ASSUME NEW x \in b(sj) .. (top(sj) - 1) PROVE x \in Owned(s, sj)
      <4>1. x \in Int /\ b(sj) <= x /\ x < b(sj) + RowsAt(p, sj)
        BY <3>1, <3>2
      <4>2. x \in b(sj) .. (b(sj) + reg[s][sj].cap - 1)
        BY <3>1, <4>1
      <4> QED BY <3>1, <4>2
    <3>4. b(sj) .. (top(sj) - 1) \subseteq Owned(s, sj)
      BY <3>3
    <3> QED
      BY <3>1, <3>2, <3>4
  <2>2. /\ \A r \in Rows(sj) : r \notin b(sj) .. (top(sj) - 1) => written(sj)[r] = data[sj][r]
        /\ \A r \in Rows(sj) : r \in b(sj) .. (top(sj) - 1) =>
              written(sj)[r] = <<s, 0 + r - b(sj)>>
    <3> HIDE DEF b, top
    <3>1. \A i \in Nat :
            /\ \A r \in Rows(sj) : r \notin b(sj) .. (top(sj) - 1)
                 => WriteRows(data[sj], s, b(sj), top(sj), i)[r] = data[sj][r]
            /\ \A r \in Rows(sj) : r \in b(sj) .. (top(sj) - 1)
                 => WriteRows(data[sj], s, b(sj), top(sj), i)[r] = <<s, i + r - b(sj)>>
      BY <2>1 DEF WriteRows, Contents
    <3> HIDE DEF written
    <3>2. written(sj) = WriteRows(data[sj], s, b(sj), top(sj), 0) /\ 0 \in Nat
      BY DEF written
    <3> QED
      BY <3>1, <3>2
  <2>3. ASSUME NEW i \in 0 .. (RowsAt(p, sj) - 1)
        PROVE  written(sj)[b(sj) + i] = <<s, i>>
    <3>1. b(sj) + i \in b(sj) .. (top(sj) - 1) /\ 0 + (b(sj) + i) - b(sj) = i
      BY <2>1
    <3>2. b(sj) + i \in Rows(sj)
      <4>1. b(sj) + reg[s][sj].cap <= RowsCap[sj] /\ RowsCap[sj] \in Nat
        BY <1>3, ArenaAssumption
      <4> HIDE DEF b, top
      <4> QED
        BY <2>1, <4>1 DEF Rows
    <3> HIDE DEF written, b, top
    <3> QED
      BY <2>2, <3>1, <3>2
  <2> HIDE DEF written
  <2> QED
    BY <2>1, <2>2, <2>3
<1>5. CASE Fill(s, p)
  <2>1. /\ pos' = [pos EXCEPT ![s] = p]
        /\ reg' = [reg EXCEPT ![s] = [si \in Stores |-> WithRows(s, si, RowsAt(p, si))]]
        /\ data' = [si \in Stores |-> written(si)]
    BY <1>5 DEF Fill
  <2>2. /\ pos'[s] = p /\ \A t \in live : t # s => pos'[t] = pos[t]
        /\ \A t \in live, sj \in Stores : t # s => reg'[t][sj] = reg[t][sj]
        /\ \A sj \in Stores : reg'[s][sj].base = b(sj) /\ reg'[s][sj].n = RowsAt(p, sj)
    BY <1>1, <2>1 DEF ArenaInv, TypeOK, WithRows, Region
  <2>3. \A sj \in Stores : data'[sj] = written(sj)
    BY <2>1
  <2> HIDE DEF written
  <2>4. \A sj \in Stores : Clean(s, sj)'
    <3> SUFFICES ASSUME NEW sj \in Stores, NEW i \in 0 .. (reg'[s][sj].n - 1)
                 PROVE  data'[sj][reg'[s][sj].base + i] = <<s, i>>
      BY DEF Clean
    <3>1. reg'[s][sj].base = b(sj) /\ i \in 0 .. (RowsAt(p, sj) - 1)
      BY <2>2
    <3> HIDE DEF b
    <3> QED
      BY <1>4, <2>3, <3>1
  <2>5. \A sj \in Stores : \A r \in Rows(sj) : r \notin Owned(s, sj) => data'[sj][r] = data[sj][r]
    BY <1>4, <2>3
  <2>6. \A sj \in Stores : reg'[s][sj].n = RowsAt(pos'[s], sj)
    BY <2>2
  <2> QED
    BY <1>1, <2>2, <2>4, <2>5, <2>6, OwnWrites
<1>6. CASE \E k \in Stores : FillFails(s, p, k)
  <2>1. PICK k \in Stores : FillFails(s, p, k)
    BY <1>6
  <2>2. /\ UNCHANGED <<pos, reg>>
        /\ data' = [si \in Stores |-> IF si <= k THEN written(si) ELSE data[si]]
    BY <2>1 DEF FillFails
  <2> HIDE DEF written
  <2>3. \A sj \in Stores : data'[sj] = written(sj) \/ data'[sj] = data[sj]
    BY <2>2
  <2>4. \A sj \in Stores : \A r \in Rows(sj) : r \notin Owned(s, sj) => data'[sj][r] = data[sj][r]
    BY <1>4, <2>3
  <2>5. \A sj \in Stores : Clean(s, sj)'
    <3> SUFFICES ASSUME NEW sj \in Stores PROVE Clean(s, sj)'
      OBVIOUS
    <3>1. reg'[s][sj].n = 0
      BY <1>3, <2>2
    <3> QED
      BY <3>1 DEF Clean
  <2>6. \A sj \in Stores : reg'[s][sj].n = RowsAt(pos'[s], sj)
    BY <1>1, <2>2 DEF RowsInv, RowsTrackPosition
  <2> QED
    BY <1>1, <2>2, <2>4, <2>5, <2>6, OwnWrites
<1> QED
  BY <1>5, <1>6

\* The parts of a region that a step reads and writes: the rows before it, the
\* rows it keeps and those it rejects.
LEMMA StepIntervals ==
  ASSUME NEW b \in Nat, NEW n \in Nat, NEW cap \in Nat, NEW keep \in Nat, NEW all \in Nat,
         keep <= all, n + all <= cap, NEW r \in Int, NEW lo, NEW mid, NEW hi,
         lo = b + n, mid = lo + keep, hi = lo + all
  PROVE  /\ r \notin b .. (b + cap - 1) => r \notin mid .. (hi - 1) /\ r \notin lo .. (mid - 1)
         /\ r \in b .. (lo - 1) => r \notin mid .. (hi - 1) /\ r \notin lo .. (mid - 1)
         /\ r \in lo .. (mid - 1) => r \notin mid .. (hi - 1)
OBVIOUS

\* A decode step adds its kept rows after the stream's own; the rejected ones
\* lie behind them, in the region.
LEMMA DecodeRows ==
  ASSUME ArenaInv, RowsInv, NEW s \in Slots, NEW k \in 1 .. 2, NEW keep \in 1 .. k,
         DecodeStep(s, k, keep)
  PROVE  RowsInv'
<1> DEFINE kept(si) == KeptRows(pos[s], k, keep, si)
           all(si) == KeptRows(pos[s], k, k, si)
           lo(si) == LiveEnd(s, si)
           mid(si) == lo(si) + kept(si)
           hi(si) == lo(si) + all(si)
           b(si) == reg[s][si].base
           n(si) == reg[s][si].n
           wr(si) == WriteRows(data[si], s, lo(si), mid(si), n(si))
           R(si) == mid(si) .. (hi(si) - 1)
<1>1. /\ s \in live /\ ~ lent /\ UNCHANGED <<live, lent, swapped, task, hurt>>
      /\ pos' = [pos EXCEPT ![s] = @ + keep]
      /\ reg' = [reg EXCEPT ![s] = [si \in Stores |-> WithRows(s, si, n(si) + kept(si))]]
      /\ data' = [si \in Stores |-> JunkRows(wr(si), R(si))]
      /\ \A si \in Stores : n(si) + all(si) <= reg[s][si].cap
  BY DEF DecodeStep
<1>2. ASSUME NEW si \in Stores
      PROVE  /\ b(si) \in Nat /\ n(si) \in Nat /\ reg[s][si].cap \in Nat
             /\ b(si) + reg[s][si].cap <= RowsCap[si]
             /\ Owned(s, si) = b(si) .. (b(si) + reg[s][si].cap - 1)
             /\ lo(si) = b(si) + n(si) /\ data[si] \in Contents(si)
  BY <1>1, RegionFields DEF ArenaInv, Owned, End, LiveEnd, TypeOK, Contents, RegionsDisjoint
<1>3. ASSUME NEW si \in Stores
      PROVE  /\ kept(si) \in Nat /\ all(si) \in Nat /\ kept(si) <= all(si)
             /\ n(si) + all(si) <= reg[s][si].cap
             /\ n(si) + kept(si) = RowsAt(pos[s] + keep, si)
  <2>1. pos[s] \in Nat /\ k \in Nat /\ keep \in Nat /\ keep \in 0 .. k /\ k \in 0 .. k
        /\ pos[s] + keep \in Nat /\ pos[s] <= pos[s] + keep
    BY DEF ArenaInv, TypeOK
  <2>2. kept(si) \in Nat /\ kept(si) <= all(si)
    BY <2>1, KeptRowsNat
  <2>3. all(si) \in Nat
    BY <2>1, KeptRowsNat
  <2>4. n(si) = RowsAt(pos[s], si)
    BY <1>1 DEF RowsInv, RowsTrackPosition
  <2>5. RowsAt(pos[s], si) \in Nat /\ RowsAt(pos[s] + keep, si) \in Nat
    BY <2>1, RowsAtNat
  <2>6. n(si) + kept(si) = RowsAt(pos[s] + keep, si)
    BY <2>4, <2>5 DEF KeptRows
  <2>7. n(si) + all(si) <= reg[s][si].cap
    BY <1>1
  <2> QED
    BY <2>2, <2>3, <2>6, <2>7
<1>4. /\ pos'[s] = pos[s] + keep /\ \A t \in live : t # s => pos'[t] = pos[t]
      /\ \A t \in live, sj \in Stores : t # s => reg'[t][sj] = reg[t][sj]
      /\ \A sj \in Stores : reg'[s][sj].base = b(sj) /\ reg'[s][sj].n = n(sj) + kept(sj)
  <2> HIDE DEF kept
  <2> QED
    BY <1>1 DEF ArenaInv, TypeOK, WithRows, Region
<1>5. ASSUME NEW si \in Stores, NEW r \in Rows(si)
      PROVE  /\ r \notin Owned(s, si) => data'[si][r] = data[si][r]
             /\ r \in b(si) .. (lo(si) - 1) => data'[si][r] = data[si][r]
             /\ r \in lo(si) .. (mid(si) - 1) => data'[si][r] = <<s, n(si) + r - lo(si)>>
  <2>1. data'[si] = JunkRows(wr(si), R(si))
    BY <1>1
  <2>2. lo(si) \in Nat /\ mid(si) \in Nat /\ n(si) \in Nat /\ data[si] \in Contents(si)
    <3>1. /\ b(si) \in Nat /\ n(si) \in Nat /\ lo(si) = b(si) + n(si) /\ data[si] \in Contents(si)
          /\ mid(si) = lo(si) + kept(si)
      BY <1>2
    <3>2. kept(si) \in Nat
      BY <1>3
    <3> HIDE DEF b, n, lo, mid, kept
    <3> QED
      BY <3>1, <3>2
  <2> HIDE DEF kept, all, lo, n
  <2>3. wr(si) \in Contents(si)
    <3> HIDE DEF mid
    <3> QED
      BY <2>2, WriteRowsType
  <2>4. r \notin R(si) => data'[si][r] = wr(si)[r]
    <3> HIDE DEF wr, R
    <3> QED
      BY <2>1, <2>3 DEF JunkRows, Contents
  <2>5. /\ r \notin lo(si) .. (mid(si) - 1) => wr(si)[r] = data[si][r]
        /\ r \in lo(si) .. (mid(si) - 1) => wr(si)[r] = <<s, n(si) + r - lo(si)>>
    <3> HIDE DEF mid
    <3> QED
      BY <2>2, WrittenRows
  <2>6. /\ r \in Int /\ lo(si) = b(si) + n(si) /\ mid(si) = lo(si) + kept(si)
        /\ hi(si) = lo(si) + all(si) /\ R(si) = mid(si) .. (hi(si) - 1)
        /\ Owned(s, si) = b(si) .. (b(si) + reg[s][si].cap - 1) /\ reg[s][si].cap \in Nat
        /\ b(si) \in Nat
    BY <1>2 DEF Rows
  <2>7. kept(si) \in Nat /\ all(si) \in Nat /\ kept(si) <= all(si) /\ n(si) + all(si) <= reg[s][si].cap
    BY <1>3
  <2> HIDE DEF mid, hi, b, wr, R
  <2>11. /\ r \notin Owned(s, si) => r \notin R(si) /\ r \notin lo(si) .. (mid(si) - 1)
         /\ r \in b(si) .. (lo(si) - 1) => r \notin R(si) /\ r \notin lo(si) .. (mid(si) - 1)
         /\ r \in lo(si) .. (mid(si) - 1) => r \notin R(si)
    <3>1. /\ r \notin b(si) .. (b(si) + reg[s][si].cap - 1) =>
                 r \notin mid(si) .. (hi(si) - 1) /\ r \notin lo(si) .. (mid(si) - 1)
          /\ r \in b(si) .. (lo(si) - 1) =>
                 r \notin mid(si) .. (hi(si) - 1) /\ r \notin lo(si) .. (mid(si) - 1)
          /\ r \in lo(si) .. (mid(si) - 1) => r \notin mid(si) .. (hi(si) - 1)
      <4> DEFINE bb == b(si)
                 nn == n(si)
                 cap == reg[s][si].cap
      <4>1. /\ bb \in Nat /\ nn \in Nat /\ cap \in Nat /\ kept(si) \in Nat /\ all(si) \in Nat
            /\ kept(si) <= all(si) /\ nn + all(si) <= cap /\ r \in Int
            /\ lo(si) = bb + nn /\ mid(si) = lo(si) + kept(si) /\ hi(si) = lo(si) + all(si)
        BY <2>2, <2>6, <2>7
      <4> HIDE DEF bb, nn, cap
      <4>2. /\ r \notin bb .. (bb + cap - 1) =>
                 r \notin mid(si) .. (hi(si) - 1) /\ r \notin lo(si) .. (mid(si) - 1)
            /\ r \in bb .. (lo(si) - 1) =>
                 r \notin mid(si) .. (hi(si) - 1) /\ r \notin lo(si) .. (mid(si) - 1)
            /\ r \in lo(si) .. (mid(si) - 1) => r \notin mid(si) .. (hi(si) - 1)
        BY <4>1, StepIntervals
      <4> QED
        BY <4>2 DEF bb, cap
    <3> QED
      BY <2>6, <3>1
  <2>8. r \notin Owned(s, si) => r \notin R(si) /\ r \notin lo(si) .. (mid(si) - 1)
    BY <2>11
  <2>9. r \in b(si) .. (lo(si) - 1) => r \notin R(si) /\ r \notin lo(si) .. (mid(si) - 1)
    BY <2>11
  <2>10. r \in lo(si) .. (mid(si) - 1) => r \notin R(si)
    BY <2>11
  <2> QED
    BY <2>4, <2>5, <2>8, <2>9, <2>10
<1>6. ASSUME s \notin hurt, NEW si \in Stores PROVE Clean(s, si)'
  <2>a. reg'[s][si].base = b(si) /\ reg'[s][si].n = n(si) + kept(si)
    BY <1>4
  <2> SUFFICES ASSUME NEW i \in 0 .. (n(si) + kept(si) - 1)
               PROVE  data'[si][b(si) + i] = <<s, i>>
    <3> SUFFICES ASSUME NEW i \in 0 .. (reg'[s][si].n - 1)
                 PROVE  data'[si][reg'[s][si].base + i] = <<s, i>>
      BY DEF Clean
    <3>1. i \in 0 .. (n(si) + kept(si) - 1)
      <4>1. n(si) \in Nat /\ kept(si) \in Nat
        BY <1>2, <1>3
      <4> HIDE DEF n, kept
      <4> QED
        BY <2>a, <4>1
    <3> HIDE DEF b, n, kept
    <3> QED
      BY <2>a, <3>1
  <2>1. b(si) + i \in Rows(si)
    <3>1. /\ n(si) + kept(si) <= reg[s][si].cap /\ n(si) \in Nat /\ kept(si) \in Nat
          /\ b(si) \in Nat /\ reg[s][si].cap \in Nat /\ RowsCap[si] \in Nat
          /\ b(si) + reg[s][si].cap <= RowsCap[si]
      <4>1. kept(si) <= all(si) /\ kept(si) \in Nat /\ all(si) \in Nat
            /\ n(si) + all(si) <= reg[s][si].cap
        BY <1>3
      <4>2. b(si) \in Nat /\ reg[s][si].cap \in Nat /\ n(si) \in Nat
            /\ b(si) + reg[s][si].cap <= RowsCap[si]
        BY <1>2
      <4> HIDE DEF b, n, kept, all
      <4> QED
        BY <4>1, <4>2, ArenaAssumption
    <3> HIDE DEF b, n, kept
    <3> QED
      BY <3>1 DEF Rows
  <2>2. /\ b(si) \in Nat /\ n(si) \in Nat /\ lo(si) = b(si) + n(si)
        /\ mid(si) = lo(si) + kept(si) /\ kept(si) \in Nat
    BY <1>2, <1>3
  <2>3. CASE i < n(si)
    <3>1. data[si][b(si) + i] = <<s, i>>
      <4>1. i \in 0 .. (n(si) - 1)
        <5> HIDE DEF n, kept
        <5> QED
          BY <2>2, <2>3
      <4>2. Clean(s, si)
        BY <1>1, <1>6, UnlentRows DEF RowsInv
      <4> QED
        BY <4>1, <4>2 DEF Clean
    <3>2. b(si) + i \in b(si) .. (lo(si) - 1)
      <4> HIDE DEF lo, b, n, kept
      <4> QED
        BY <2>2, <2>3
    <3> HIDE DEF lo, b
    <3> QED
      BY <1>5, <2>1, <3>1, <3>2
  <2>4. CASE i >= n(si)
    <3> HIDE DEF lo, b, n, mid, kept
    <3>1. b(si) + i \in lo(si) .. (mid(si) - 1) /\ n(si) + (b(si) + i) - lo(si) = i
      BY <2>2, <2>4
    <3> QED
      BY <1>5, <2>1, <3>1
  <2> QED
    <3> HIDE DEF n, kept
    <3> QED
      BY <2>2, <2>3, <2>4
<1>7. \A sj \in Stores : reg'[s][sj].n = RowsAt(pos'[s], sj)
  BY <1>3, <1>4
<1>8. \A sj \in Stores : \A r \in Rows(sj) : r \notin Owned(s, sj) => data'[sj][r] = data[sj][r]
  BY <1>5
<1> QED
  BY <1>1, <1>4, <1>6, <1>7, <1>8, OwnWrites

\* A new reservation holds no row and takes no row of another region.
LEMMA ReserveRows ==
  ASSUME ArenaInv, RowsInv, NEW ctx \in 1 .. MaxCtx, Reserve(ctx)
  PROVE  RowsInv'
<1>1. PICK s \in Slots \ live, b \in [Stores -> AllRows] :
        /\ live' = live \cup {s}
        /\ pos' = [pos EXCEPT ![s] = 0]
        /\ reg' = [reg EXCEPT ![s] = [si \in Stores |-> Region(b[si], Need(ctx, si), 0)]]
  BY DEF Reserve
<1>2. UNCHANGED <<data, lent, swapped, task, hurt>>
  BY DEF Reserve
<1>3. /\ pos'[s] = 0 /\ \A si \in Stores : reg'[s][si].n = 0
      /\ \A t \in live : pos'[t] = pos[t] /\ \A si \in Stores : reg'[t][si] = reg[t][si]
  BY <1>1 DEF ArenaInv, TypeOK, Region
<1>4. RowsIntact'
  <2> SUFFICES ASSUME NEW t \in live' \ hurt', NEW si \in Stores, NEW i \in 0 .. (reg'[t][si].n - 1)
               PROVE  Readable(t, si, i)'
    BY DEF RowsIntact, Readable
  <2>1. t # s
    BY <1>3
  <2>2. t \in live /\ t \in live' /\ t \in live \ hurt /\ reg'[t][si] = reg[t][si]
    BY <1>1, <1>2, <1>3, <2>1
  <2>3. i \in 0 .. (reg[t][si].n - 1)
    BY <2>2
  <2>4. Readable(t, si, i)
    BY <2>2, <2>3 DEF RowsInv, RowsIntact, Readable
  <2>5. data'[si][reg[t][si].base + i] = data[si][reg[t][si].base + i]
    BY <1>2
  <2> QED
    BY <1>2, <2>2, <2>3, <2>4, <2>5, FrameRows
<1>5. RowsTrackPosition'
  <2> SUFFICES ASSUME NEW t \in live', NEW si \in Stores
               PROVE  reg'[t][si].n = RowsAt(pos'[t], si)
    BY DEF RowsTrackPosition
  <2>1. CASE t = s
    <3>1. RowsAt(0, si) = 0
      <4>1. CASE Ratio[si] = 1
        BY <4>1 DEF RowsAt
      <4>2. CASE Ratio[si] = 2
        BY <4>2 DEF RowsAt
      <4> QED
        BY <4>1, <4>2, ArenaAssumption
    <3> QED
      BY <1>3, <2>1, <3>1
  <2>2. CASE t # s
    BY <1>1, <1>3, <2>2 DEF RowsInv, RowsTrackPosition
  <2> QED
    BY <2>1, <2>2
<1>6. RecordsInv'
  BY <1>2 DEF RowsInv, RecordsInv, Quiet
<1> QED
  BY <1>4, <1>5, <1>6 DEF RowsInv

\* Forgetting a slot's rows in the host copies keeps one copy per region.
LEMMA ForgetRecords ==
  ASSUME RecordsInv, ArenaInv, NEW S, swapped' = ForgetSaved(S), UNCHANGED <<lent, task>>
  PROVE  RecordsInv'
<1> DEFINE cut(rec) == [rec EXCEPT !.img = Forget(rec.img, S)]
<1>1. \A rec \in swapped : /\ cut(rec).slot = rec.slot /\ cut(rec).si = rec.si
                           /\ cut(rec).base = rec.base /\ cut(rec).lo = rec.lo
  BY DEF ArenaInv, TypeOK, SwapRec
<1>2. \A f \in swapped' : \E rec \in swapped : f = cut(rec)
  BY DEF ForgetSaved
<1> HIDE DEF cut
<1>3. swapped = {} => swapped' = {}
  BY <1>2
<1>4. \A f \in swapped' : f.base <= f.lo /\ LentLo(f.si) <= f.lo
  BY <1>1, <1>2 DEF RecordsInv
<1>5. ASSUME NEW f \in swapped', NEW g \in swapped', f.slot = g.slot, f.si = g.si
      PROVE  f = g
  <2>1. PICK rec \in swapped : f = cut(rec)
    BY <1>2
  <2>2. PICK old \in swapped : g = cut(old)
    BY <1>2
  <2>3. rec.slot = old.slot /\ rec.si = old.si
    BY <1>1, <1>5, <2>1, <2>2
  <2>4. rec = old
    BY <2>3 DEF RecordsInv
  <2> QED
    BY <2>1, <2>2, <2>4
<1> QED
  BY <1>3, <1>4, <1>5 DEF RecordsInv, Quiet

\* A slot that is released takes its own rows and copies along, no other's.
LEMMA ReleaseRows ==
  ASSUME ArenaInv, RowsInv, NEW s \in Slots, Release(s)
  PROVE  RowsInv'
<1>1. /\ s \in live /\ live' = live \ {s} /\ hurt' = hurt \ {s} /\ UNCHANGED <<lent, task>>
      /\ data' = [si \in Stores |-> Forget(data[si], {s})]
      /\ swapped' = ForgetSaved({s})
      /\ pos' = [pos EXCEPT ![s] = 0]
      /\ reg' = [reg EXCEPT ![s] = [si \in Stores |-> Region(0, 0, 0)]]
  BY DEF Release
<1>2. \A t \in live' : /\ t \in live /\ t # s /\ pos'[t] = pos[t]
                       /\ \A si \in Stores : reg'[t][si] = reg[t][si]
  BY <1>1 DEF ArenaInv, TypeOK
<1>3. RowsIntact'
  <2> SUFFICES ASSUME NEW t \in live' \ hurt', NEW si \in Stores, NEW i \in 0 .. (reg'[t][si].n - 1)
               PROVE  Readable(t, si, i)'
    BY DEF RowsIntact, Readable
  <2> DEFINE r == reg[t][si].base + i
  <2>1. t \in live /\ t # s /\ t \in live \ hurt /\ reg'[t][si] = reg[t][si]
        /\ i \in 0 .. (reg[t][si].n - 1)
    BY <1>1, <1>2
  <2>2. Readable(t, si, i)
    BY <2>1 DEF RowsInv, RowsIntact, Readable
  <2>3. r \in Rows(si) /\ r \in AllRows
    BY <2>1, RowPlaces DEF AllRows
  <2>4. CASE ~ IsLent(r, si)
    <3>1. data[si][r] = <<t, i>>
      BY <2>2, <2>4 DEF Readable, InPlace
    <3>2. DOMAIN data[si] = Rows(si) /\ data'[si] = Forget(data[si], {s})
      BY <1>1 DEF ArenaInv, TypeOK
    <3> HIDE DEF r
    <3>3. data'[si][r] = <<t, i>>
      BY <2>1, <2>3, <3>1, <3>2 DEF Forget
    <3> QED
      BY <1>1, <2>1, <2>4, <3>3 DEF Readable, InPlace, IsLent, r
  <2>5. CASE IsLent(r, si)
    <3>1. PICK rec \in swapped :
            /\ rec.si = si /\ Restorable(rec) /\ rec.slot = t
            /\ r \in rec.lo .. (rec.lo + rec.n - 1) /\ rec.img[r] = <<t, i>>
      BY <2>2, <2>5 DEF Readable, SavedRow
    <3> DEFINE f == [rec EXCEPT !.img = Forget(rec.img, {s})]
    <3>2. f \in swapped'
      BY <1>1 DEF ForgetSaved
    <3>3. rec \in SwapRec /\ rec.img \in [AllRows -> Tags]
      BY DEF ArenaInv, TypeOK, SwapRec
    <3>4. f.si = si /\ f.slot = t /\ f.base = rec.base /\ f.lo = rec.lo /\ f.n = rec.n
          /\ f.img = Forget(rec.img, {s})
      BY <3>1, <3>3 DEF SwapRec
    <3> HIDE DEF r, f
    <3>5. f.img[r] = <<t, i>>
      BY <2>1, <2>3, <3>1, <3>3, <3>4 DEF Forget
    <3>6. Restorable(f)'
      BY <1>1, <2>1, <3>1, <3>4 DEF Restorable, LiveEnd
    <3>7. r' = r
      BY <2>1 DEF r
    <3>8. SavedRow(t, si, i)'
      BY <3>1, <3>2, <3>4, <3>5, <3>6, <3>7 DEF SavedRow, r
    <3> QED
      BY <1>1, <2>1, <2>5, <3>8 DEF Readable, IsLent, r
  <2> QED
    BY <2>4, <2>5
<1>4. RowsTrackPosition'
  BY <1>2 DEF RowsInv, RowsTrackPosition
<1>5. RecordsInv'
  BY <1>1, ForgetRecords DEF RowsInv
<1> QED
  BY <1>3, <1>4, <1>5 DEF RowsInv

LEMMA AbortAllRows ==
  ASSUME ArenaInv, RowsInv, AbortAll
  PROVE  RowsInv'
<1>1. live' = {} /\ swapped' = ForgetSaved(Slots) /\ UNCHANGED <<lent, task>>
  BY DEF AbortAll
<1>2. RecordsInv'
  BY <1>1, ForgetRecords DEF RowsInv
<1> QED
  BY <1>1, <1>2 DEF RowsInv, RowsIntact, RowsTrackPosition

(***************************************************************************)
(* The loan                                                                *)
(***************************************************************************)
LEMMA LentLoNat == \A si \in Stores : LentLo(si) \in Nat /\ RowsCap[si] \in Nat
BY ArenaAssumption DEF LentLo

\* What is saved at the start of a loan is every row of a region in the lent end.
LEMMA SavedHolds ==
  ASSUME ArenaInv, NEW si \in Stores, NEW s \in LiveTails(si)
  PROVE  /\ Saved(s, si).slot = s /\ Saved(s, si).si = si /\ Saved(s, si).base = reg[s][si].base
         /\ Saved(s, si).lo = SavedFrom(s, si) /\ SavedFrom(s, si) \in Nat /\ Saved(s, si).n \in Int
         /\ Saved(s, si).lo + Saved(s, si).n = LiveEnd(s, si)
         /\ reg[s][si].base <= SavedFrom(s, si) /\ LentLo(si) <= SavedFrom(s, si)
         /\ \A r \in AllRows : r \in SavedFrom(s, si) .. (LiveEnd(s, si) - 1) =>
              Saved(s, si).img[r] = data[si][r]
<1>1. s \in Slots /\ s \in live
  BY DEF LiveTails, ArenaInv, TypeOK
<1>2. reg[s][si].base \in Nat /\ LiveEnd(s, si) \in Nat /\ LentLo(si) \in Nat
  BY <1>1, RegionFields, LentLoNat DEF ArenaInv
<1>3. /\ SavedFrom(s, si) \in Nat
      /\ reg[s][si].base <= SavedFrom(s, si) /\ LentLo(si) <= SavedFrom(s, si)
  BY <1>2 DEF SavedFrom
<1> DEFINE a == SavedFrom(s, si)
           e == LiveEnd(s, si)
<1>4. a \in Nat /\ e \in Nat
  BY <1>2, <1>3
<1>5. /\ Saved(s, si).slot = s /\ Saved(s, si).si = si /\ Saved(s, si).base = reg[s][si].base
      /\ Saved(s, si).lo = a /\ Saved(s, si).n = e - a
      /\ Saved(s, si).img =
           [r \in AllRows |-> IF r \in a .. (a + (e - a) - 1) THEN data[si][r] ELSE Junk]
  BY DEF Saved
<1> HIDE DEF a, e
<1>6. \A r \in AllRows : r \in a .. (e - 1) => Saved(s, si).img[r] = data[si][r]
  <2> SUFFICES ASSUME NEW r \in AllRows, r \in a .. (e - 1)
               PROVE  Saved(s, si).img[r] = data[si][r]
    OBVIOUS
  <2>1. r \in a .. (a + (e - a) - 1)
    BY <1>4
  <2> QED
    BY <1>5, <2>1
<1>7. Saved(s, si).lo + Saved(s, si).n = e /\ Saved(s, si).n \in Int
  BY <1>4, <1>5
<1> QED
  BY <1>3, <1>5, <1>6, <1>7 DEF a, e

LEMMA LendSaveRows ==
  ASSUME ArenaInv, RowsInv, LendSave
  PROVE  RowsInv'
<1>1. /\ task.op = "lend" /\ lent' = TRUE /\ task' = Idle
      /\ swapped' = UNION {{Saved(s, si) : s \in LiveTails(si)} : si \in Stores}
      /\ UNCHANGED <<live, pos, reg, data, hurt>>
  BY DEF LendSave
<1>2. ~ lent
  BY <1>1 DEF RowsInv, RecordsInv, Quiet
<1>3. RowsIntact'
  <2> SUFFICES ASSUME NEW t \in live \ hurt, NEW si \in Stores, NEW i \in 0 .. (reg[t][si].n - 1)
               PROVE  Readable(t, si, i)'
    BY <1>1 DEF RowsIntact, Readable
  <2> DEFINE r == reg[t][si].base + i
  <2>1. data[si][r] = <<t, i>>
    BY <1>2, UnlentRows DEF RowsInv, Clean
  <2>2. r \in Rows(si) /\ i \in Nat /\ reg[t][si].base \in Nat /\ reg[t][si].n \in Nat
        /\ t \in Slots /\ r \in AllRows
    BY RowPlaces DEF AllRows
  <2>3. CASE r \notin LentRange(si)
    BY <1>1, <2>1, <2>3 DEF Readable, InPlace, IsLent
  <2>4. CASE r \in LentRange(si)
    <3>1. LentLo(si) <= r /\ r < LiveEnd(t, si) /\ LiveEnd(t, si) \in Nat /\ LentLo(si) \in Nat
          /\ LentRange(si) # {} /\ r \in Int
      BY <2>2, <2>4, LentLoNat DEF LentRange, LiveEnd
    <3> HIDE DEF r
    <3>2. t \in LiveTails(si)
      BY <2>2, <3>1 DEF LiveTails
    <3>4. PICK rec \in swapped' : rec = Saved(t, si)
      BY <1>1, <3>2
    <3>3. /\ rec.slot = t /\ rec.si = si /\ rec.base = reg[t][si].base
          /\ rec.lo = SavedFrom(t, si) /\ rec.lo \in Nat /\ rec.n \in Int
          /\ rec.lo + rec.n = LiveEnd(t, si)
          /\ r \in SavedFrom(t, si) .. (LiveEnd(t, si) - 1) => rec.img[r] = data[si][r]
      BY <2>2, <3>2, <3>4, SavedHolds
    <3>5. r \in SavedFrom(t, si) .. (LiveEnd(t, si) - 1)
      <4>1. reg[t][si].base <= r
        BY <2>2 DEF r
      <4> QED
        BY <2>2, <3>1, <4>1 DEF SavedFrom
    <3>6. Restorable(rec)'
      BY <1>1, <3>1, <3>3 DEF Restorable, LiveEnd
    <3>7. SavedRow(t, si, i)'
      <4>1. rec.img[r] = <<t, i>> /\ r \in rec.lo .. (rec.lo + rec.n - 1)
        <5>1. rec.img[r] = <<t, i>>
          BY <2>1, <3>3, <3>5
        <5>2. r \in rec.lo .. (rec.lo + rec.n - 1)
          BY <3>3, <3>5
        <5> QED
          BY <5>1, <5>2
      <4>2. reg'[t][si].base + i = r
        BY <1>1 DEF r
      <4> QED
        BY <3>3, <3>4, <3>6, <4>1, <4>2 DEF SavedRow
    <3> QED
      BY <1>1, <2>4, <3>7 DEF Readable, IsLent, r
  <2> QED
    BY <2>3, <2>4
<1>4. RowsTrackPosition'
  BY <1>1 DEF RowsInv, RowsTrackPosition
<1>5. RecordsInv'
  <2>1. \A rec \in swapped' : \E si \in Stores : \E s \in LiveTails(si) : rec = Saved(s, si)
    BY <1>1
  <2>2. \A rec \in swapped' : rec.base <= rec.lo /\ LentLo(rec.si) <= rec.lo
    BY <2>1, SavedHolds
  <2>3. \A rec, old \in swapped' : rec.slot = old.slot /\ rec.si = old.si => rec = old
    BY <2>1, SavedHolds
  <2> QED
    BY <1>1, <2>2, <2>3 DEF RecordsInv, Quiet, Idle, Job
<1> QED
  BY <1>3, <1>4, <1>5 DEF RowsInv

\* The prefill pass writes lent rows only.
LEMMA PrefillRows ==
  ASSUME ArenaInv, RowsInv, PrefillPass
  PROVE  RowsInv'
<1>1. /\ lent /\ data' = [si \in Stores |-> JunkRows(data[si], LentRange(si))]
      /\ UNCHANGED <<live, pos, reg, lent, swapped, task, hurt>>
  BY DEF PrefillPass
<1>2. RowsIntact'
  <2> SUFFICES ASSUME NEW t \in live \ hurt, NEW si \in Stores, NEW i \in 0 .. (reg[t][si].n - 1)
               PROVE  Readable(t, si, i)'
    BY <1>1 DEF RowsIntact, Readable
  <2> DEFINE r == reg[t][si].base + i
  <2>1. Readable(t, si, i)
    BY DEF RowsInv, RowsIntact, Readable
  <2>2. r \in Rows(si)
    BY RowPlaces
  <2>3. DOMAIN data[si] = Rows(si) /\ data'[si] = JunkRows(data[si], LentRange(si))
    BY <1>1 DEF ArenaInv, TypeOK
  <2>4. ~ IsLent(r, si) => data'[si][r] = data[si][r]
    <3> HIDE DEF r
    <3> QED
      BY <1>1, <2>2, <2>3 DEF IsLent, JunkRows
  <2> QED
    BY <1>1, <2>1, <2>4, FrameRows
<1>3. RowsTrackPosition' /\ RecordsInv'
  BY <1>1 DEF RowsInv, RowsTrackPosition, RecordsInv, Quiet
<1> QED
  BY <1>2, <1>3 DEF RowsInv

\* A host copy that still fits its region covers rows of that region only.
LEMMA RestorableInRegion ==
  ASSUME ArenaInv, RecordsInv, NEW rec \in swapped, Restorable(rec),
         NEW r \in rec.lo .. (rec.lo + rec.n - 1)
  PROVE  rec.slot \in live /\ rec.si \in Stores /\ r \in Owned(rec.slot, rec.si)
         /\ LentLo(rec.si) <= r
<1>1. rec \in SwapRec
  BY DEF ArenaInv, TypeOK
<1>2. rec.lo \in Nat /\ rec.n \in Nat /\ rec.slot \in Slots /\ rec.si \in Stores
  BY <1>1 DEF SwapRec
<1>3. /\ rec.slot \in live /\ reg[rec.slot][rec.si].base = rec.base
      /\ LiveEnd(rec.slot, rec.si) >= rec.lo + rec.n /\ rec.base <= rec.lo /\ LentLo(rec.si) <= rec.lo
  <2>1. rec.n # 0
    BY <1>2
  <2> QED
    BY <2>1 DEF Restorable, RecordsInv
<1>4. /\ reg[rec.slot][rec.si].base \in Nat /\ reg[rec.slot][rec.si].cap \in Nat
      /\ reg[rec.slot][rec.si].n \in Nat
      /\ reg[rec.slot][rec.si].n <= reg[rec.slot][rec.si].cap
  BY <1>2, <1>3, RegionFields DEF ArenaInv, RegionsDisjoint
<1>5. LentLo(rec.si) \in Nat
  BY <1>2, LentLoNat
<1> QED
  BY <1>2, <1>3, <1>4, <1>5 DEF Owned, End, LiveEnd

\* Writing back copies that still fit puts a row's own copy into it, and leaves
\* alone the rows outside the lent end and those of regions without a copy.
LEMMA RestoredRow ==
  ASSUME ArenaInv, RowsInv, NEW recs \in SUBSET swapped, \A rec \in recs : Restorable(rec),
         NEW s \in live, NEW si \in Stores, NEW i \in 0 .. (reg[s][si].n - 1), NEW r,
         r = reg[s][si].base + i
  PROVE  /\ r \notin LentRange(si) => Restored(data, recs)[si][r] = data[si][r]
         /\ \A rec \in recs : rec.slot = s /\ rec.si = si /\ r \in rec.lo .. (rec.lo + rec.n - 1)
              => Restored(data, recs)[si][r] = rec.img[r]
<1>1. r \in Rows(si) /\ r \in Owned(s, si) /\ \A t \in live : t # s => r \notin Owned(t, si)
  BY RowPlaces
<1>2. DOMAIN data[si] = Rows(si)
  BY DEF ArenaInv, TypeOK
<1> DEFINE Covers(rec) == rec.si = si /\ r \in rec.lo .. (rec.lo + rec.n - 1)
<1>3. \A rec \in recs : Covers(rec) => rec.slot = s /\ r \in LentRange(si)
  <2> SUFFICES ASSUME NEW rec \in recs, Covers(rec) PROVE rec.slot = s /\ r \in LentRange(si)
    OBVIOUS
  <2>1. rec.slot \in live /\ r \in Owned(rec.slot, si) /\ LentLo(si) <= r
    BY RestorableInRegion DEF RowsInv
  <2>2. r \in LentRange(si)
    BY <1>1, <2>1, LentLoNat DEF LentRange, Rows
  <2> QED
    BY <1>1, <2>1, <2>2
<1>4. Restored(data, recs)[si][r] =
         IF \E rec \in recs : Covers(rec) THEN (CHOOSE rec \in recs : Covers(rec)).img[r]
         ELSE data[si][r]
  BY <1>1, <1>2 DEF Restored
<1>5. ASSUME NEW rec \in recs, rec.slot = s, Covers(rec)
      PROVE  Restored(data, recs)[si][r] = rec.img[r]
  <2> DEFINE c == CHOOSE d \in recs : Covers(d)
  <2>1. c \in recs /\ Covers(c)
    BY <1>5
  <2>2. c = rec
    BY <1>3, <1>5, <2>1 DEF RowsInv, RecordsInv
  <2> HIDE DEF Covers
  <2> QED
    BY <1>4, <1>5, <2>2
<1>6. r \notin LentRange(si) => Restored(data, recs)[si][r] = data[si][r]
  <2> HIDE DEF Covers
  <2> QED
    BY <1>3, <1>4
<1> QED
  BY <1>5, <1>6

LEMMA EndLendRows ==
  ASSUME ArenaInv, RowsInv, EndLend
  PROVE  RowsInv'
<1> DEFINE recs == {rec \in swapped : Restorable(rec)}
<1>1. /\ data' = Restored(data, recs) /\ swapped' = {} /\ lent' = FALSE /\ lent
      /\ UNCHANGED <<live, pos, reg, task, hurt>>
  BY DEF EndLend
<1>2. ASSUME NEW t \in live' \ hurt', NEW si \in Stores PROVE Clean(t, si)'
  <2> SUFFICES ASSUME NEW i \in 0 .. (reg[t][si].n - 1)
               PROVE  data'[si][reg[t][si].base + i] = <<t, i>>
    BY <1>1 DEF Clean
  <2> DEFINE r == reg[t][si].base + i
  <2>1. t \in live /\ Readable(t, si, i)
    BY <1>1 DEF RowsInv, RowsIntact, Readable
  <2>2. /\ r \notin LentRange(si) => data'[si][r] = data[si][r]
        /\ \A rec \in recs : rec.slot = t /\ rec.si = si /\ r \in rec.lo .. (rec.lo + rec.n - 1)
              => data'[si][r] = rec.img[r]
    <3>1. recs \in SUBSET swapped /\ \A rec \in recs : Restorable(rec)
      OBVIOUS
    <3> HIDE DEF recs
    <3> QED
      BY <1>1, <2>1, <3>1, RestoredRow
  <2>3. CASE r \notin LentRange(si)
    BY <2>1, <2>2, <2>3 DEF Readable, IsLent, InPlace
  <2>4. CASE r \in LentRange(si)
    <3>1. PICK rec \in swapped :
            /\ rec.si = si /\ Restorable(rec) /\ rec.slot = t
            /\ r \in rec.lo .. (rec.lo + rec.n - 1) /\ rec.img[r] = <<t, i>>
      BY <1>1, <2>1, <2>4 DEF Readable, IsLent, SavedRow
    <3> QED
      BY <2>2, <3>1
  <2> QED
    BY <2>3, <2>4
<1>3. RowsIntact'
  BY <1>1, <1>2, UnlentRowsNext
<1>4. RowsTrackPosition' /\ RecordsInv'
  BY <1>1 DEF RowsInv, RowsTrackPosition, RecordsInv
<1> QED
  BY <1>3, <1>4 DEF RowsInv

\* When a copy back fails, the regions whose copies are gone already are the
\* ones marked hurt; the others still have theirs.
LEMMA EndLendFailsRows ==
  ASSUME ArenaInv, RowsInv, NEW rec \in swapped, EndLendFails(rec)
  PROVE  RowsInv'
<1> DEFINE done == RestoredBefore(rec)
           recs == {d \in done : Restorable(d)}
<1>1. /\ lent /\ data' = Restored(data, recs) /\ swapped' = swapped \ done
      /\ hurt' = hurt \cup {d.slot : d \in recs}
      /\ UNCHANGED <<live, pos, reg, lent, task>>
  BY DEF EndLendFails
<1>2. recs \in SUBSET swapped /\ \A d \in recs : Restorable(d)
  BY DEF RestoredBefore
<1>3. RowsIntact'
  <2> SUFFICES ASSUME NEW t \in live' \ hurt', NEW si \in Stores, NEW i \in 0 .. (reg[t][si].n - 1)
               PROVE  Readable(t, si, i)'
    BY <1>1 DEF RowsIntact, Readable
  <2> DEFINE r == reg[t][si].base + i
  <2>1. t \in live /\ Readable(t, si, i)
    BY <1>1 DEF RowsInv, RowsIntact, Readable
  <2>2. CASE r \notin LentRange(si)
    <3>1. data'[si][r] = data[si][r]
      <4> HIDE DEF recs
      <4> QED
        BY <1>1, <1>2, <2>1, <2>2, RestoredRow
    <3> QED
      BY <1>1, <2>1, <2>2, <3>1 DEF Readable, IsLent, InPlace
  <2>3. CASE r \in LentRange(si)
    <3>1. PICK old \in swapped :
            /\ old.si = si /\ Restorable(old) /\ old.slot = t
            /\ r \in old.lo .. (old.lo + old.n - 1) /\ old.img[r] = <<t, i>>
      BY <1>1, <2>1, <2>3 DEF Readable, IsLent, SavedRow
    <3>2. old \notin done
      BY <1>1, <3>1
    <3>3. old \in swapped' /\ Restorable(old)'
      BY <1>1, <3>1, <3>2 DEF Restorable, LiveEnd
    <3>4. SavedRow(t, si, i)'
      BY <1>1, <3>1, <3>3 DEF SavedRow
    <3> QED
      BY <1>1, <2>3, <3>4 DEF Readable, IsLent
  <2> QED
    BY <2>2, <2>3
<1>4. RowsTrackPosition' /\ RecordsInv'
  BY <1>1 DEF RowsInv, RowsTrackPosition, RecordsInv, Quiet
<1> QED
  BY <1>3, <1>4 DEF RowsInv

(***************************************************************************)
(* The theorems                                                            *)
(***************************************************************************)
LEMMA RowsInit == Init => RowsInv
BY DEF Init, RowsInv, RowsIntact, RowsTrackPosition, RecordsInv

LEMMA RowsNext ==
  ASSUME ArenaInv, ArenaInv', RowsInv, [Next]_vars
  PROVE  RowsInv'
<1>1. ASSUME NEW ctx \in 1 .. MaxCtx, Reserve(ctx) PROVE RowsInv'
  BY <1>1, ReserveRows
<1>2. ASSUME NEW s \in Slots, Release(s) PROVE RowsInv'
  BY <1>2, ReleaseRows
<1>3. ASSUME NEW s \in Slots, NEW p \in 1 .. MaxCtx, Fill(s, p) PROVE RowsInv'
  BY <1>3, FillRows
<1>4. ASSUME NEW s \in Slots, NEW p \in 1 .. MaxCtx, NEW k \in Stores, FillFails(s, p, k)
      PROVE  RowsInv'
  BY <1>4, FillRows
<1>5. ASSUME NEW s \in Slots, NEW k \in 1 .. 2, NEW keep \in 1 .. k, DecodeStep(s, k, keep)
      PROVE  RowsInv'
  BY <1>5, DecodeRows
<1>6. ASSUME NEW s \in Slots, NEW ctx \in 1 .. MaxCtx, GrowStart(s, ctx) PROVE RowsInv'
  BY <1>6, BookkeepingRows
<1>7. CASE GrowKeep \/ GrowDone \/ GrowAround \/ CompactStart \/ CompactStore \/ CompactDone
           \/ LendStart
  BY <1>7, BookkeepingRows
<1>8. CASE GrowInPlace \/ GrowAfterAround
  BY <1>8, ExtendRows
<1>9. CASE GrowRelocate
  BY <1>9, RelocateRows
<1>10. ASSUME NEW s \in Slots, SlideDown(s) \/ SlideUp(s) PROVE RowsInv'
  BY <1>10, SlideRows
<1>11. CASE SlideFails
  BY <1>11, SlideFailsRows
<1>12. CASE RelocateFails
  BY <1>12, RelocateFailsRows
<1>13. CASE LendSave
  BY <1>13, LendSaveRows
<1>14. CASE PrefillPass
  BY <1>14, PrefillRows
<1>15. CASE EndLend
  BY <1>15, EndLendRows
<1>16. ASSUME NEW rec \in swapped, EndLendFails(rec) PROVE RowsInv'
  BY <1>16, EndLendFailsRows
<1>17. CASE AbortAll
  BY <1>17, AbortAllRows
<1>18. CASE UNCHANGED vars
  BY <1>18, QuietRows DEF vars, RowsInv, RecordsInv, Quiet
<1> QED
  BY <1>1, <1>2, <1>3, <1>4, <1>5, <1>6, <1>7, <1>8, <1>9, <1>10, <1>11, <1>12, <1>13, <1>14,
     <1>15, <1>16, <1>17, <1>18 DEF Next

LEMMA RowsInvariant == Spec => [](ArenaInv /\ RowsInv)
<1>1. Init => ArenaInv /\ RowsInv
  BY InitInv, RowsInit
<1>2. ArenaInv /\ RowsInv /\ [Next]_vars => ArenaInv' /\ RowsInv'
  BY NextInv, RowsNext
<1> QED
  BY <1>1, <1>2, PTL DEF Spec

\* No grow, compaction or loan, of a stream's own region or of a neighbour's,
\* costs a stream a row it has written, whatever copies fail, unless a copy of
\* this very region failed halfway (move_region_rows, lend, end_lend).
THEOREM NoRowLost == Spec => []RowsIntact
<1>1. RowsInv => RowsIntact
  BY DEF RowsInv
<1> QED
  BY RowsInvariant, <1>1, PTL

\* At every moment store si of a stream at position p holds p \div ratio rows:
\* rejected rows are never counted and no move changes the count (fill_reserved,
\* advance, grow, compact_stores).
THEOREM RowsCounted == Spec => []RowsTrackPosition
<1>1. RowsInv => RowsTrackPosition
  BY DEF RowsInv
<1> QED
  BY RowsInvariant, <1>1, PTL

(***************************************************************************)
(* Growth and compaction                                                   *)
(***************************************************************************)
\* A grow has room in the stores it is done with, and the others have the free
\* rows it needs.
RoomInv ==
  task.op \in {"grow", "around"} =>
    \A sj \in Stores :
      IF sj < task.si THEN reg[GSlot][sj].cap >= Need(task.ctx, sj)
                      ELSE Extra(GSlot, task.ctx, sj) <= Cardinality(free[sj])

\* The growing region is the last of the low ones to be placed, so it ends
\* where the packed run starts.
AroundInv ==
  task.op = "around" =>
    /\ GSlot \notin task.high
    /\ IF GSlot \in task.low
       THEN \A t \in task.low : reg[t][task.si].base <= reg[GSlot][task.si].base
       ELSE task.low = {} /\ GEnd = task.next

\* The moves of a compaction keep the number of free rows.
GatherInv == Moving => Cardinality(FreeRuns(task.si)) = Cardinality(free[task.si])

GrowthInv == RoomInv /\ AroundInv /\ GatherInv

\* A set of free rows is finite.
LEMMA FreeFinite ==
  ASSUME TypeOK, NEW si \in Stores
  PROVE  /\ IsFiniteSet(Rows(si)) /\ IsFiniteSet(free[si])
         /\ Cardinality(free[si]) \in Nat
<1>1. IsFiniteSet(Rows(si))
  <2>1. 0 \in Int /\ RowsCap[si] - 1 \in Int
    BY ArenaAssumption
  <2> QED
    BY <2>1, FS_Interval DEF Rows
<1>2. free[si] \in SUBSET Rows(si)
  BY DEF TypeOK
<1>3. IsFiniteSet(free[si])
  BY <1>1, <1>2, FS_Subset
<1> QED
  BY <1>1, <1>3, FS_CardinalityType

\* Two sets of k consecutive rows leave the same number of the others.
LEMMA SameRest ==
  ASSUME NEW U, IsFiniteSet(U), NEW I \in SUBSET U, NEW J \in SUBSET U,
         NEW a \in Nat, NEW b \in Nat, NEW k \in Nat,
         I = a .. (a + k - 1), J = b .. (b + k - 1)
  PROVE  Cardinality(U \ I) = Cardinality(U \ J)
<1>1. Cardinality(I) = Cardinality(J)
  <2>1. Cardinality(I) = IF a > a + k - 1 THEN 0 ELSE a + k - 1 - a + 1
    <3>1. a \in Int /\ a + k - 1 \in Int
      OBVIOUS
    <3> QED
      BY <3>1, FS_Interval
  <2>2. Cardinality(J) = IF b > b + k - 1 THEN 0 ELSE b + k - 1 - b + 1
    <3>1. b \in Int /\ b + k - 1 \in Int
      OBVIOUS
    <3> QED
      BY <3>1, FS_Interval
  <2> QED
    BY <2>1, <2>2
<1>2. U \cap I = I /\ U \cap J = J
  OBVIOUS
<1>3. /\ Cardinality(U \ I) = Cardinality(U) - Cardinality(U \cap I)
      /\ Cardinality(U \ J) = Cardinality(U) - Cardinality(U \cap J)
  BY FS_Difference
<1> QED
  BY <1>1, <1>2, <1>3

\* Steps of every other operation end with no grow under way and no region on
\* the move.
LEMMA NoGrowth ==
  ASSUME task'.op \in {"idle", "lend"}
  PROVE  GrowthInv'
BY DEF GrowthInv, RoomInv, AroundInv, GatherInv, Moving

\* A compaction of a store starts from an exact free list.
LEMMA CompactGrowth ==
  ASSUME ArenaInv, CompactStart \/ LendStart \/ CompactStore
  PROVE  GrowthInv'
<1>1. CASE task'.op = "lend"
  BY <1>1, NoGrowth
<1>2. CASE task'.op = "compact"
  <2>1. \A sj \in Stores : free'[sj] = FreeRuns(sj)
    <3>1. CASE CompactStart \/ LendStart
      BY <3>1 DEF CompactStart, LendStart, Quiet, ArenaInv, FreeInv, Moving
    <3>2. CASE CompactStore
      <4>1. PackedRun = FreeRuns(task.si) /\ task.si \in Stores
        BY <3>2, PackedRunIsFree DEF CompactStore, Placed, Moving
      <4> QED
        BY <3>2, <4>1 DEF CompactStore, ArenaInv, FreeInv, TypeOK
    <3> QED
      BY <3>1, <3>2
  <2>2. UNCHANGED <<live, reg>>
    BY DEF CompactStart, LendStart, CompactStore
  <2>3. \A sj \in Stores : FreeRuns(sj)' = FreeRuns(sj)
    BY <2>2 DEF FreeRuns, Owned, End
  <2>4. GatherInv'
    BY <2>1, <2>3 DEF GatherInv, Moving
  <2> QED
    BY <1>2, <2>4 DEF GrowthInv, RoomInv, AroundInv
<1>3. task'.op \in {"lend", "compact"}
  BY DEF CompactStart, LendStart, CompactStore, CompactFrom, Job
<1> QED
  BY <1>1, <1>2, <1>3

LEMMA GrowStartGrowth ==
  ASSUME ArenaInv, NEW s \in Slots, NEW ctx \in 1 .. MaxCtx, GrowStart(s, ctx)
  PROVE  GrowthInv'
<1>1. /\ task' = Job("grow", 1, s, ctx) /\ UNCHANGED <<reg, free>>
      /\ \A si \in Stores : Extra(s, ctx, si) <= Cardinality(free[si])
  BY DEF GrowStart
<1>2. task'.op = "grow" /\ task'.si = 1 /\ task'.slot = s /\ task'.ctx = ctx
  BY <1>1 DEF Job
<1>3. \A sj \in Stores : ~ (sj < 1)
  BY ArenaAssumption DEF Stores
<1>4. \A sj \in Stores : Extra(s, ctx, sj)' = Extra(s, ctx, sj)
  BY <1>1 DEF Extra
<1>5. RoomInv'
  BY <1>1, <1>2, <1>3, <1>4 DEF RoomInv, GSlot, Extra
<1> QED
  BY <1>2, <1>5 DEF GrowthInv, AroundInv, GatherInv, Moving

\* A grow goes on to the next store with room in this one, and the other
\* stores as they were.
LEMMA NextStoreGrowth ==
  ASSUME ArenaInv, GrowthInv, task.op \in {"grow", "around"}, task.si \in Stores, GSlot \in live,
         task' = NextStore,
         reg'[GSlot][task.si].cap >= Need(task.ctx, task.si),
         \A sj \in Stores : sj # task.si => reg'[GSlot][sj] = reg[GSlot][sj] /\ free'[sj] = free[sj]
  PROVE  GrowthInv'
<1>1. /\ task'.op = "grow" /\ task'.si = task.si + 1 /\ task'.slot = task.slot
      /\ task'.ctx = task.ctx
  BY DEF NextStore, Job
<1>2. GSlot' = GSlot
  BY <1>1 DEF GSlot
<1>3. ASSUME NEW sj \in Stores
      PROVE  IF sj < task.si + 1 THEN reg'[GSlot][sj].cap >= Need(task.ctx, sj)
             ELSE Need(task.ctx, sj) - reg'[GSlot][sj].cap <= Cardinality(free'[sj])
  <2>1. sj \in Nat /\ task.si \in Nat
    BY ArenaAssumption DEF Stores
  <2>2. CASE sj = task.si
    BY <2>1, <2>2
  <2>3. CASE sj < task.si
    <3>1. sj # task.si /\ sj < task.si + 1
      BY <2>1, <2>3
    <3> QED
      BY <2>3, <3>1 DEF GrowthInv, RoomInv
  <2>4. CASE ~ (sj < task.si) /\ sj # task.si
    <3>1. ~ (sj < task.si + 1)
      BY <2>1, <2>4
    <3> QED
      BY <2>4, <3>1 DEF GrowthInv, RoomInv, Extra
  <2> QED
    BY <2>2, <2>3, <2>4
<1>4. RoomInv'
  BY <1>1, <1>2, <1>3 DEF RoomInv, Extra
<1> QED
  BY <1>1, <1>4 DEF GrowthInv, AroundInv, GatherInv, Moving

LEMMA GrowStepGrowth ==
  ASSUME ArenaInv, GrowthInv, GrowKeep \/ GrowInPlace \/ GrowRelocate \/ GrowAfterAround
  PROVE  GrowthInv'
<1> DEFINE si == task.si
<1>1. /\ task.op \in {"grow", "around"} /\ si \in Stores /\ GSlot \in live /\ task' = NextStore
  BY DEF GrowKeep, GrowInPlace, ExtendInPlace, GrowRelocate, RelocateTo, GrowAfterAround, Growing,
         Placed, Moving, ArenaInv, TaskInv, GSlot
<1>2. /\ Need(task.ctx, si) \in Nat /\ GExtra = Need(task.ctx, si) - reg[GSlot][si].cap
      /\ GSlot \in Slots /\ reg[GSlot][si].cap \in Nat
  BY <1>1, GrowNeed, RegionFields DEF ArenaInv, GSlot
<1>3. /\ reg'[GSlot][si].cap >= Need(task.ctx, si)
      /\ \A sj \in Stores : sj # si => reg'[GSlot][sj] = reg[GSlot][sj] /\ free'[sj] = free[sj]
  <2>1. CASE GrowKeep
    <3>1. GExtra <= 0 /\ UNCHANGED <<reg, free>>
      BY <2>1 DEF GrowKeep
    <3>2. reg[GSlot][si].cap >= Need(task.ctx, si)
      BY <1>2, <3>1
    <3> QED
      BY <3>1, <3>2
  <2>2. CASE GrowInPlace \/ GrowAfterAround
    <3>1. reg' = [reg EXCEPT ![GSlot][si] = WithCap(GSlot, si, Need(task.ctx, si))]
      BY <2>2 DEF GrowInPlace, ExtendInPlace, GrowAfterAround
    <3>2. \A sj \in Stores : sj # si => free'[sj] = free[sj]
      BY <2>2 DEF GrowInPlace, ExtendInPlace, GrowAfterAround, ArenaInv, TypeOK
    <3>3. reg'[GSlot][si].cap = Need(task.ctx, si)
      BY <1>1, <1>2, <3>1 DEF ArenaInv, TypeOK, WithCap, Region
    <3>4. \A sj \in Stores : sj # si => reg'[GSlot][sj] = reg[GSlot][sj]
      BY <1>1, <1>2, <3>1 DEF ArenaInv, TypeOK
    <3> HIDE DEF si
    <3> QED
      BY <1>2, <3>2, <3>3, <3>4
  <2>3. CASE GrowRelocate
    <3>1. PICK nb \in AllRows :
            /\ free' = [free EXCEPT ![si] = (free[si] \ (nb .. (nb + Need(task.ctx, si) - 1)))
                                             \cup Owned(GSlot, si)]
            /\ reg' = [reg EXCEPT ![GSlot][si] = Region(nb, Need(task.ctx, si), reg[GSlot][si].n)]
      BY <2>3 DEF GrowRelocate
    <3>2. reg'[GSlot][si].cap = Need(task.ctx, si)
      BY <1>1, <1>2, <3>1 DEF ArenaInv, TypeOK, Region
    <3>3. \A sj \in Stores : sj # si => reg'[GSlot][sj] = reg[GSlot][sj] /\ free'[sj] = free[sj]
      BY <1>1, <1>2, <3>1 DEF ArenaInv, TypeOK
    <3> HIDE DEF si
    <3> QED
      BY <1>2, <3>2, <3>3
  <2> QED
    BY <2>1, <2>2, <2>3
<1> HIDE DEF si
<1> QED
  BY <1>1, <1>3, NextStoreGrowth DEF si

LEMMA AroundGrowth ==
  ASSUME ArenaInv, GrowthInv, GrowAround
  PROVE  GrowthInv'
<1>0. PICK si \in Stores : si = task.si
  BY DEF GrowAround, Growing
<1>1. /\ task.op = "grow" /\ GSlot \in live /\ GSlot \in Slots /\ task \in TaskType
      /\ UNCHANGED <<live, reg, free>>
  BY DEF GrowAround, Growing, ArenaInv, TaskInv, TypeOK, GSlot
<1>2. /\ task'.op = "around" /\ task'.si = task.si /\ task'.slot = task.slot /\ task'.ctx = task.ctx
      /\ task'.low = PackDown(si) /\ task'.high = live \ PackDown(si)
  BY <1>0, <1>1 DEF GrowAround, TaskType
<1>3. GSlot' = GSlot
  BY <1>2 DEF GSlot
<1>4. RoomInv'
  BY <1>1, <1>2, <1>3 DEF GrowthInv, RoomInv, Extra
<1>5. AroundInv'
  <2>1. reg[GSlot][si].base \in Nat
    BY <1>1, RegionFields DEF ArenaInv
  <2>2. GSlot \in PackDown(si)
    BY <1>1, <2>1 DEF PackDown
  <2>3. \A t \in PackDown(si) : reg[t][si].base <= reg[GSlot][si].base
    BY DEF PackDown
  <2> QED
    BY <1>0, <1>1, <1>2, <1>3, <2>2, <2>3 DEF AroundInv
<1>6. GatherInv'
  <2>1. free[si] = FreeRuns(si)
    BY <1>1 DEF ArenaInv, FreeInv, Moving
  <2>2. FreeRuns(si)' = FreeRuns(si)
    BY <1>1 DEF FreeRuns, Owned, End
  <2> QED
    BY <1>0, <1>1, <1>2, <2>1, <2>2 DEF GatherInv
<1> QED
  BY <1>4, <1>5, <1>6 DEF GrowthInv

\* A region slides over free rows: the free rows are as many as before.
LEMMA SlideGather ==
  ASSUME ArenaInv, ArenaInv', GrowthInv, Moving, NEW s \in Todo, NEW nb \in Nat, MoveRegion(s, nb),
         task'.si = task.si
  PROVE  GatherInv'
<1>1. MoveFacts(s) /\ live \subseteq Slots
  BY MovingFacts DEF ArenaInv, TypeOK
<1>0. PICK si \in Stores, k \in Nat : si = task.si /\ k = reg[s][si].cap
  BY <1>1 DEF MoveFacts
<1> DEFINE U == {r \in Rows(si) : \A t \in live : t # s => r \notin Owned(t, si)}
<1>2. /\ si \in Stores /\ s \in live /\ s \in Slots /\ k \in Nat /\ reg[s][si].base \in Nat
      /\ RowsCap[si] \in Nat
  BY <1>0, <1>1 DEF MoveFacts
<1>3. /\ reg' = [reg EXCEPT ![s][si] = Region(nb, k, reg[s][si].n)]
      /\ UNCHANGED <<live, free>>
  BY <1>0 DEF MoveRegion
<1>4. /\ reg'[s][si].base = nb /\ reg'[s][si].cap = k
      /\ \A t \in live : t # s => reg'[t][si] = reg[t][si]
  BY <1>1, <1>2, <1>3 DEF ArenaInv, TypeOK, Region
<1>5. Owned(s, si) = reg[s][si].base .. (reg[s][si].base + k - 1)
  BY <1>0, <1>2 DEF Owned, End
<1>6. Owned(s, si)' = nb .. (nb + k - 1)
  BY <1>2, <1>4 DEF Owned, End
<1>7. \A t \in live : t # s => Owned(t, si)' = Owned(t, si)
  BY <1>4 DEF Owned, End
<1>8. FreeRuns(si) = U \ Owned(s, si)
  BY <1>2 DEF FreeRuns
<1>9. FreeRuns(si)' = U \ Owned(s, si)'
  BY <1>2, <1>3, <1>7 DEF FreeRuns
<1>10. Owned(s, si) \subseteq U
  BY <1>2, OwnedApart DEF ArenaInv
<1>11. nb .. (nb + k - 1) \subseteq U
  <2>1. nb + k <= RowsCap[si]
    <3>1. End(s, si)' <= RowsCap[si]
      BY <1>2, <1>3 DEF ArenaInv, RegionsDisjoint
    <3> QED
      BY <1>4, <3>1 DEF End
  <2>2. \A t \in live : t # s => nb + k <= reg[t][si].base \/ End(t, si) <= nb
    <3>1. \A t \in live : t # s => \/ reg'[s][si].base + reg'[s][si].cap <= reg'[t][si].base
                                   \/ reg'[t][si].base + reg'[t][si].cap <= reg'[s][si].base
      BY <1>2, <1>3 DEF ArenaInv, RegionsDisjoint, End
    <3> QED
      BY <1>4, <3>1 DEF End
  <2> SUFFICES ASSUME NEW r \in nb .. (nb + k - 1), NEW t \in live, t # s
               PROVE  r \in Rows(si) /\ r \notin Owned(t, si)
    BY <1>2, <2>1 DEF Rows
  <2>3. r \in Rows(si)
    BY <1>2, <2>1 DEF Rows
  <2>4. t \in Slots /\ reg[t][si].base \in Nat /\ End(t, si) \in Nat
    BY <1>1, <1>2, RegionFields DEF ArenaInv
  <2>5. r \notin Owned(t, si)
    <3>1. nb + k <= reg[t][si].base \/ End(t, si) <= nb
      BY <2>2
    <3> QED
      BY <1>2, <2>4, <3>1 DEF Owned
  <2> QED
    BY <2>3, <2>5
<1>12. IsFiniteSet(U)
  <2>1. IsFiniteSet(Rows(si)) /\ U \in SUBSET Rows(si)
    BY <1>2, FreeFinite DEF ArenaInv
  <2> HIDE DEF U
  <2> QED
    BY <2>1, FS_Subset
<1>13. Cardinality(FreeRuns(si)') = Cardinality(FreeRuns(si))
  <2>1. PICK I \in SUBSET U : I = Owned(s, si)
    BY <1>10
  <2>2. PICK J \in SUBSET U : J = Owned(s, si)'
    BY <1>6, <1>11
  <2>3. PICK a \in Nat : a = reg[s][si].base
    BY <1>2
  <2>4. IsFiniteSet(U) /\ I = a .. (a + k - 1) /\ J = nb .. (nb + k - 1)
    BY <1>5, <1>6, <1>12, <2>1, <2>2, <2>3
  <2> HIDE DEF U
  <2>5. Cardinality(U \ I) = Cardinality(U \ J)
    BY <2>4, SameRest
  <2> QED
    BY <1>8, <1>9, <2>1, <2>2, <2>5
<1>14. Cardinality(FreeRuns(si)) = Cardinality(free[si])
  BY <1>0 DEF GrowthInv, GatherInv
<1>15. Cardinality(FreeRuns(si)') = Cardinality(free'[si])
  BY <1>3, <1>13, <1>14
<1> QED
  BY <1>0, <1>15 DEF GatherInv

\* Regions only move: their sizes, and the free lists, are as they were.
LEMMA SlideRoom ==
  ASSUME ArenaInv, GrowthInv, Moving, NEW s \in Todo, NEW nb \in Nat, MoveRegion(s, nb),
         task'.op = task.op, task'.si = task.si, task'.slot = task.slot, task'.ctx = task.ctx
  PROVE  /\ RoomInv'
         /\ reg'[s][task.si].base = nb /\ reg'[s][task.si].cap = reg[s][task.si].cap
         /\ \A t \in live : t # s => reg'[t][task.si] = reg[t][task.si]
<1>1. MoveFacts(s) /\ live \subseteq Slots
  BY MovingFacts DEF ArenaInv, TypeOK
<1>2. /\ task.si \in Stores /\ s \in Slots
      /\ reg' = [reg EXCEPT ![s][task.si] = Region(nb, reg[s][task.si].cap, reg[s][task.si].n)]
      /\ UNCHANGED <<live, free>>
  BY <1>1 DEF MoveFacts, MoveRegion
<1>3. reg'[s][task.si].base = nb /\ reg'[s][task.si].cap = reg[s][task.si].cap
  BY <1>2 DEF ArenaInv, TypeOK, Region
<1>4. \A t \in live, sj \in Stores : ~ (t = s /\ sj = task.si) => reg'[t][sj] = reg[t][sj]
  BY <1>1, <1>2 DEF ArenaInv, TypeOK
<1>5. RoomInv'
  <2> SUFFICES ASSUME task.op \in {"grow", "around"}, NEW sj \in Stores
               PROVE  IF sj < task.si THEN reg'[GSlot][sj].cap >= Need(task.ctx, sj)
                      ELSE Need(task.ctx, sj) - reg'[GSlot][sj].cap <= Cardinality(free[sj])
    BY <1>2 DEF RoomInv, Extra, GSlot
  <2>1. GSlot \in live
    BY DEF ArenaInv, TaskInv, GSlot
  <2>2. reg'[GSlot][sj].cap = reg[GSlot][sj].cap
    BY <1>3, <1>4, <2>1
  <2> QED
    BY <2>2 DEF GrowthInv, RoomInv, Extra
<1> QED
  BY <1>2, <1>3, <1>4, <1>5

LEMMA SlideDownGrowth ==
  ASSUME ArenaInv, ArenaInv', GrowthInv, NEW s \in Slots, SlideDown(s)
  PROVE  GrowthInv'
<1> DEFINE nb == task.next
<1>1. /\ Moving /\ s \in task.low /\ s \in Todo
      /\ \A t \in task.low : reg[s][task.si].base <= reg[t][task.si].base
  BY DEF SlideDown, MovesDown, Todo
<1>2. MoveFacts(s)
  BY <1>1, MovingFacts
<1>3. /\ task \in TaskType /\ task.si \in Stores /\ nb \in Nat /\ s \in live
      /\ reg[s][task.si].cap \in Nat /\ reg[s][task.si].base \in Nat
  BY <1>2 DEF MoveFacts
<1>4. MoveRegion(s, nb)
  BY DEF SlideDown
<1>5. /\ task'.op = task.op /\ task'.si = task.si /\ task'.slot = task.slot /\ task'.ctx = task.ctx
      /\ task'.low = task.low \ {s} /\ task'.high = task.high
      /\ task'.next = nb + reg[s][task.si].cap
  BY <1>3 DEF SlideDown, TaskType
<1> HIDE DEF nb
<1>6. GatherInv'
  BY <1>1, <1>3, <1>4, <1>5, SlideGather
<1>7. /\ RoomInv'
      /\ reg'[s][task.si].base = nb /\ reg'[s][task.si].cap = reg[s][task.si].cap
      /\ \A t \in live : t # s => reg'[t][task.si] = reg[t][task.si]
  BY <1>1, <1>3, <1>4, <1>5, SlideRoom
<1>8. AroundInv'
  <2> SUFFICES ASSUME task.op = "around" PROVE AroundInv'
    BY <1>5 DEF AroundInv
  <2>1. /\ GSlot \in live /\ GSlot \in Slots /\ GSlot' = GSlot /\ task.low \subseteq live
        /\ live \subseteq Slots
    BY <1>1, <1>5 DEF ArenaInv, TaskInv, GSlot, TypeOK, MoveInv
  <2>2. /\ GSlot \notin task.high /\ GSlot \in task.low
        /\ \A t \in task.low : reg[t][task.si].base <= reg[GSlot][task.si].base
    BY <1>1 DEF GrowthInv, AroundInv
  <2>3. CASE s = GSlot
    <3>1. task.low = {s}
      <4> SUFFICES ASSUME NEW t \in task.low, t # s PROVE FALSE
        BY <1>1
      <4>1. reg[t][task.si].base = reg[s][task.si].base
        <5>1. reg[t][task.si].base <= reg[s][task.si].base /\ reg[s][task.si].base <= reg[t][task.si].base
          BY <1>1, <2>2, <2>3
        <5>2. reg[t][task.si].base \in Nat
          BY <1>3, <2>1, RegionFields DEF ArenaInv
        <5> QED
          BY <1>3, <5>1, <5>2
      <4>2. t \in live /\ t \in Slots
        BY <2>1
      <4>3. End(s, task.si) <= reg[t][task.si].base \/ End(t, task.si) <= reg[s][task.si].base
        BY <1>3, <4>2 DEF ArenaInv, RegionsDisjoint
      <4>4. /\ reg[s][task.si].cap >= 1 /\ reg[t][task.si].cap >= 1
            /\ reg[t][task.si].cap \in Nat
            /\ End(s, task.si) = reg[s][task.si].base + reg[s][task.si].cap
            /\ End(t, task.si) = reg[t][task.si].base + reg[t][task.si].cap
        BY <1>3, <4>2, RegionFields DEF ArenaInv, CapsPositive
      <4> QED
        BY <1>3, <4>1, <4>3, <4>4
    <3>2. GEnd' = task'.next
      <4>1. GEnd' = reg'[s][task.si].base + reg'[s][task.si].cap
        BY <1>5, <2>3 DEF GEnd, End, GSlot
      <4> QED
        BY <1>5, <1>7, <4>1
    <3>3. task'.low = {}
      BY <1>5, <3>1
    <3> QED
      BY <1>5, <2>1, <2>2, <3>2, <3>3 DEF AroundInv
  <2>4. CASE s # GSlot
    <3>1. GSlot \in task'.low
      BY <1>5, <2>2, <2>4
    <3>2. \A t \in task'.low : reg'[t][task.si].base <= reg'[GSlot][task.si].base
      BY <1>5, <1>7, <2>1, <2>2, <2>4
    <3> QED
      BY <1>5, <2>1, <2>2, <3>1, <3>2 DEF AroundInv
  <2> QED
    BY <2>3, <2>4
<1> QED
  BY <1>6, <1>7, <1>8 DEF GrowthInv

LEMMA SlideUpGrowth ==
  ASSUME ArenaInv, ArenaInv', GrowthInv, NEW s \in Slots, SlideUp(s)
  PROVE  GrowthInv'
<1> DEFINE nb == task.top - reg[s][task.si].cap
<1>1. Moving /\ s \in task.high /\ s \in Todo /\ task.low = {}
  BY DEF SlideUp, MovesUp, Todo
<1>2. MoveFacts(s)
  BY <1>1, MovingFacts
<1>3. task \in TaskType /\ task.si \in Stores /\ nb \in Nat /\ s \in live
  BY <1>2 DEF MoveFacts
<1>4. MoveRegion(s, nb)
  BY DEF SlideUp
<1>5. /\ task'.op = task.op /\ task'.si = task.si /\ task'.slot = task.slot /\ task'.ctx = task.ctx
      /\ task'.low = {} /\ task'.high = task.high \ {s} /\ task'.next = task.next
  BY <1>1, <1>3 DEF SlideUp, TaskType
<1> HIDE DEF nb
<1>6. GatherInv'
  BY <1>1, <1>3, <1>4, <1>5, SlideGather
<1>7. /\ RoomInv'
      /\ \A t \in live : t # s => reg'[t][task.si] = reg[t][task.si]
  BY <1>1, <1>3, <1>4, <1>5, SlideRoom
<1>8. AroundInv'
  <2> SUFFICES ASSUME task.op = "around" PROVE AroundInv'
    BY <1>5 DEF AroundInv
  <2>1. GSlot \in live /\ GSlot' = GSlot
    BY <1>5 DEF ArenaInv, TaskInv, GSlot
  <2>2. GSlot \notin task.high /\ GEnd = task.next
    BY <1>1 DEF GrowthInv, AroundInv
  <2>3. reg'[GSlot][task.si] = reg[GSlot][task.si]
    BY <1>1, <1>7, <2>1, <2>2
  <2>4. GEnd' = GEnd
    BY <1>5, <2>3 DEF GEnd, End, GSlot
  <2> QED
    BY <1>5, <2>1, <2>2, <2>4 DEF AroundInv
<1> QED
  BY <1>6, <1>7, <1>8 DEF GrowthInv

LEMMA GrowthNext ==
  ASSUME ArenaInv, ArenaInv', GrowthInv, [Next]_vars
  PROVE  GrowthInv'
<1>1. ASSUME \/ \E ctx \in 1 .. MaxCtx : Reserve(ctx)
             \/ \E s \in Slots : Release(s)
             \/ \E s \in Slots, p \in 1 .. MaxCtx : Fill(s, p)
             \/ \E s \in Slots, p \in 1 .. MaxCtx, k \in Stores : FillFails(s, p, k)
             \/ \E s \in Slots, k \in 1 .. 2 : \E keep \in 1 .. k : DecodeStep(s, k, keep)
             \/ PrefillPass \/ EndLend \/ AbortAll
             \/ \E rec \in swapped : EndLendFails(rec)
      PROVE  GrowthInv'
  BY <1>1, NoGrowth DEF Reserve, Release, Fill, FillFails, DecodeStep, PrefillPass, EndLend, AbortAll,
     EndLendFails, Quiet
<1>2. ASSUME GrowDone \/ CompactDone \/ SlideFails \/ RelocateFails \/ LendSave
      PROVE  GrowthInv'
  <2>1. Idle.op = "idle" /\ Job("lend", 1, 1, 0).op = "lend"
    BY DEF Idle, Job
  <2>2. CASE GrowDone \/ CompactDone \/ LendSave
    BY <2>1, <2>2, NoGrowth DEF GrowDone, CompactDone, LendSave
  <2>3. CASE SlideFails \/ RelocateFails
    <3>1. task' = Idle
      BY <2>3 DEF SlideFails, RelocateFails, MoveFails
    <3> QED
      BY <2>1, <3>1, NoGrowth
  <2> QED
    BY <1>2, <2>2, <2>3
<1>3. ASSUME NEW s \in Slots, NEW ctx \in 1 .. MaxCtx, GrowStart(s, ctx) PROVE GrowthInv'
  BY <1>3, GrowStartGrowth
<1>4. ASSUME GrowKeep \/ GrowInPlace \/ GrowRelocate \/ GrowAfterAround PROVE GrowthInv'
  BY <1>4, GrowStepGrowth
<1>5. ASSUME GrowAround PROVE GrowthInv'
  BY <1>5, AroundGrowth
<1>6. ASSUME NEW s \in Slots, SlideDown(s) \/ SlideUp(s) PROVE GrowthInv'
  BY <1>6, SlideDownGrowth, SlideUpGrowth
<1>7. ASSUME CompactStart \/ LendStart \/ CompactStore PROVE GrowthInv'
  BY <1>7, CompactGrowth
<1>8. ASSUME UNCHANGED vars PROVE GrowthInv'
  <2>1. UNCHANGED <<live, reg, free, task>>
    BY <1>8 DEF vars
  <2>2. \A sj \in Stores : FreeRuns(sj)' = FreeRuns(sj)
    BY <2>1 DEF FreeRuns, Owned, End
  <2>3. GatherInv'
    BY <2>1, <2>2 DEF GrowthInv, GatherInv, Moving
  <2>4. RoomInv' /\ AroundInv'
    BY <2>1 DEF GrowthInv, RoomInv, AroundInv, GSlot, GEnd, End, Extra
  <2> QED
    BY <2>3, <2>4 DEF GrowthInv
<1> QED
  BY <1>1, <1>2, <1>3, <1>4, <1>5, <1>6, <1>7, <1>8 DEF Next

LEMMA GrowthInvariant == Spec => [](ArenaInv /\ GrowthInv)
<1>1. Init => GrowthInv
  BY DEF Init, Idle, Job, GrowthInv, RoomInv, AroundInv, GatherInv, Moving
<1>2. ArenaInv /\ GrowthInv /\ [Next]_vars => ArenaInv' /\ GrowthInv'
  BY NextInv, GrowthNext
<1> QED
  BY InitInv, <1>1, <1>2, PTL DEF Spec

\* Once every region is placed, the packed run is the free rows, as many as
\* when the compaction began.
LEMMA PackedRunSize ==
  ASSUME ArenaInv, GrowthInv, Placed
  PROVE  /\ task.si \in Stores /\ task.next \in Nat /\ task.top \in Nat /\ task.next <= task.top
         /\ task.top - task.next = Cardinality(free[task.si])
         /\ Cardinality(PackedRun) = Cardinality(free[task.si])
<1>1. /\ Moving /\ task.si \in Stores /\ task.next \in Nat /\ task.top \in Nat
      /\ task.next <= task.top
  BY DEF Placed, Moving, ArenaInv, MoveInv, TypeOK, TaskType
<1>2. Cardinality(PackedRun) = Cardinality(free[task.si])
  BY <1>1, PackedRunIsFree DEF GrowthInv, GatherInv
<1>3. Cardinality(PackedRun) = task.top - task.next
  <2>1. PICK a \in Nat, b \in Nat : a = task.next /\ b = task.top
    BY <1>1
  <2>2. PackedRun = a .. (b - 1)
    BY <2>1 DEF PackedRun
  <2>3. Cardinality(a .. (b - 1)) = IF a > b - 1 THEN 0 ELSE b - 1 - a + 1
    <3>1. a \in Int /\ b - 1 \in Int
      OBVIOUS
    <3> QED
      BY <3>1, FS_Interval
  <2> QED
    BY <1>1, <2>1, <2>2, <2>3
<1> QED
  BY <1>1, <1>2, <1>3

\* A grow that finds no run and compacts the store around its region always
\* finds the rows it needs right after the region, so it cannot end in the "grow
\* after compaction found no run" error (grow_inner, compact_store_around).
THEOREM GrowFindsRun == Spec => []GrowRunFound
<1>1. ArenaInv /\ GrowthInv => GrowRunFound
  <2> SUFFICES ASSUME ArenaInv, GrowthInv, Placed, task.op = "around"
               PROVE  CarveAt(PackedRun, GEnd, GExtra)
    BY DEF GrowRunFound
  <2>1. /\ task.si \in Stores /\ task.next \in Nat /\ task.top \in Nat /\ task.next <= task.top
        /\ task.top - task.next = Cardinality(free[task.si])
    BY PackedRunSize
  <2>2. GEnd = task.next
    BY DEF GrowthInv, AroundInv, Placed
  <2>3. GExtra <= Cardinality(free[task.si])
    <3>1. task.si \in Nat
      BY <2>1, ArenaAssumption DEF Stores
    <3> QED
      BY <2>1, <3>1 DEF GrowthInv, RoomInv, GExtra, GSlot
  <2>4. GExtra \in Int
    BY <2>1, GrowNeed DEF ArenaInv, TaskInv
  <2> QED
    BY <2>1, <2>2, <2>3, <2>4 DEF CarveAt, Window, PackedRun
<1> QED
  BY GrowthInvariant, <1>1, PTL

\* A grow that returns Ok has the room it was asked for in every store, whatever
\* mix of extending, relocating and compacting it took (grow_inner).
THEOREM GrowHoldsContext == Spec => []GrownHoldsContext
<1>1. ArenaInv /\ GrowthInv => GrownHoldsContext
  <2> SUFFICES ASSUME ArenaInv, GrowthInv, task.op = "grow", task.si \notin Stores, NEW sj \in Stores
               PROVE  reg[GSlot][sj].cap * Ratio[sj] >= task.ctx
    BY DEF GrownHoldsContext, HoldsPositions, ReservedPositions
  <2>1. task.si \in Nat \ {0} /\ task.ctx \in Nat /\ GSlot \in Slots
    BY DEF ArenaInv, TypeOK, TaskType, GSlot
  <2>2. sj < task.si
    BY <2>1, ArenaAssumption DEF Stores
  <2>3. reg[GSlot][sj].cap >= Need(task.ctx, sj) /\ reg[GSlot][sj].cap \in Nat
    BY <2>1, <2>2, RegionFields DEF GrowthInv, RoomInv, ArenaInv
  <2>4. CASE Ratio[sj] = 1
    BY <2>1, <2>3, <2>4 DEF Need, CeilDiv
  <2>5. CASE Ratio[sj] = 2
    BY <2>1, <2>3, <2>5 DEF Need, CeilDiv
  <2> QED
    BY <2>4, <2>5, ArenaAssumption
<1> QED
  BY GrowthInvariant, <1>1, PTL

\* Compacting a store keeps its number of free rows and leaves them in one run,
\* so what fits_after_compaction promised can then be reserved
\* (compact_stores_inner).
THEOREM CompactionGathers == Spec => CompactionGathersFreeRows
<1>1. ASSUME ArenaInv, GrowthInv, CompactStore
      PROVE  /\ Cardinality(free'[task.si]) = Cardinality(free[task.si])
             /\ free'[task.si] # {} => Fits(free'[task.si], Cardinality(free'[task.si]))
  <2>1. Placed /\ free' = [free EXCEPT ![task.si] = PackedRun]
    BY <1>1 DEF CompactStore
  <2>2. /\ task.si \in Stores /\ task.next \in Nat /\ task.top \in Nat /\ task.next <= task.top
        /\ task.top - task.next = Cardinality(free[task.si])
        /\ Cardinality(PackedRun) = Cardinality(free[task.si])
    BY <1>1, <2>1, PackedRunSize
  <2>3. free'[task.si] = PackedRun
    BY <1>1, <2>1, <2>2 DEF ArenaInv, TypeOK
  <2>4. ASSUME PackedRun # {} PROVE Fits(PackedRun, Cardinality(PackedRun))
    <3>1. task.next \in PackedRun
      BY <2>2, <2>4 DEF PackedRun
    <3>2. Cardinality(PackedRun) = task.top - task.next
      BY <2>2
    <3>3. Window(PackedRun, task.next, Cardinality(PackedRun))
      BY <2>2, <3>2 DEF Window, PackedRun
    <3> QED
      BY <3>1, <3>3 DEF Fits
  <2> QED
    BY <2>2, <2>3, <2>4
<1>2. ArenaInv /\ GrowthInv => [CompactStore =>
        LET si == task.si IN
        /\ Cardinality(free'[si]) = Cardinality(free[si])
        /\ free'[si] # {} => Fits(free'[si], Cardinality(free'[si]))]_vars
  BY <1>1
<1> QED
  BY GrowthInvariant, <1>2, PTL DEF CompactionGathersFreeRows

(***************************************************************************)
(* The arena as the scheduler calls it                                     *)
(***************************************************************************)
\* Every call of the scheduler, and every step of the operation it starts, is a
\* step of the arena.
LEMMA CallsAreArenaSteps ==
  ASSUME TypeOK, [CallsNext]_callVars
  PROVE  [Next]_vars
<1> USE DEF Begin
<1>1. CASE \E ctx \in 1 .. MaxCtx : AdmitReserve(ctx)
  BY <1>1 DEF AdmitReserve, Next
<1>2. CASE IntakeCompacts
  BY <1>2 DEF IntakeCompacts, Next
<1>3. CASE \E s \in Slots, ctx \in 1 .. MaxCtx : StreamGrows(s, ctx) \/ AdmissionGrows(s, ctx)
  BY <1>3 DEF StreamGrows, AdmissionGrows, Next
<1>4. CASE \E s \in Slots : PrefillLends(s)
  BY <1>4 DEF PrefillLends, Next
<1>5. CASE PrefillChunk
  BY <1>5 DEF PrefillChunk, Next
<1>6. CASE \E who \in Prefills \cup {Tick} : EndLoan(who) \/ EndLoanFails(who)
  BY <1>6 DEF EndLoan, EndLoanFails, Next
<1>7. CASE \E s \in Slots, p \in 1 .. MaxCtx : Admit(s, p)
  BY <1>7 DEF Admit, Next
<1>8. CASE \E s \in Slots, p \in 1 .. MaxCtx, k \in Stores : AdmitFails(s, p, k)
  BY <1>8 DEF AdmitFails, Next
<1>9. CASE \E s \in Slots, k \in 1 .. 2 : \E keep \in 1 .. k : StreamDecodes(s, k, keep)
  BY <1>9 DEF StreamDecodes, Next
<1>10. CASE \E s \in Slots : Leave(s)
  BY <1>10 DEF Leave, Next
<1>11. CASE Proceed
  <2>1. live \subseteq Slots
    BY DEF TypeOK
  <2> QED
    BY <1>11, <2>1 DEF Proceed, Next
<1>12. CASE ProceedFails
  BY <1>12 DEF ProceedFails, Next
<1>13. CASE Abort
  BY <1>13 DEF Abort, Next
<1>14. CASE FailRequest
  BY <1>14 DEF FailRequest, Next
<1>15. CASE UNCHANGED callVars
  BY <1>15 DEF callVars
<1> QED
  BY <1>1, <1>2, <1>3, <1>4, <1>5, <1>6, <1>7, <1>8, <1>9, <1>10, <1>11, <1>12, <1>13, <1>14,
     <1>15 DEF CallsNext

\* The scheduler's use of the arena is a behaviour of the arena: it implements
\* KvArena's specification, so whatever is proved of the arena holds of it
\* (Sched::tick, decode_step, prefill_tick, try_admit).
THEOREM CallsImplementArena == CallsSpec => Spec
<1>1. CallsInit => Init /\ ArenaInv
  BY InitInv DEF CallsInit
<1>2. ArenaInv /\ [CallsNext]_callVars => ArenaInv' /\ [Next]_vars
  BY CallsAreArenaSteps, NextInv DEF ArenaInv
<1> QED
  BY <1>1, <1>2, PTL DEF CallsSpec, Spec

\* A slot is live exactly while some request owns it, in every state and not
\* only between calls.
RoleInv ==
  /\ role \in [Slots -> {"none", "prefill", "stream"}]
  /\ live = {s \in Slots : role[s] # "none"}

\* Only a reservation, a release or an abort changes the set of live slots.
LEMMA SameSlots ==
  ASSUME RoleInv, UNCHANGED <<live, role>>
  PROVE  RoleInv'
BY DEF RoleInv

LEMMA SlotGone ==
  ASSUME RoleInv, NEW s \in Slots, Release(s), role' = [role EXCEPT ![s] = "none"]
  PROVE  RoleInv'
BY DEF RoleInv, Release

LEMMA RoleNext ==
  ASSUME RoleInv, [CallsNext]_callVars
  PROVE  RoleInv'
<1>1. ASSUME NEW ctx \in 1 .. MaxCtx, AdmitReserve(ctx) PROVE RoleInv'
  <2>1. PICK s \in Slots \ live : live' = live \cup {s}
    BY <1>1 DEF AdmitReserve, Reserve
  <2>2. role' = [t \in Slots |-> IF t = s THEN "prefill" ELSE role[t]]
    BY <1>1, <2>1 DEF AdmitReserve, NewRoles
  <2> QED
    BY <2>1, <2>2 DEF RoleInv
<1>2. ASSUME \/ IntakeCompacts
             \/ \E s \in Slots, ctx \in 1 .. MaxCtx : StreamGrows(s, ctx) \/ AdmissionGrows(s, ctx)
             \/ \E s \in Slots : PrefillLends(s)
      PROVE  RoleInv'
  BY <1>2, SameSlots DEF IntakeCompacts, StreamGrows, AdmissionGrows, PrefillLends, Begin,
     CompactStart, GrowStart, LendStart
<1>3. ASSUME \/ PrefillChunk
             \/ \E who \in Prefills \cup {Tick} : EndLoan(who) \/ EndLoanFails(who)
             \/ \E s \in Slots, p \in 1 .. MaxCtx, k \in Stores : AdmitFails(s, p, k)
             \/ \E s \in Slots, k \in 1 .. 2 : \E keep \in 1 .. k : StreamDecodes(s, k, keep)
      PROVE  RoleInv'
  BY <1>3, SameSlots DEF PrefillChunk, PrefillPass, EndLoan, EndLend, EndLoanFails, EndLendFails,
     AdmitFails, FillFails, StreamDecodes, DecodeStep
<1>4. ASSUME NEW s \in Slots, NEW p \in 1 .. MaxCtx, Admit(s, p) PROVE RoleInv'
  <2>1. s \in live /\ live' = live /\ role' = [role EXCEPT ![s] = "stream"]
    BY <1>4 DEF Admit, Fill
  <2> QED
    BY <2>1 DEF RoleInv
<1>5. ASSUME NEW s \in Slots, Leave(s) PROVE RoleInv'
  BY <1>5, SlotGone DEF Leave
<1>6. ASSUME Proceed PROVE RoleInv'
  <2>1. live' = live /\ role' = role
    BY <1>6 DEF Proceed, GrowKeep, GrowInPlace, ExtendInPlace, GrowRelocate, GrowAround,
       GrowAfterAround, GrowDone, SlideDown, SlideUp, MoveRegion, CompactStore, CompactDone, LendSave
  <2> QED
    BY <2>1, SameSlots
<1>7. ASSUME ProceedFails PROVE RoleInv'
  BY <1>7, SameSlots DEF ProceedFails, SlideFails, RelocateFails, MoveFails
<1>8. ASSUME Abort PROVE RoleInv'
  <2>1. live' = {} /\ role' = [s \in Slots |-> "none"]
    BY <1>8 DEF Abort, AbortAll, vars
  <2> QED
    BY <2>1 DEF RoleInv
<1>9. ASSUME FailRequest PROVE RoleInv'
  BY <1>9, SlotGone DEF FailRequest
<1>10. ASSUME UNCHANGED callVars PROVE RoleInv'
  BY <1>10, SameSlots DEF callVars, vars
<1> QED
  BY <1>1, <1>2, <1>3, <1>4, <1>5, <1>6, <1>7, <1>8, <1>9, <1>10 DEF CallsNext

\* Every live slot belongs to a request that will release it, whatever fails: no
\* admission error, abort or cancellation leaks a reservation (try_admit,
\* prefill_tick, the worker loop's abort).
THEOREM SlotsOwned == CallsSpec => []EverySlotOwned
<1>1. CallsInit => RoleInv
  BY DEF CallsInit, Init, RoleInv
<1>2. RoleInv /\ [CallsNext]_callVars => RoleInv'
  BY RoleNext
<1>3. RoleInv => EverySlotOwned
  BY DEF RoleInv, EverySlotOwned
<1> QED
  BY <1>1, <1>2, <1>3, PTL DEF CallsSpec

\* Only a failed tick leaves a damaged slot behind, its failure is handled before
\* anything else runs, and only live slots are damaged.
CallInv ==
  /\ hurt \subseteq live
  /\ hurt # {} => err = Tick
  /\ err # Nobody => Quiet

\* Tick, Nobody and the slots are told apart.
LEMMA Callers == Tick # Nobody /\ Tick \notin Slots
BY ArenaAssumption DEF Tick, Nobody, Slots

\* Calls that damage nothing and report nothing.
LEMMA HarmlessCall ==
  ASSUME CallInv, Ready, err' = err, hurt' \subseteq hurt, hurt' \subseteq live'
  PROVE  CallInv'
BY Callers DEF CallInv, Ready

LEMMA CallNext ==
  ASSUME ArenaInv, CallInv, RequestFaults \subseteq {"fill"}, [CallsNext]_callVars
  PROVE  CallInv'
<1>1. ASSUME NEW ctx \in 1 .. MaxCtx, AdmitReserve(ctx) PROVE CallInv'
  <2>1. Ready /\ err' = err /\ hurt' = hurt /\ live \subseteq live'
    BY <1>1 DEF AdmitReserve, Reserve
  <2> QED
    BY <2>1, HarmlessCall DEF CallInv
<1>2. ASSUME \/ IntakeCompacts
             \/ \E s \in Slots, ctx \in 1 .. MaxCtx : StreamGrows(s, ctx) \/ AdmissionGrows(s, ctx)
             \/ \E s \in Slots : PrefillLends(s)
      PROVE  CallInv'
  <2>1. Ready /\ err' = err /\ hurt' = hurt /\ live' = live
    BY <1>2 DEF IntakeCompacts, StreamGrows, AdmissionGrows, PrefillLends, Begin, CompactStart,
       GrowStart, LendStart
  <2> QED
    BY <2>1, HarmlessCall DEF CallInv
<1>3. ASSUME \/ PrefillChunk
             \/ \E who \in Prefills \cup {Tick} : EndLoan(who)
             \/ \E s \in Slots, k \in 1 .. 2 : \E keep \in 1 .. k : StreamDecodes(s, k, keep)
             \/ \E s \in Slots, p \in 1 .. MaxCtx : Admit(s, p)
      PROVE  CallInv'
  <2>1. Ready /\ err' = err /\ hurt' = hurt /\ live' = live
    BY <1>3 DEF PrefillChunk, PrefillPass, EndLoan, EndLend, StreamDecodes, DecodeStep, Admit, Fill
  <2> QED
    BY <2>1, HarmlessCall DEF CallInv
<1>4. ASSUME NEW who \in Prefills \cup {Tick}, EndLoanFails(who) PROVE CallInv'
  <2>1. who = Tick /\ err' = Tick
    BY <1>4 DEF EndLoanFails
  <2>2. PICK rec \in swapped : EndLendFails(rec)
    BY <1>4 DEF EndLoanFails
  <2>3. hurt' \subseteq live' /\ Quiet'
    BY <2>2 DEF EndLendFails, Restorable, CallInv, Quiet
  <2> QED
    BY <2>1, <2>3 DEF CallInv
<1>5. ASSUME NEW s \in Slots, NEW p \in 1 .. MaxCtx, NEW k \in Stores, AdmitFails(s, p, k)
      PROVE  CallInv'
  <2>1. Ready /\ Quiet' /\ hurt' = hurt /\ live' = live
    BY <1>5 DEF AdmitFails, FillFails, Quiet
  <2> QED
    BY <2>1, Callers DEF CallInv, Ready
<1>6. ASSUME NEW s \in Slots, Leave(s) PROVE CallInv'
  <2>1. Ready /\ err' = err /\ hurt' = hurt \ {s} /\ live' = live \ {s}
    BY <1>6 DEF Leave, Release
  <2> QED
    BY <2>1, HarmlessCall DEF CallInv
<1>7. ASSUME Proceed PROVE CallInv'
  <2>1. live' = live /\ hurt' = hurt /\ err' = err
    BY <1>7 DEF Proceed, GrowKeep, GrowInPlace, ExtendInPlace, GrowRelocate, GrowAround,
       GrowAfterAround, GrowDone, SlideDown, SlideUp, MoveRegion, CompactStore, CompactDone, LendSave
  <2>2. ~ Quiet
    BY <1>7 DEF Proceed, GrowKeep, GrowInPlace, GrowRelocate, RelocateTo, GrowAround,
       GrowAfterAround, GrowDone, SlideDown, MovesDown, SlideUp, MovesUp, CompactStore, CompactDone,
       LendSave, Growing, Placed, Moving, Quiet
  <2> QED
    BY <2>1, <2>2, Callers DEF CallInv
<1>8. ASSUME ProceedFails PROVE CallInv'
  <2>1. PICK s \in live : \E nb, k : MoveFails(s, nb, k)
    <3>1. CASE SlideFails
      BY <3>1 DEF SlideFails
    <3>2. CASE RelocateFails
      BY <3>2 DEF RelocateFails, RelocateTo, Growing, ArenaInv, TaskInv, GSlot
    <3> QED
      BY <1>8, <3>1, <3>2 DEF ProceedFails
  <2>2. live' = live /\ hurt' \subseteq hurt \cup {s} /\ task' = Idle
    BY <2>1 DEF MoveFails
  <2>3. caller = Tick /\ err' = Tick
    BY <1>8 DEF ProceedFails, CopyMayFail
  <2> QED
    BY <2>2, <2>3 DEF CallInv, Quiet, Idle, Job
<1>9. ASSUME Abort PROVE CallInv'
  <2>1. hurt' = {} /\ err' = Nobody
    <3>1. CASE live = {}
      BY <1>9, <3>1 DEF Abort, vars, CallInv
    <3>2. CASE live # {}
      BY <1>9, <3>2 DEF Abort, AbortAll
    <3> QED
      BY <1>9, <3>1, <3>2 DEF Abort
  <2> QED
    BY <2>1 DEF CallInv
<1>10. ASSUME FailRequest PROVE CallInv'
  <2>1. hurt = {} /\ err' = Nobody /\ hurt' = hurt \ {err}
    BY <1>10, Callers DEF FailRequest, Release, CallInv
  <2> QED
    BY <2>1 DEF CallInv
<1>11. ASSUME UNCHANGED callVars PROVE CallInv'
  BY <1>11 DEF callVars, vars, CallInv, Quiet
<1> QED
  BY <1>1, <1>2, <1>3, <1>4, <1>5, <1>6, <1>7, <1>8, <1>9, <1>10, <1>11 DEF CallsNext

\* While the only copy that can fail under a single request is the one that
\* fills its own reservation, no stream ever decodes on prefill bytes or on rows
\* a failed move has overwritten: a tick that may have damaged a region aborts
\* everything first (decode_step, abort_all).  The hypothesis is needed: run
\* FailedRestore shows the property false when a restore fails under a request.
THEOREM StreamsOwnRows ==
  ASSUME RequestFaults \subseteq {"fill"}
  PROVE  CallsSpec => []StreamsDecodeOwnRows
<1>1. CallsInit => CallInv
  BY DEF CallsInit, Init, CallInv
<1>2. ArenaInv /\ CallInv /\ [CallsNext]_callVars => CallInv'
  BY CallNext
<1>3. RowsInv /\ CallInv => StreamsDecodeOwnRows
  BY Callers DEF RowsInv, RowsIntact, CallInv, StreamsDecodeOwnRows, Ready, Streams, IsLent
<1> QED
  BY <1>1, <1>2, <1>3, CallsImplementArena, RowsInvariant, PTL DEF CallsSpec

=============================================================================
