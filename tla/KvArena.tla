------------------------------ MODULE KvArena ------------------------------
(***************************************************************************)
(* The multi-stream KV arena (v4flash-kernels/src/het/kv_arena.rs): the    *)
(* regions that live streams hold in the compressed stores, the free rows, *)
(* the moves that grow and compact regions, and the loan of the stores'    *)
(* ends to a prefill pass.                                                 *)
(*                                                                         *)
(* All operations run on the scheduler thread between decode steps, so at  *)
(* most one of them is in progress; but a grow, a compaction or a loan     *)
(* moves one region at a time and can fail at every copy, so each of them  *)
(* is a sequence of steps here, driven by "task".                          *)
(*                                                                         *)
(* A store's free list is modelled by the set of rows it covers: module    *)
(* RowFreeList shows that the sorted list of runs implements that set.     *)
(* A stored row is modelled by a tag <<slot, i>>: row i of the stream that *)
(* holds the slot now.  When a stream leaves, its tags become Junk, so a   *)
(* row of an earlier holder of a slot is never taken for a current one.    *)
(* The compressed rows and the index keys of a region move together        *)
(* (n_index_comp tracks n_comp) and are one row here.                      *)
(***************************************************************************)
EXTENDS Integers, FiniteSets, RowSets

CONSTANTS
  NSlots,       \* slots of the arena (n_slots)
  NStores,      \* compressed stores, one per KV-source layer
  Ratio,        \* positions per compressed row, per store
  RowsCap,      \* rows per store (rows_cap)
  LentRows,     \* rows the prefill loan takes at the end of each store
  MaxCtx,       \* bound on the context a request may ask for
  Faults        \* device copies that may fail: "move", "fill", "restore"

Slots == 1..NSlots
Stores == 1..NStores
Rows(si) == 0..(RowsCap[si] - 1)
BugCeilDiv(a, b) == a \div b              \* faulty: rounds down
CeilDiv(a, b) == (a + b - 1) \div b

ASSUME ArenaAssumption ==
  /\ NSlots \in Nat \ {0} /\ NStores \in Nat \ {0} /\ MaxCtx \in Nat
  /\ Ratio \in [Stores -> {1, 2}]
  /\ RowsCap \in [Stores -> Nat \ {0}]
  /\ LentRows \in [Stores -> Nat]
  /\ Faults \subseteq {"move", "fill", "restore"}

VARIABLES
  live,         \* slots that hold a stream or a reservation
  pos,          \* next position of each slot's stream
  reg,          \* reg[s][si]: the region [base, cap, n] of slot s in store si
  free,         \* rows the free list of each store covers
  data,         \* data[si][r]: what row r of store si holds
  lent,         \* is the end of the stores lent to a prefill pass?
  swapped,      \* live rows saved to the host for the loan
  task,         \* the grow, compaction or loan in progress
  hurt          \* live slots whose rows a failed copy may have cost (ghost)

vars == <<live, pos, reg, free, data, lent, swapped, task, hurt>>

(***************************************************************************)
(* Helpers                                                                 *)
(***************************************************************************)
Junk == <<0, 0>>
Region(b, c, n) == [base |-> b, cap |-> c, n |-> n]
End(s, si) == reg[s][si].base + reg[s][si].cap
LiveEnd(s, si) == reg[s][si].base + reg[s][si].n
Owned(s, si) == reg[s][si].base .. (End(s, si) - 1)
Need(ctx, si) == IF ctx = 0 THEN 1 ELSE CeilDiv(ctx, Ratio[si])
AllRows == UNION {Rows(si) : si \in Stores}

\* free_runs: the complement of the live regions
FreeRuns(si) == {r \in Rows(si) : \A s \in live : r \notin Owned(s, si)}

\* faulty: one row at a time, front to back whatever the direction
BugMoveRows(d, from, to, n) ==
  [r \in DOMAIN d |-> IF r \in to .. (to + n - 1)
                      THEN LET o == r - to IN d[from + (IF to > from THEN o % (to - from) ELSE o)]
                      ELSE IF r \in from .. (from + n - 1) THEN Junk ELSE d[r]]
\* ... and all of them; nothing may rely on the rows they left
MoveRows(d, from, to, n) ==
  [r \in DOMAIN d |-> IF r \in to .. (to + n - 1) THEN d[r - to + from]
                      ELSE IF r \in from .. (from + n - 1) THEN Junk ELSE d[r]]

\* rows lo .. hi-1 of slot s's region in a store hold its rows from index i on
WriteRows(d, s, lo, hi, i) ==
  [r \in DOMAIN d |-> IF r \in lo .. (hi - 1) THEN <<s, i + r - lo>> ELSE d[r]]
JunkRows(d, R) == [r \in DOMAIN d |-> IF r \in R THEN Junk ELSE d[r]]
Forget(d, S) == [r \in DOMAIN d |-> IF d[r][1] \in S THEN Junk ELSE d[r]]

LentLo(si) == IF LentRows[si] < RowsCap[si] THEN RowsCap[si] - LentRows[si] ELSE 0
LentRange(si) == LentLo(si) .. (RowsCap[si] - 1)
\* faulty: misses a region that starts below the lent end and reaches into it
BugLiveTails(si) == {s \in live : LentRange(si) # {} /\ reg[s][si].base > LentLo(si)}
\* live_tails: live rows of store si that reach into the lent end
LiveTails(si) == {s \in live : LentRange(si) # {} /\ LiveEnd(s, si) > LentLo(si)}
OverlapsLent == \E si \in Stores : LiveTails(si) # {}

ReservedPositions(s) == {reg[s][si].cap * Ratio[si] : si \in Stores}
HoldsPositions(s, k) == \A c \in ReservedPositions(s) : c >= k

\* rows a store of ratio q has after p positions
RowsAt(p, si) == p \div Ratio[si]

(***************************************************************************)
(* Tasks.  op: idle, grow (si is the store in hand), around (compacting    *)
(* store si around the growing region), compact, lend (compaction done,    *)
(* save what still overlaps).  low and high: slots still to place; next    *)
(* and top: the first row above the placed low regions, the first row of   *)
(* the placed high ones.  lending: the compaction was asked for by a loan. *)
(***************************************************************************)
Job(op, si, slot, ctx) ==
  [op |-> op, si |-> si, slot |-> slot, ctx |-> ctx, low |-> {}, high |-> {},
   next |-> 0, top |-> 0, lending |-> FALSE]
Idle == Job("idle", 1, 1, 0)
Quiet == task.op = "idle"

Init ==
  /\ live = {}
  /\ pos = [s \in Slots |-> 0]
  /\ reg = [s \in Slots |-> [si \in Stores |-> Region(0, 0, 0)]]
  /\ free = [si \in Stores |-> Rows(si)]
  /\ data = [si \in Stores |-> [r \in Rows(si) |-> Junk]]
  /\ lent = FALSE
  /\ swapped = {}
  /\ task = Idle
  /\ hurt = {}

(***************************************************************************)
(* Reservations                                                            *)
(***************************************************************************)
\* admit / reserve: the first free slot and, in every store, the first run
\* that fits; allowed while the stores are lent
Reserve(ctx) ==
  /\ Quiet
  /\ \E s \in Slots \ live, b \in [Stores -> AllRows] :
       /\ \A t \in Slots \ live : s <= t
       /\ \A si \in Stores : FirstFit(free[si], b[si], Need(ctx, si))
       /\ live' = live \cup {s}
       /\ pos' = [pos EXCEPT ![s] = 0]
       /\ reg' = [reg EXCEPT ![s] = [si \in Stores |-> Region(b[si], Need(ctx, si), 0)]]
       /\ free' = [si \in Stores |-> free[si] \ (b[si] .. (b[si] + Need(ctx, si) - 1))]
  /\ UNCHANGED <<data, lent, swapped, task, hurt>>

ForgetSaved(S) == {[rec EXCEPT !.img = Forget(rec.img, S)] : rec \in swapped}
\* release: allowed while the stores are lent
Release(s) ==
  /\ Quiet
  /\ s \in live
  /\ live' = live \ {s}
  /\ free' = [si \in Stores |-> free[si] \cup Owned(s, si)]
  /\ data' = [si \in Stores |-> Forget(data[si], {s})]
  /\ swapped' = ForgetSaved({s})
  /\ hurt' = hurt \ {s}
  /\ pos' = [pos EXCEPT ![s] = 0]
  /\ reg' = [reg EXCEPT ![s] = [si \in Stores |-> Region(0, 0, 0)]]
  /\ UNCHANGED <<lent, task>>

\* slot s's region in a store, with n rows written; with k rows of room
WithRows(s, si, n) == Region(reg[s][si].base, reg[s][si].cap, n)
WithCap(s, si, k) == Region(reg[s][si].base, k, reg[s][si].n)
Fresh(s) == pos[s] = 0 /\ \A si \in Stores : reg[s][si].n = 0

\* fill_reserved: the prompt's p positions are copied into the reservation;
\* p + 1 positions must fit
Fill(s, p) ==
  /\ Quiet /\ ~ lent
  /\ s \in live /\ Fresh(s) /\ HoldsPositions(s, p + 1)
  /\ pos' = [pos EXCEPT ![s] = p]
  /\ reg' = [reg EXCEPT ![s] = [si \in Stores |-> WithRows(s, si, RowsAt(p, si))]]
  /\ data' = [si \in Stores |->
                LET b == reg[s][si].base IN WriteRows(data[si], s, b, b + RowsAt(p, si), 0)]
  /\ UNCHANGED <<live, free, lent, swapped, task, hurt>>

\* ... it fails after the first k stores were copied: the counters have not
\* moved, the slot stays reserved and is the caller's to release
FillFails(s, p, k) ==
  /\ "fill" \in Faults
  /\ Quiet /\ ~ lent
  /\ s \in live /\ Fresh(s) /\ HoldsPositions(s, p + 1)
  /\ data' = [si \in Stores |->
                LET b == reg[s][si].base
                IN IF si <= k THEN WriteRows(data[si], s, b, b + RowsAt(p, si), 0) ELSE data[si]]
  /\ UNCHANGED <<live, pos, reg, free, lent, swapped, task, hurt>>

\* faulty: the rows of rejected positions are counted
BugKeptRows(p, k, keep, si) == RowsAt(p + k, si) - RowsAt(p, si)
\* advance: compressed rows completed by the first "keep" of k positions from p on
KeptRows(p, k, keep, si) == RowsAt(p + keep, si) - RowsAt(p, si)

\* tables + the step's kernels + accept: a stream runs k rows at consecutive
\* positions, every one of which must have room for its compressed row, and
\* keeps the first "keep"; the rows written for the others stay behind
DecodeStep(s, k, keep) ==
  /\ Quiet /\ ~ lent
  /\ s \in live /\ pos[s] > 0
  /\ \A si \in Stores : reg[s][si].n + KeptRows(pos[s], k, k, si) <= reg[s][si].cap
  /\ pos' = [pos EXCEPT ![s] = @ + keep]
  /\ reg' = [reg EXCEPT ![s] = [si \in Stores |->
                WithRows(s, si, reg[s][si].n + KeptRows(pos[s], k, keep, si))]]
  /\ data' = [si \in Stores |->
                LET lo  == LiveEnd(s, si)
                    mid == lo + KeptRows(pos[s], k, keep, si)
                    hi  == lo + KeptRows(pos[s], k, k, si)
                IN JunkRows(WriteRows(data[si], s, lo, mid, reg[s][si].n), mid .. (hi - 1))]
  /\ UNCHANGED <<live, free, lent, swapped, task, hurt>>

(***************************************************************************)
(* grow: per store, extend in place, else relocate, else compact around    *)
(* the region and extend                                                   *)
(***************************************************************************)
Extra(s, ctx, si) == Need(ctx, si) - reg[s][si].cap

\* a store with fewer free rows than the growth needs: Ok(None), no change
GrowStart(s, ctx) ==
  /\ Quiet /\ ~ lent
  /\ s \in live
  /\ \A si \in Stores : Extra(s, ctx, si) <= Cardinality(free[si])
  /\ task' = Job("grow", 1, s, ctx)
  /\ UNCHANGED <<live, pos, reg, free, data, lent, swapped, hurt>>

Growing == task.op = "grow" /\ task.si \in Stores
GSlot == task.slot
GExtra == Extra(task.slot, task.ctx, task.si)
GEnd == End(task.slot, task.si)
NextStore == Job("grow", task.si + 1, task.slot, task.ctx)

GrowKeep ==
  /\ Growing /\ GExtra <= 0
  /\ task' = NextStore
  /\ UNCHANGED <<live, pos, reg, free, data, lent, swapped, hurt>>

\* the region takes the free rows right after it
ExtendInPlace ==
  /\ CarveAt(free[task.si], GEnd, GExtra)
  /\ reg' = [reg EXCEPT ![GSlot][task.si] = WithCap(GSlot, task.si, Need(task.ctx, task.si))]
  /\ free' = [free EXCEPT ![task.si] = @ \ (GEnd .. (GEnd + GExtra - 1))]
  /\ task' = NextStore
  /\ UNCHANGED <<live, pos, data, lent, swapped, hurt>>

GrowInPlace == Growing /\ GExtra > 0 /\ ExtendInPlace

\* the region moves to a free run that holds the grown size
RelocateTo(nb) ==
  /\ Growing /\ GExtra > 0
  /\ ~ CarveAt(free[task.si], GEnd, GExtra)
  /\ FirstFit(free[task.si], nb, Need(task.ctx, task.si))

GrowRelocate ==
  \E nb \in AllRows :
    LET si == task.si
        r  == reg[GSlot][si]
        k  == Need(task.ctx, si)
    IN /\ RelocateTo(nb)
       /\ data' = [data EXCEPT ![si] = MoveRows(@, r.base, nb, r.n)]
       /\ free' = [free EXCEPT ![si] = (@ \ (nb .. (nb + k - 1))) \cup Owned(GSlot, si)]
       /\ reg' = [reg EXCEPT ![GSlot][si] = Region(nb, k, r.n)]
       /\ task' = NextStore
       /\ UNCHANGED <<live, pos, lent, swapped, hurt>>

\* faulty: the growing region itself is packed up
BugPackDown(si) == {s \in live : reg[s][si].base < reg[GSlot][si].base}
\* plan_compact_around: the regions at or below the growing one pack down
PackDown(si) == {s \in live : reg[s][si].base <= reg[GSlot][si].base}

\* no run is long enough: compact the store around the region
GrowAround ==
  LET si == task.si IN
  /\ Growing /\ GExtra > 0
  /\ ~ CarveAt(free[si], GEnd, GExtra)
  /\ ~ Fits(free[si], Need(task.ctx, si))
  /\ task' = [task EXCEPT !.op = "around",
                          !.low = PackDown(si), !.high = live \ PackDown(si),
                          !.next = 0, !.top = RowsCap[si]]
  /\ UNCHANGED <<live, pos, reg, free, data, lent, swapped, hurt>>

GrowDone ==
  /\ task.op = "grow" /\ task.si \notin Stores
  /\ task' = Idle
  /\ UNCHANGED <<live, pos, reg, free, data, lent, swapped, hurt>>

(***************************************************************************)
(* Moving regions.  The low ones slide down in ascending order, the high   *)
(* ones (around only) up in descending order.                              *)
(***************************************************************************)
Moving == task.op \in {"around", "compact"} /\ task.si \in Stores
\* faulty: in slot order, not in the order of the bases
BugMovesDown(s) == Moving /\ s \in task.low /\ \A t \in task.low : s <= t
MovesDown(s) ==
  /\ Moving /\ s \in task.low
  /\ \A t \in task.low : reg[s][task.si].base <= reg[t][task.si].base
MovesUp(s) ==
  /\ Moving /\ task.low = {} /\ s \in task.high
  /\ \A t \in task.high : reg[t][task.si].base <= reg[s][task.si].base

MoveRegion(s, nb) ==
  LET si == task.si
      r  == reg[s][si]
  IN /\ data' = IF r.base = nb THEN data ELSE [data EXCEPT ![si] = MoveRows(@, r.base, nb, r.n)]
     /\ reg' = [reg EXCEPT ![s][si] = Region(nb, r.cap, r.n)]
     /\ UNCHANGED <<live, pos, free, lent, swapped, hurt>>

SlideDown(s) ==
  /\ MovesDown(s)
  /\ MoveRegion(s, task.next)
  /\ task' = [task EXCEPT !.low = @ \ {s}, !.next = @ + reg[s][task.si].cap]

SlideUp(s) ==
  /\ MovesUp(s)
  /\ MoveRegion(s, task.top - reg[s][task.si].cap)
  /\ task' = [task EXCEPT !.high = @ \ {s}, !.top = @ - reg[s][task.si].cap]

Placed == Moving /\ task.low = {} /\ task.high = {}

\* faulty: one row past the end
BugPackedRun == task.next .. task.top
\* the store's free rows, in one run once every region is placed
PackedRun == task.next .. (task.top - 1)

\* ... right after the growing region, which extends into it
GrowAfterAround ==
  LET si == task.si IN
  /\ Placed /\ task.op = "around"
  /\ CarveAt(PackedRun, GEnd, GExtra)
  /\ reg' = [reg EXCEPT ![GSlot][si] = WithCap(GSlot, si, Need(task.ctx, si))]
  /\ free' = [free EXCEPT ![si] = PackedRun \ (GEnd .. (GEnd + GExtra - 1))]
  /\ task' = NextStore
  /\ UNCHANGED <<live, pos, data, lent, swapped, hurt>>

(***************************************************************************)
(* compact_stores: slide every region of every store down                  *)
(***************************************************************************)
CompactFrom(si, lending) ==
  [op |-> "compact", si |-> si, slot |-> 1, ctx |-> 0, high |-> {}, next |-> 0,
   low |-> IF si \in Stores THEN live ELSE {},
   top |-> IF si \in Stores THEN RowsCap[si] ELSE 0, lending |-> lending]

CompactStart ==
  /\ Quiet /\ ~ lent
  /\ task' = CompactFrom(1, FALSE)
  /\ UNCHANGED <<live, pos, reg, free, data, lent, swapped, hurt>>

\* faulty: the last row of the store is forgotten
BugCompactStore ==
  /\ Placed /\ task.op = "compact"
  /\ free' = [free EXCEPT ![task.si] = PackedRun \ {task.top - 1}]
  /\ task' = CompactFrom(task.si + 1, task.lending)
  /\ UNCHANGED <<live, pos, reg, data, lent, swapped, hurt>>
CompactStore ==
  /\ Placed /\ task.op = "compact"
  /\ free' = [free EXCEPT ![task.si] = PackedRun]
  /\ task' = CompactFrom(task.si + 1, task.lending)
  /\ UNCHANGED <<live, pos, reg, data, lent, swapped, hurt>>

CompactDone ==
  /\ task.op = "compact" /\ task.si \notin Stores
  /\ task' = IF task.lending THEN Job("lend", 1, 1, 0) ELSE Idle
  /\ UNCHANGED <<live, pos, reg, free, data, lent, swapped, hurt>>

(***************************************************************************)
(* A copy of a move fails after k rows: the region keeps its base, grow    *)
(* and compact_stores rebuild every free list from the regions and return  *)
(* the error.  The rows already copied over the region itself are lost.    *)
(***************************************************************************)
\* faulty: the lists are left as they were when the move began
BugRebuilt(sj) == free[sj]
\* rebuild_free_lists
Rebuilt(sj) == FreeRuns(sj)
MoveFails(s, nb, k) ==
  LET si == task.si
      r  == reg[s][si]
      to == Copied(r.base, nb, r.n, k)
  IN /\ "move" \in Faults
     /\ nb # r.base /\ r.n > 0 /\ k \in 0 .. r.n
     /\ data' = [data EXCEPT ![si] = PartMove(@, r.base, nb, r.n, k)]
     /\ hurt' = IF to \cap (r.base .. (r.base + r.n - 1)) = {} THEN hurt ELSE hurt \cup {s}
     /\ free' = [sj \in Stores |-> Rebuilt(sj)]
     /\ task' = Idle
     /\ UNCHANGED <<live, pos, reg, lent, swapped>>

SlideFails ==
  \E s \in live, k \in 0 .. MaxCtx :
    \/ MovesDown(s) /\ MoveFails(s, task.next, k)
    \/ MovesUp(s) /\ MoveFails(s, task.top - reg[s][task.si].cap, k)

RelocateFails ==
  \E nb \in AllRows, k \in 0 .. MaxCtx : RelocateTo(nb) /\ MoveFails(GSlot, nb, k)

(***************************************************************************)
(* The loan of the stores' ends to a prefill pass                          *)
(***************************************************************************)
\* lend: compact first if live rows sit in the lent end
LendStart ==
  /\ Quiet /\ ~ lent
  /\ task' = IF OverlapsLent THEN CompactFrom(1, TRUE) ELSE Job("lend", 1, 1, 0)
  /\ UNCHANGED <<live, pos, reg, free, data, lent, swapped, hurt>>

\* ... then save the live rows that still overlap, and mark the arena lent
SavedFrom(s, si) == IF reg[s][si].base > LentLo(si) THEN reg[s][si].base ELSE LentLo(si)
Saved(s, si) ==
  LET a == SavedFrom(s, si)
      k == LiveEnd(s, si) - a
  IN [slot |-> s, si |-> si, base |-> reg[s][si].base, lo |-> a, n |-> k,
      img |-> [r \in AllRows |-> IF r \in a .. (a + k - 1) THEN data[si][r] ELSE Junk]]
LendSave ==
  /\ task.op = "lend"
  /\ swapped' = UNION {{Saved(s, si) : s \in LiveTails(si)} : si \in Stores}
  /\ lent' = TRUE
  /\ task' = Idle
  /\ UNCHANGED <<live, pos, reg, free, data, hurt>>

\* the prefill pass writes its scratch into the lent rows
PrefillPass ==
  /\ Quiet /\ lent
  /\ data' = [si \in Stores |-> JunkRows(data[si], LentRange(si))]
  /\ UNCHANGED <<live, pos, reg, free, lent, swapped, task, hurt>>

\* is the record still the same region's data?
Restorable(rec) ==
  /\ rec.slot \in live
  /\ reg[rec.slot][rec.si].base = rec.base
  /\ rec.n = 0 \/ LiveEnd(rec.slot, rec.si) >= rec.lo + rec.n

Restored(d, recs) ==
  [si \in Stores |-> [r \in DOMAIN d[si] |->
     IF \E rec \in recs : rec.si = si /\ r \in rec.lo .. (rec.lo + rec.n - 1)
     THEN (CHOOSE rec \in recs : rec.si = si /\ r \in rec.lo .. (rec.lo + rec.n - 1)).img[r]
     ELSE d[si][r]]]

\* end_lend: write back what is still the same region's data
EndLend ==
  /\ Quiet /\ lent
  /\ data' = Restored(data, {rec \in swapped : Restorable(rec)})
  /\ swapped' = {}
  /\ lent' = FALSE
  /\ UNCHANGED <<live, pos, reg, free, task, hurt>>

\* the records are popped from the last one pushed: by store, then by slot
RestoredBefore(rec) == {d \in swapped : d.si > rec.si \/ (d.si = rec.si /\ d.slot > rec.slot)}
\* ... the copy of rec fails: the records popped before it are gone, the others
\* are kept and the arena stays lent; the restored rows lie in the lent range
\* with no host copy any more
EndLendFails(rec) ==
  LET done == RestoredBefore(rec) IN
  /\ "restore" \in Faults
  /\ Quiet /\ lent
  /\ rec \in swapped /\ Restorable(rec) /\ rec.n > 0
  /\ data' = Restored(data, {d \in done : Restorable(d)})
  /\ swapped' = swapped \ done
  /\ hurt' = hurt \cup {d.slot : d \in {e \in done : Restorable(e)}}
  /\ UNCHANGED <<live, pos, reg, free, lent, task>>

\* abort_all: every slot is released and the free lists are rebuilt; it does
\* not end the loan
AbortAll ==
  /\ Quiet
  /\ live # {}
  /\ live' = {}
  /\ free' = [si \in Stores |-> Rows(si)]
  /\ data' = [si \in Stores |-> Forget(data[si], Slots)]
  /\ swapped' = ForgetSaved(Slots)
  /\ hurt' = {}
  /\ pos' = [s \in Slots |-> 0]
  /\ reg' = [s \in Slots |-> [si \in Stores |-> Region(0, 0, 0)]]
  /\ UNCHANGED <<lent, task>>

Next ==
  \/ \E ctx \in 1 .. MaxCtx : Reserve(ctx)
  \/ \E s \in Slots : Release(s)
  \/ \E s \in Slots, p \in 1 .. MaxCtx : Fill(s, p)
  \/ \E s \in Slots, p \in 1 .. MaxCtx, k \in Stores : FillFails(s, p, k)
  \/ \E s \in Slots, k \in 1 .. 2 : \E keep \in 1 .. k : DecodeStep(s, k, keep)
  \/ \E s \in Slots, ctx \in 1 .. MaxCtx : GrowStart(s, ctx)
  \/ GrowKeep \/ GrowInPlace \/ GrowRelocate \/ GrowAround \/ GrowAfterAround \/ GrowDone
  \/ \E s \in Slots : SlideDown(s) \/ SlideUp(s)
  \/ SlideFails \/ RelocateFails
  \/ CompactStart \/ CompactStore \/ CompactDone
  \/ LendStart \/ LendSave \/ PrefillPass \/ EndLend
  \/ \E rec \in swapped : EndLendFails(rec)
  \/ AbortAll

Spec == Init /\ [][Next]_vars

(***************************************************************************)
(* Properties                                                              *)
(***************************************************************************)
Tags == (Slots \X Nat) \cup {Junk}
SwapRec == [slot : Slots, si : Stores, base : Nat, lo : Nat, n : Nat, img : [AllRows -> Tags]]
TaskType ==
  [op : {"idle", "grow", "around", "compact", "lend"}, si : Nat \ {0}, slot : Slots, ctx : Nat,
   low : SUBSET Slots, high : SUBSET Slots, next : Nat, top : Nat,
   lending : BOOLEAN]

\* Every variable of the arena has the type its declaration in KvArena, StreamKv
\* and CompRegion gives it.
TypeOK ==
  /\ live \subseteq Slots
  /\ pos \in [Slots -> Nat]
  /\ reg \in [Slots -> [Stores -> [base : Nat, cap : Nat, n : Nat]]]
  /\ free = [si \in Stores |-> free[si]] /\ data = [si \in Stores |-> data[si]]
  /\ \A si \in Stores : free[si] \subseteq Rows(si) /\ data[si] \in [Rows(si) -> Tags]
  /\ lent \in BOOLEAN
  /\ swapped \subseteq SwapRec
  /\ task \in TaskType
  /\ hurt \subseteq Slots

\* Two live slots never hold the same row of a store and no region leaves its
\* store, also between the moves of a grow or a compaction and after one of
\* them failed (admit, grow_inner, compact_stores_inner, rebuild_free_lists).
RegionsDisjoint ==
  \A si \in Stores :
    /\ \A s \in live : End(s, si) <= RowsCap[si] /\ reg[s][si].n <= reg[s][si].cap
    /\ \A s, t \in live : s # t => End(s, si) <= reg[t][si].base \/ End(t, si) <= reg[s][si].base

\* Between calls the free list is exactly the rows no live slot holds: nothing
\* leaks and nothing is handed out twice, whatever failed before.
FreeExact == Quiet => \A si \in Stores : free[si] = FreeRuns(si)

\* What store si gives back for index i of slot s: the row itself, or its host
\* copy while the row is lent out.
InPlace(s, si, i) == data[si][reg[s][si].base + i] = <<s, i>>
SavedRow(s, si, i) ==
  \E rec \in swapped :
    LET r == reg[s][si].base + i IN
    /\ rec.si = si /\ Restorable(rec) /\ rec.slot = s
    /\ r \in rec.lo .. (rec.lo + rec.n - 1)
    /\ rec.img[r] = <<s, i>>
IsLent(r, si) == lent /\ r \in LentRange(si)

\* Every row a stream has written can be read back, through every grow,
\* compaction and loan of itself or of its neighbours, unless a copy of this very
\* region failed halfway (move_region_rows, lend, end_lend).
RowsIntact ==
  \A s \in live \ hurt, si \in Stores : \A i \in 0 .. (reg[s][si].n - 1) :
    IF IsLent(reg[s][si].base + i, si) THEN SavedRow(s, si, i) ELSE InPlace(s, si, i)

\* When a grow compacts the store around its region, the run it needs is there:
\* the "grow after compaction found no run" error never happens.
GrowRunFound ==
  Placed /\ task.op = "around" => CarveAt(PackedRun, GEnd, GExtra)

\* A grow that returns Ok holds the positions it was asked for, in every store.
GrownHoldsContext ==
  task.op = "grow" /\ task.si \notin Stores => HoldsPositions(GSlot, task.ctx)

\* A compacted store has as many free rows as before, in one run: a request that
\* fits_after_compaction said would fit can be reserved (the scheduler relies on
\* it when it compacts at admission).
CompactionGathersFreeRows ==
  [][CompactStore =>
       LET si == task.si IN
       /\ Cardinality(free'[si]) = Cardinality(free[si])
       /\ free'[si] # {} => Fits(free'[si], Cardinality(free'[si]))]_vars

\* A stream's compressed rows count its whole groups: after any fill, decode
\* step with rejected rows, move or loan, store si of a stream at position p
\* holds p \div ratio rows.
RowsTrackPosition == \A s \in live, si \in Stores : reg[s][si].n = RowsAt(pos[s], si)

(***************************************************************************)
(* The inductive invariant behind TypeOK, RegionsDisjoint and FreeExact    *)
(***************************************************************************)
CapsPositive == \A s \in live, si \in Stores : reg[s][si].cap >= 1

\* the free list of a store is stale only while its regions are being moved
FreeInv == \A si \in Stores : (Moving /\ si = task.si) \/ free[si] = FreeRuns(si)

TaskInv ==
  /\ task.op \in {"grow", "around"} => task.slot \in live
  /\ task.op = "around" => task.si \in Stores /\ GExtra > 0

\* halfway through a compaction the placed regions tile the rows below next
\* and from top on, and those still to place lie between
MoveInv ==
  Moving =>
    LET si == task.si
        todo == task.low \cup task.high
    IN /\ task.next <= task.top /\ task.top <= RowsCap[si]
       /\ todo \subseteq live /\ task.low \cap task.high = {}
       /\ \A s \in todo : task.next <= reg[s][si].base /\ End(s, si) <= task.top
       /\ \A s \in live \ todo : End(s, si) <= task.next \/ task.top <= reg[s][si].base
       /\ \A r \in Rows(si) : r \in PackedRun \/ \E s \in live \ todo : r \in Owned(s, si)
       /\ \A s \in task.low, t \in task.high : End(s, si) <= reg[t][si].base

\* The conjunction that every step preserves.
ArenaInv == TypeOK /\ RegionsDisjoint /\ CapsPositive /\ FreeInv /\ TaskInv /\ MoveInv
=============================================================================
