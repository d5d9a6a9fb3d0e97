------------------------------ MODULE RowSets ------------------------------
(***************************************************************************)
(* What the arena's row allocator promises, over the SET of free rows: a   *)
(* run is a maximal interval of the set; and what a move of a region's     *)
(* rows leaves when it is cut short.  KvArena uses these operators;        *)
(* RowFreeList shows that the allocator's sorted list of runs obeys them,  *)
(* MoveChunks that the chunked copies do.                                  *)
(***************************************************************************)
EXTENDS Integers

\* rows b .. b+k-1 are all in F
Window(F, b, k) == b .. (b + k - 1) \subseteq F
\* RowFreeList::carve: the start of the lowest run that holds k rows
FirstFit(F, b, k) == Window(F, b, k) /\ \A c \in F : c < b => ~ Window(F, c, k)
\* RowFreeList::fits
Fits(F, k) == \E b \in F : Window(F, b, k)
\* RowFreeList::carve_at: a run STARTS at b and holds k rows
CarveAt(F, b, k) == Window(F, b, k) /\ b - 1 \notin F

\* move_region_rows: the first k of n rows have been copied, in the order that
\* reads every row before it is overwritten
Copied(from, to, n, k) == IF to < from THEN to .. (to + k - 1)
                                       ELSE (to + n - k) .. (to + n - 1)
PartMove(d, from, to, n, k) ==
  [r \in DOMAIN d |-> IF r \in Copied(from, to, n, k) THEN d[r - to + from] ELSE d[r]]
=============================================================================
