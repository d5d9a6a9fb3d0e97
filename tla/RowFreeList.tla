---------------------------- MODULE RowFreeList ----------------------------
(***************************************************************************)
(* RowFreeList of v4flash-kernels/src/het/kv_arena.rs: the free rows of a  *)
(* compressed store as a sorted list of runs <<base, length>>, with the    *)
(* list free_runs builds when the arena rebuilds it.  "held" is what the   *)
(* callers own: the regions of the live slots.                             *)
(***************************************************************************)
EXTENDS Integers, FiniteSets, SequencesExt

CONSTANT NRows                    \* rows of the store (rows_cap)

ASSUME ListAssumption == NRows \in Nat

VARIABLES
  free,                           \* the list of free runs
  held                            \* regions handed out

listVars == <<free, held>>

\* the list without its run i, or with the first k rows of it taken
TakeFrom(list, i, k) ==
  IF list[i][2] = k THEN RemoveAt(list, i)
                    ELSE ReplaceAt(list, i, <<list[i][1] + k, list[i][2] - k>>)

\* position(): i is the first of the runs that pass the test
FirstRun(i, passing) == i \in passing /\ \A j \in passing : i <= j

Before(r, t) == r[1] < t[1] \/ (r[1] = t[1] /\ r[2] <= t[2])
\* of a set of runs, the one that sort_unstable puts last
LastRun(X) == CHOOSE r \in X : \A t \in X : Before(t, r)

\* faulty: adjacent runs stay apart
BugNoJoin(out, run) == Append(out, run)
\* give_back: a run right after the last one is joined to it
Join(out, run) ==
  IF out # <<>> /\ Last(out)[1] + Last(out)[2] = run[1]
  THEN [out EXCEPT ![Len(out)] = <<Last(out)[1], Last(out)[2] + run[2]>>] ELSE Append(out, run)
\* ... in order: the last run of a set after what became of the others
GivenBack(list, run) ==
  LET runs == ToSet(list) \cup {run}
      out[X \in SUBSET runs] == IF X = {} THEN <<>> ELSE Join(out[X \ {LastRun(X)}], LastRun(X))
  IN out[runs]

\* free_runs: the gaps between the regions, in order; "at" is the first row
\* no region has reached yet
Gap(acc, run) ==
  [list |-> IF run[1] > acc.at THEN Append(acc.list, <<acc.at, run[1] - acc.at>>) ELSE acc.list,
   at   |-> IF acc.at > run[1] + run[2] THEN acc.at ELSE run[1] + run[2]]
FreeRuns(regs) ==
  LET acc[X \in SUBSET regs] ==
        IF X = {} THEN [list |-> <<>>, at |-> 0] ELSE Gap(acc[X \ {LastRun(X)}], LastRun(X))
      all == acc[regs]
  IN IF NRows > all.at THEN Append(all.list, <<all.at, NRows - all.at>>) ELSE all.list

ListInit == free = (IF NRows > 0 THEN <<<<0, NRows>>>> ELSE <<>>) /\ held = {}

\* carve, for a region that is admitted or relocated
Carve(k) ==
  \E i \in DOMAIN free :
    /\ FirstRun(i, {j \in DOMAIN free : free[j][2] >= k})
    /\ free' = TakeFrom(free, i, k)
    /\ held' = held \cup {<<free[i][1], k>>}

\* faulty: any run that holds the rows after the region, not one that starts there
BugExtend(run, k) ==
  \E i \in DOMAIN free :
    /\ run \in held
    /\ free[i][2] >= k
    /\ free' = TakeFrom(free, i, k)
    /\ held' = (held \ {run}) \cup {<<run[1], run[2] + k>>}
\* carve_at, for a region that grows in place
Extend(run, k) ==
  \E i \in DOMAIN free :
    /\ run \in held
    /\ FirstRun(i, {j \in DOMAIN free : free[j][1] = run[1] + run[2] /\ free[j][2] >= k})
    /\ free' = TakeFrom(free, i, k)
    /\ held' = (held \ {run}) \cup {<<run[1], run[2] + k>>}

GiveBack(run) ==
  /\ run \in held
  /\ free' = GivenBack(free, run)
  /\ held' = held \ {run}

\* rebuild_free_lists, after a failed move (the list it replaces, from which a
\* relocation target may have been carved, plays no part): no region changed
Rebuild == free' = FreeRuns(held) /\ UNCHANGED held

ListNext ==
  \/ \E k \in 1 .. NRows : Carve(k)
  \/ \E run \in held, k \in 1 .. NRows : Extend(run, k)
  \/ \E run \in held : GiveBack(run)
  \/ Rebuild

ListSpec == ListInit /\ [][ListNext]_listVars

(***************************************************************************)
(* Properties                                                              *)
(***************************************************************************)
RowsOf(run) == run[1] .. (run[1] + run[2] - 1)
Covered == UNION {RowsOf(run) : run \in ToSet(free)}

\* The list is canonical: positive runs, ascending, and never two that touch.
\* carve_at finds a run only by its start and carve only one run at a time, so
\* two touching runs would hide rows that are free (give_back, free_runs).
Canonical ==
  /\ \A i \in DOMAIN free : free[i][2] > 0
  /\ \A i, j \in DOMAIN free : i < j => free[i][1] + free[i][2] < free[j][1]

\* The list implements the set of free rows: carve is first fit over the set,
\* carve_at takes the rows right after a region exactly when they are free, and
\* give_back and rebuild_free_lists lose no row.
Allocator == INSTANCE RowAllocator WITH rows <- Covered
ImplementsAllocator == Allocator!AllocSpec
=============================================================================
