---------------------------- MODULE RowAllocator ----------------------------
(***************************************************************************)
(* The abstract row allocator of one compressed store: a set of free rows  *)
(* and the runs handed out.  RowFreeList implements it.                    *)
(***************************************************************************)
EXTENDS RowSets

CONSTANT NRows                    \* rows of the store (rows_cap)

VARIABLES
  rows,                           \* the free rows
  held                            \* runs <<base, rows>> handed out (regions)

AllocRows == 0 .. (NRows - 1)
RunRows(run) == run[1] .. (run[1] + run[2] - 1)

AllocInit == rows = AllocRows /\ held = {}

\* a region of k rows is placed by first fit
AllocCarve(k) ==
  \E b \in rows : /\ FirstFit(rows, b, k)
                  /\ rows' = rows \ RunRows(<<b, k>>)
                  /\ held' = held \cup {<<b, k>>}

\* a region grows by k rows into the run right after it
AllocExtend(run, k) ==
  /\ run \in held
  /\ CarveAt(rows, run[1] + run[2], k)
  /\ rows' = rows \ RunRows(<<run[1] + run[2], k>>)
  /\ held' = (held \ {run}) \cup {<<run[1], run[2] + k>>}

AllocGiveBack(run) ==
  /\ run \in held
  /\ rows' = rows \cup RunRows(run)
  /\ held' = held \ {run}

AllocNext ==
  \/ \E k \in 1 .. NRows : AllocCarve(k)
  \/ \E run \in held, k \in 1 .. NRows : AllocExtend(run, k)
  \/ \E run \in held : AllocGiveBack(run)

AllocSpec == AllocInit /\ [][AllocNext]_<<rows, held>>
=============================================================================
