----------------------------- MODULE MoveChunks -----------------------------
(***************************************************************************)
(* move_region_rows of v4flash-kernels/src/het/kv_arena.rs: rows move from *)
(* row "from" to row "to" of ONE buffer, a chunk at a time through a       *)
(* bounce buffer, in the order move_chunks gives.  Every copy may be the   *)
(* last one before a failure.                                              *)
(***************************************************************************)
EXTENDS RowSets, SequencesExt

CONSTANTS
  BufRows,       \* rows of the buffer
  MaxChunk       \* bound on the rows of the bounce buffer

ASSUME MoveAssumption == BufRows \in Nat /\ MaxChunk \in Nat

VARIABLES
  from, to,      \* the move
  total,         \* ... of so many rows
  chunk,         \* rows the bounce buffer holds
  buf,           \* what each row of the store holds
  bounce,        \* rows in the bounce buffer
  todo           \* copies still to make, each <<source, destination, rows>>

moveVars == <<from, to, total, chunk, buf, bounce, todo>>

\* faulty: front to back in both directions
BugMoveChunks(f, t, k, c) ==
  [i \in 1 .. ((k + c - 1) \div c) |->
     LET r == (i - 1) * c IN <<f + r, t + r, IF k - r < c THEN k - r ELSE c>>]
\* move_chunks
MoveChunkList(f, t, k, c) ==
  LET ahead == [i \in 1 .. ((k + c - 1) \div c) |->
                  LET r == (i - 1) * c IN <<f + r, t + r, IF k - r < c THEN k - r ELSE c>>]
  IN IF t > f THEN Reverse(ahead) ELSE ahead

Original == [r \in 0 .. (BufRows - 1) |-> r]

MoveInit ==
  /\ from \in 0 .. (BufRows - 1) /\ to \in 0 .. (BufRows - 1) /\ from # to
  /\ total \in 1 .. BufRows /\ from + total <= BufRows /\ to + total <= BufRows
  /\ chunk \in 1 .. MaxChunk
  /\ buf = Original
  /\ bounce = <<>>
  /\ todo = MoveChunkList(from, to, total, chunk)

\* the copy of a chunk into the bounce buffer
CopyOut ==
  /\ todo # <<>> /\ bounce = <<>>
  /\ bounce' = [i \in 1 .. Head(todo)[3] |-> buf[Head(todo)[1] + i - 1]]
  /\ UNCHANGED <<from, to, total, chunk, buf, todo>>

\* ... and out of it, over whatever the destination held
CopyIn ==
  /\ bounce # <<>>
  /\ buf' = [r \in DOMAIN buf |->
               LET i == r - Head(todo)[2] + 1 IN IF i \in DOMAIN bounce THEN bounce[i] ELSE buf[r]]
  /\ bounce' = <<>>
  /\ todo' = Tail(todo)
  /\ UNCHANGED <<from, to, total, chunk>>

MoveNext == CopyOut \/ CopyIn

MoveSpec == MoveInit /\ [][MoveNext]_moveVars

(***************************************************************************)
(* Properties                                                              *)
(***************************************************************************)
\* After every chunk the buffer is the one KvArena assumes of a move that fails
\* there: the first k rows of PartMove are copied and nothing else is touched,
\* whichever way the ranges overlap, and all of them once no chunk is left
\* (move_chunks' doc: "in an order that never overwrites a source row before it
\* has been read").
MatchesPartMove ==
  \E k \in 0 .. total : /\ buf = PartMove(Original, from, to, total, k)
                        /\ todo = <<>> /\ bounce = <<>> => k = total
=============================================================================
