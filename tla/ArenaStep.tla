----------------------------- MODULE ArenaStep -----------------------------
(***************************************************************************)
(* One stream's decode steps in the KV arena                               *)
(* (v4flash-kernels/src/het/kv_arena.rs: fill_admitted, compact_for_step,  *)
(* tables, accept, commit_copies).  A step runs the stream's next token    *)
(* and then draft rows at the following positions, in one or more lanes;   *)
(* accept keeps a prefix, and the rows of the rest stay behind, dead.      *)
(*                                                                         *)
(* Memory holds positions: a raw row the position whose KV it is, a row of *)
(* an accumulator block the position last written to it, a compressed row  *)
(* the positions pooled into it.  None is what an earlier owner or a       *)
(* rejected row left: no row of the stream may ever read it.               *)
(***************************************************************************)
EXTENDS Integers, FiniteSets

CONSTANTS
  SwaWindow,       \* SWA_WINDOW
  RawRows,      \* raw rows of a slot's region (ARENA_RAW_ROWS)
  MaxRows,      \* most rows of one stream in one step (ARENA_ROWS_PER_STREAM)
  NStores,      \* compressed stores
  Ratio,        \* positions per compressed row, per store
  MaxPos        \* positions the stream asked for (ctx_cap; bounds the run)

Stores == 1 .. NStores
Cap(si) == (MaxPos + Ratio[si] - 1) \div Ratio[si]

ASSUME StepAssumption ==
  /\ SwaWindow \in Nat \ {0} /\ MaxRows \in Nat \ {0} /\ NStores \in Nat /\ MaxPos \in Nat
  /\ Ratio \in [Stores -> Nat \ {0}]
  /\ RawRows \in Nat /\ RawRows >= SwaWindow + MaxRows   \* "Must be >= the rows one stream appends"

Groups == {"enc", "dec"}          \* encoder and decoder layers: one raw window each

VARIABLES
  phase,        \* empty, ready, step (rows of a step running) or refused
  pos,          \* the stream's next position
  win,          \* win[g]: offset and rows of the raw window
  raw,          \* raw[g][r]: raw row r of the slot's region
  nComp,        \* nComp[si]: compressed rows written
  comp,         \* comp[si][i]: positions pooled into compressed row i
  block,        \* block[si][b][x]: row x of accumulator block b
  ran,          \* rows of this step that have run
  size,         \* rows of this step
  seen,         \* seen[g]: positions in the raw window each row has attended to (ghost)
  pooled        \* groups pooled this step, <<store, position, its block's rows>> (ghost)

vars == <<phase, pos, win, raw, nComp, comp, block, ran, size, seen, pooled>>

None == -1
Blocks(si) == 1 + ((MaxRows - 1) + Ratio[si] - 1) \div Ratio[si]    \* blocks_per_slot
Fires(q, si) == (q + 1) % Ratio[si] = 0

Empty ==
  [phase |-> "empty", pos |-> 0, ran |-> 0, size |-> 0,
   win |-> [g \in Groups |-> [off |-> 0, n |-> 0]],
   raw |-> [g \in Groups |-> [r \in 0 .. (RawRows - 1) |-> None]],
   nComp |-> [si \in Stores |-> 0],
   comp |-> [si \in Stores |-> [i \in 0 .. (Cap(si) - 1) |-> {}]],
   block |-> [si \in Stores |-> [b \in 0 .. (Blocks(si) - 1) |-> [x \in 0 .. (Ratio[si] - 1) |-> None]]],
   seen |-> [g \in Groups |-> <<>>],
   pooled |-> {}]

Init ==
  /\ phase = Empty.phase /\ pos = Empty.pos /\ ran = Empty.ran /\ size = Empty.size
  /\ win = Empty.win /\ raw = Empty.raw
  /\ nComp = Empty.nComp /\ comp = Empty.comp /\ block = Empty.block
  /\ seen = Empty.seen /\ pooled = Empty.pooled

\* fill_reserved: a prompt of p positions; the decoder layers replayed only its
\* last d rows
Fill(p, d) ==
  LET rows(g) == IF g = "dec" THEN d ELSE IF p < SwaWindow THEN p ELSE SwaWindow IN
  /\ phase = "empty"
  /\ d <= rows("enc")
  /\ \A si \in Stores : Cap(si) * Ratio[si] >= p + 1
  /\ phase' = "ready" /\ pos' = p
  /\ win' = [g \in Groups |-> [off |-> 0, n |-> rows(g)]]
  /\ raw' = [g \in Groups |-> [r \in DOMAIN raw[g] |->
                IF r < rows(g) THEN p - rows(g) + r ELSE raw[g][r]]]
  /\ nComp' = [si \in Stores |-> p \div Ratio[si]]
  /\ comp' = [si \in Stores |-> [i \in DOMAIN comp[si] |->
                IF i < p \div Ratio[si] THEN (i * Ratio[si]) .. (i * Ratio[si] + Ratio[si] - 1)
                                        ELSE comp[si][i]]]
  /\ block' = [si \in Stores |-> [block[si] EXCEPT ![0] =
                [x \in DOMAIN @ |-> IF x < p % Ratio[si] THEN p - (p % Ratio[si]) + x ELSE None]]]
  /\ UNCHANGED <<ran, size, seen, pooled>>

\* StreamKv::step, j times: the window and the counters row j of a step sees
WinAt(g, j) ==
  LET grow == IF win[g].n + j <= SwaWindow THEN j ELSE SwaWindow - win[g].n
  IN [off |-> win[g].off + (j - grow), n |-> win[g].n + grow]
CompAt(si, j) == nComp[si] + (pos + j) \div Ratio[si] - pos \div Ratio[si]

CanStepRows(k) ==
  /\ k \in 1 .. MaxRows
  /\ \A si \in Stores, j \in 0 .. (k - 1) : Fires(pos + j, si) => CompAt(si, j) < Cap(si)

\* faulty: asks about the next row only
BugNeedsCompaction(k) == \E g \in Groups : win[g].off + win[g].n + 1 > RawRows
\* needs_compaction_rows
NeedsCompaction(k) == \E g \in Groups : win[g].off + win[g].n + k > RawRows
\* compact_raw: each window that does not sit at the region's start moves there
CompactRaw ==
  /\ raw' = [g \in Groups |-> IF win[g].off = 0 \/ win[g].n = 0 THEN raw[g]
               ELSE [r \in DOMAIN raw[g] |-> IF r < win[g].n THEN raw[g][win[g].off + r] ELSE raw[g][r]]]
  /\ win' = [g \in Groups |-> [off |-> 0, n |-> win[g].n]]

\* compact_for_step and tables: refuse a row that would append past the region
StartStep(k) ==
  /\ phase = "ready" /\ CanStepRows(k)
  /\ IF NeedsCompaction(k) THEN CompactRaw ELSE UNCHANGED <<raw, win>>
  /\ size' = k /\ ran' = 0
  /\ seen' = [g \in Groups |-> <<>>] /\ pooled' = {}
  /\ phase' = IF \E g \in Groups, j \in 0 .. (k - 1) :
                   win'[g].off + win'[g].n + j >= RawRows THEN "refused" ELSE "step"
  /\ UNCHANGED <<pos, nComp, comp, block>>

\* faulty: every row of the step accumulates in the carried block
BugBlockOf(si, q) == 0
\* the block of position q: that of its group within the step
BlockOf(si, q) == q \div Ratio[si] - pos \div Ratio[si]
\* the driver's window of row j: it ends at the row's own append and holds
\* min(n_raw + 1, SWA_WINDOW) rows
RowWindow(g, j) ==
  LET w == WinAt(g, j)
      n == IF w.n + 1 < SwaWindow THEN w.n + 1 ELSE SwaWindow
  IN (w.off + w.n + 1 - n) .. (w.off + w.n)

\* One lane: rows ran .. c-1 of the step append their raw KV, then attend; they
\* write their accumulator rows, then the rows at a group's end pool it.  Rows of
\* a later lane read what earlier lanes wrote (RowTables::rows, an ordered cut).
Lane(c) ==
  LET lane == ran .. (c - 1)
      app(g) == [r \in DOMAIN raw[g] |->
                   IF \E j \in lane : r = WinAt(g, j).off + WinAt(g, j).n
                   THEN pos + (CHOOSE j \in lane : r = WinAt(g, j).off + WinAt(g, j).n) ELSE raw[g][r]]
      acc(si) == [b \in DOMAIN block[si] |-> [x \in DOMAIN block[si][b] |->
                   LET here == {j \in lane : BlockOf(si, pos + j) = b /\ (pos + j) % Ratio[si] = x}
                   IN IF here # {} THEN pos + (CHOOSE j \in here : \A i \in here : i <= j)
                                   ELSE block[si][b][x]]]
      fired(si) == {j \in lane : Fires(pos + j, si)}
      group(si, j) == {acc(si)[BlockOf(si, pos + j)][x] : x \in 0 .. (Ratio[si] - 1)}
  IN
  /\ phase = "step" /\ ran < c
  /\ raw' = [g \in Groups |-> app(g)]
  /\ seen' = [g \in Groups |-> [j \in 1 .. c |->
       IF j <= ran THEN seen[g][j] ELSE {app(g)[r] : r \in RowWindow(g, j - 1)}]]
  /\ block' = [si \in Stores |-> acc(si)]
  /\ comp' = [si \in Stores |-> [i \in DOMAIN comp[si] |->
       IF \E j \in fired(si) : i = CompAt(si, j)
       THEN group(si, CHOOSE j \in fired(si) : i = CompAt(si, j)) ELSE comp[si][i]]]
  /\ pooled' = pooled \cup UNION {{<<si, pos + j, group(si, j)>> : j \in fired(si)} : si \in Stores}
  /\ ran' = c
  /\ UNCHANGED <<phase, pos, win, nComp, size>>

\* faulty: the group left open by the kept rows stays where the step wrote it
BugCommitted(si, keep) == block[si]
\* commit_copies: the block of the group still open at the new position becomes
\* the carried one
Committed(si, keep) ==
  LET rel == (pos + keep - 1) \div Ratio[si] - pos \div Ratio[si]
  IN IF (pos + keep) % Ratio[si] = 0 \/ rel = 0 THEN block[si]
     ELSE [block[si] EXCEPT ![0] = block[si][rel]]

\* faulty: the counters advance by every row the stream ran
BugKept(keep) == size
\* the rows accept advances the counters by
Kept(keep) == keep

\* what a row written at position q is worth once "keep" rows were kept: a
\* rejected row stays in memory, but is None to the stream
Live(q, keep) == IF q >= pos + keep THEN None ELSE q

\* accept: the kept prefix is the whole rollback
Accept(keep) ==
  /\ phase = "step" /\ ran = size
  /\ pos' = pos + Kept(keep)
  /\ win' = [g \in Groups |-> WinAt(g, Kept(keep))]
  /\ nComp' = [si \in Stores |-> CompAt(si, Kept(keep))]
  /\ block' = [si \in Stores |-> [b \in DOMAIN block[si] |-> [x \in DOMAIN block[si][b] |->
       Live(Committed(si, keep)[b][x], keep)]]]
  /\ raw' = [g \in Groups |-> [r \in DOMAIN raw[g] |-> Live(raw[g][r], keep)]]
  /\ comp' = [si \in Stores |-> [i \in DOMAIN comp[si] |-> {Live(q, keep) : q \in comp[si][i]}]]
  /\ phase' = "ready"
  /\ UNCHANGED <<ran, size, seen, pooled>>

\* the stream leaves (release); what it wrote is None to the slot's next one
Leave ==
  /\ phase = "ready"
  /\ phase' = Empty.phase /\ pos' = Empty.pos /\ ran' = Empty.ran /\ size' = Empty.size
  /\ win' = Empty.win /\ raw' = Empty.raw
  /\ nComp' = Empty.nComp /\ comp' = Empty.comp /\ block' = Empty.block
  /\ seen' = Empty.seen /\ pooled' = Empty.pooled

Next ==
  \/ \E p \in 1 .. MaxPos : \E d \in 1 .. p : Fill(p, d)
  \/ \E k \in 1 .. MaxRows : StartStep(k)
  \/ \E c \in 1 .. size : Lane(c)
  \/ \E keep \in 1 .. size : Accept(keep)
  \/ Leave

Spec == Init /\ [][Next]_vars

(***************************************************************************)
(* Properties                                                              *)
(***************************************************************************)
\* Every row of a step, draft rows included, attends to exactly the last SwaWindow
\* positions up to its own (in the decoder layers: of those they ever got),
\* whatever earlier steps kept, rejected or compacted away (tables, accept,
\* compact_raw; the unit test multi_row_tables_match_one_row_steps samples this).
RowsSeeTheirWindow ==
  phase = "step" => \A g \in Groups, j \in 1 .. ran :
    LET q == pos + j - 1
        n == IF win[g].n + j < SwaWindow THEN win[g].n + j ELSE SwaWindow
    IN /\ seen[g][j] = (q + 1 - n) .. q
       /\ g = "enc" => n = (IF q + 1 < SwaWindow THEN q + 1 ELSE SwaWindow)

\* A row at the end of a compressor group pools exactly the positions of that
\* group, in part carried from earlier steps whose later rows were rejected
\* (blocks_per_slot, commit_copies).
FiresPoolTheirGroup ==
  \A f \in pooled : f[3] = (f[2] + 1 - Ratio[f[1]]) .. f[2]

\* The compressed rows the indexer scores are the stream's groups in order: a row
\* written for a rejected draft is overwritten before it counts.
CompRowsAreGroups ==
  phase # "empty" => \A si \in Stores :
    /\ phase # "step" => nComp[si] = pos \div Ratio[si]
    /\ \A i \in 0 .. (nComp[si] - 1) : comp[si][i] = (i * Ratio[si]) .. (i * Ratio[si] + Ratio[si] - 1)

\* A step that can_step_rows allowed is never refused by the tables: after
\* compact_for_step every row it appends lies inside the slot's own raw region
\* (past it lies the next slot's window).
StepFits == phase # "refused"
=============================================================================
