----------------------------- MODULE DraftRing -----------------------------
(* The drafter's memory of each stream (ms_dspark.rs SlotDraft): a ring of    *)
(* the last RingRows rows, written by count, and a backlog of rows not        *)
(* written yet. A row is the residual of one position, and a ring entry says  *)
(* for which position it was roped and whose residual it is, so that a hole,  *)
(* a duplicate, a row of an earlier stream and a row a fault spoilt all show. *)
(* Ring writes are asynchronous: a fault of one stays unseen until somebody   *)
(* waits on it, or until a blocking call of another stream trips over it.     *)
EXTENDS Integers, Sequences, FiniteSets, FiniteSetsExt, Functions

CONSTANTS
  NRings,     \* arena slots
  RingRows,   \* MTP_WINDOW
  Block,      \* MTP_BLOCK
  ChunkRows,  \* RING_ROWS_MAX
  MaxSpec,    \* MAX_SPEC_STREAMS
  RingModes,  \* of V41_MS_DSPARK_RING: "all", "solo"
  Prompts,    \* lengths of the prompts
  MaxKv,      \* bound: rows of a stream
  MaxHeirs,   \* bound: streams a run seeds
  MaxSpoilt   \* bound: failed writes, drafts and readbacks

ASSUME RingAssumption ==
  NRings \in Nat /\ {RingRows, Block, ChunkRows} \subseteq Nat \ {0} /\ Prompts \subseteq Nat \ {0}

VARIABLES
  kv,         \* rows of the slot's stream in KV; 0: no stream
  heir,       \* the slot's streams so far: tells a row's owners apart
  sd,         \* MsDspark.slots
  multiEver,  \* MULTI_EVER
  pc, turn,   \* stage of a decode step, and the streams that have not had theirs
  writing,    \* the step's kept rows go into the rings
  kept,       \* rows a stream kept in this step, until keep_rows has them
  attended,   \* ghost: the ring rows a draft of this step attended to
  start,      \* ghost: first position the ring can hold since it restarted
  hole,       \* ghost: a readback of the stream has failed
  spoilt

ringVars == <<kv, heir, sd, multiEver, pc, turn, writing, kept, attended, start, hole, spoilt>>

Rings == 1 .. NRings
NoRow == -1
Bad == <<"bad">>
NoWin == <<>>
Streaming == {s \in Rings : kv[s] > 0}
KeptRows(s, p0, n) == [j \in 1 .. n |-> <<heir[s], p0 + j - 1>>]

---------------------------------------------------------------------------
(* SlotDraft and Backlog. *)
Fresh == [ring |-> [i \in 0 .. RingRows - 1 |-> [at |-> NoRow, row |-> Bad]], writes |-> 0,
          last |-> NoRow, hidden |-> NoRow, at |-> 0, rows |-> <<>>, fault |-> FALSE]

Reset(d) ==
  [d EXCEPT !.writes = 0, !.last = NoRow, !.hidden = NoRow, !.rows = <<>>, !.fault = FALSE]

\* settle_writes: a fault restarts the ring of the slot that issued the write
SettleWrites(all) == [s \in Rings |-> IF all[s].fault THEN Reset(all[s]) ELSE all[s]]

Hold(d, p0, new) ==
  LET runs == d.rows /= <<>> /\ d.at + Len(d.rows) = p0
      rows == IF runs THEN d.rows \o new ELSE new
      old == Max({0, Len(rows) - RingRows})
  IN [d EXCEPT !.at = (IF runs THEN d.at ELSE p0) + old, !.rows = SubSeq(rows, old + 1, Len(rows))]

RingSkip(last, p0, n) ==
  LET held == IF last >= p0 THEN last - p0 + 1 ELSE 0
  IN Min({n, Max({held, n - RingRows})})

\* ring_write_rows: each row roped for its position, at the next slots
Put(d, p0, rows) ==
  [d EXCEPT
     !.ring = [i \in 0 .. RingRows - 1 |->
                 LET js == {j \in 1 .. Len(rows) : (d.writes + j - 1) % RingRows = i}
                 IN IF js = {} THEN @[i] ELSE [at |-> p0 + Max(js) - 1, row |-> rows[Max(js)]]],
     !.writes = @ + Len(rows)]

Spoilt(rows) == [j \in DOMAIN rows |-> Bad]

\* A blocking call trips over a fault nobody has waited for, which is then gone.
Trips(all) == \E s \in Rings : all[s].fault
Cleared(all) == [s \in Rings |-> [all[s] EXCEPT !.fault = FALSE]]

(* write_backlog: what it may leave, and whether it returned an error. A write  *)
(* goes in chunks; one that fails leaves its rows spoilt and the count behind   *)
(* it. Only the last chunk's fault stays unseen, for each upload waits for the  *)
(* chunk before it.                                                             *)
WriteBacklog(all, s) ==
  LET taken == all[s].rows
      p0 == all[s].at
      calm == SettleWrites([all EXCEPT ![s].rows = <<>>])
      d == calm[s]
      skip == RingSkip(d.last, p0, Len(taken))
      todo == SubSeq(taken, skip + 1, Len(taken))
      n == Len(todo)
      first == p0 + skip
      Upto(m) == Put(d, first, SubSeq(todo, 1, m))
      Spoil(m, k) == Put(Upto(m), first + m, Spoilt(SubSeq(todo, m + 1, k)))
      cuts == {m \in 0 .. n - 1 : m % ChunkRows = 0}
      newest == p0 + Len(taken) - 1
  IN IF n = 0 THEN {[all |-> calm, err |-> FALSE]}
     ELSE IF Trips(calm) THEN {[all |-> Cleared(calm), err |-> TRUE]}
     ELSE {[all |-> [calm EXCEPT ![s] = [Upto(n) EXCEPT !.last = newest]], err |-> FALSE]}
          \cup (IF spoilt = MaxSpoilt THEN {}
                ELSE {[all |-> [calm EXCEPT ![s] = [Spoil(Max(cuts), n) EXCEPT
                                  !.last = newest, !.fault = TRUE]], err |-> FALSE]}
                     \cup {[all |-> [calm EXCEPT ![s] = [Spoil(m, Min({n, m + ChunkRows})) EXCEPT
                                  !.writes = d.writes + m]], err |-> TRUE] : m \in cuts})

\* faulty: the draft reads the ring as it is (what KNOWN_BUGS 57 was)
BugFillRing(all, s) == {all}
\* fill, and then settle_writes
FillRing(all, s) ==
  IF all[s].rows = <<>> THEN {all}
  ELSE {SettleWrites(IF o.err THEN [o.all EXCEPT ![s] = Reset(@)] ELSE o.all) : o \in WriteBacklog(all, s)}

---------------------------------------------------------------------------
(* The scheduler's calls: multistream.rs. *)
RingStreams(spec) == IF multiEver \/ spec > 1 THEN MaxSpec ELSE spec

\* the first row a restarted ring can hold is the stream's next one
From(all) == [s \in Rings |-> IF all[s].hidden = NoRow THEN kv[s] ELSE start[s]]

RingInit ==
  /\ kv = [s \in Rings |-> 0] /\ heir = kv /\ kept = kv /\ start = kv
  /\ sd = [s \in Rings |-> Fresh]
  /\ multiEver = FALSE
  /\ pc = "top" /\ turn = {} /\ writing = FALSE
  /\ attended = [s \in Rings |-> NoWin] /\ hole = [s \in Rings |-> FALSE]
  /\ spoilt = 0

(* A prefill of n tokens finished, of whose last rows c were captured (none    *)
(* when the readback failed): reset, seed, and the rows held.                  *)
Seed(s, n, c) ==
  LET run == Min({c, RingRows})
      d == Reset(SettleWrites(sd)[s])
      rows == [j \in 1 .. run |-> <<heir'[s], n - run + j - 1>>]
  IN /\ pc = "top" /\ kv[s] = 0 /\ c <= n
     /\ kv' = [kv EXCEPT ![s] = n]
     /\ heir' = [heir EXCEPT ![s] = @ + 1]
     /\ sd' = [SettleWrites(sd) EXCEPT
                 ![s] = IF c = 0 THEN d ELSE [Hold(d, n - run, rows) EXCEPT !.hidden = n - 1]]
     /\ start' = [From(SettleWrites(sd)) EXCEPT ![s] = n - run]
     /\ hole' = [hole EXCEPT ![s] = FALSE]
     /\ UNCHANGED <<multiEver, pc, turn, writing, kept, attended, spoilt>>

\* A stream is cancelled or finished between two steps; its slot is reset later.
Vacate(s) ==
  /\ pc = "top" /\ kv[s] > 0
  /\ kv' = [kv EXCEPT ![s] = 0]
  /\ UNCHANGED <<heir, sd, multiEver, pc, turn, writing, kept, attended, start, hole, spoilt>>

(* A decode step begins: outstanding writes are settled, and the streams that  *)
(* try a draft are chosen (room, budget and gate), if no more than spec live.  *)
Begin(spec, mode, who) ==
  /\ pc = "top" /\ Streaming /= {}
  /\ who \subseteq {s \in Streaming : Cardinality(Streaming) <= spec}
  /\ sd' = SettleWrites(sd)
  /\ start' = From(sd')
  /\ multiEver' = (multiEver \/ spec > 1)
  /\ writing' = (mode = "all" \/ Cardinality(Streaming) <= RingStreams(spec))
  /\ pc' = "draft" /\ turn' = who
  /\ UNCHANGED <<kv, heir, kept, attended, hole, spoilt>>

(* draft: fill, then a forward over the ring, its last row written again if    *)
(* the ring holds it already. It fails for its own reasons or because of a     *)
(* fault another stream left; then the ring restarts.                          *)
Draft(s) ==
  /\ pc = "draft" /\ turn /= {} /\ s = Min(turn)
  /\ turn' = turn \ {s}
  /\ \E all \in FillRing(sd, s) :
       LET d == all[s]
           pos == kv[s] - 1
           count == d.writes - (IF d.last = pos /\ d.writes > 0 THEN 1 ELSE 0)
           after == Put([d EXCEPT !.writes = count], pos, KeptRows(s, pos, 1))
       IN \/ /\ d.hidden /= pos \/ pos = 0
             /\ sd' = all /\ UNCHANGED attended
             /\ spoilt' = spoilt + (IF d.hidden = sd[s].hidden THEN 0 ELSE 1)
          \/ /\ d.hidden = pos /\ pos > 0 /\ ~Trips(all)
             /\ sd' = [all EXCEPT ![s] = [after EXCEPT !.last = pos]]
             /\ attended' = [attended EXCEPT ![s] =
                               [i \in 0 .. Min({RingRows, count + 1}) - 1 |-> after.ring[i]]]
             /\ UNCHANGED spoilt
          \/ /\ d.hidden = pos /\ pos > 0 /\ (spoilt < MaxSpoilt \/ Trips(all))
             /\ sd' = [Cleared(all) EXCEPT ![s] = Reset(@)]
             /\ spoilt' = spoilt + (IF Trips(all) THEN 0 ELSE 1) /\ UNCHANGED attended
  /\ start' = From(sd')
  /\ UNCHANGED <<kv, heir, multiEver, pc, writing, kept, hole>>

(* The forward and what each stream keeps of its rows: more than one only if   *)
(* it drafted. Streams in gone ended with this step; a failed readback of the  *)
(* captures leaves no rows to keep.                                            *)
Forward(keep, gone, read) ==
  /\ pc = "draft" /\ turn = {}
  /\ \A s \in Rings : keep[s] \in (IF s \notin Streaming THEN {0}
                                   ELSE IF attended[s] = NoWin THEN {1} ELSE 1 .. Block + 1)
  /\ gone \subseteq Streaming
  /\ read \/ spoilt < MaxSpoilt
  /\ LET stay == Streaming \ gone
     IN /\ kv' = [s \in Rings |-> IF s \in stay THEN kv[s] + keep[s] ELSE 0]
        /\ turn' = IF read THEN stay ELSE {}
        /\ hole' = [s \in Rings |-> hole[s] \/ (s \in stay /\ ~read)]
  /\ kept' = [s \in Rings |-> IF s \in turn' THEN keep[s] ELSE 0]
  /\ pc' = IF turn' = {} THEN "top" ELSE "keep"
  /\ writing' = (writing /\ turn' /= {})
  /\ attended' = [s \in Rings |-> NoWin]
  /\ spoilt' = spoilt + (IF read THEN 0 ELSE 1)
  /\ UNCHANGED <<heir, sd, multiEver, start>>

(* keep_rows: the rows join the backlog; one step's backlog is written now, a  *)
(* longer one waits for fill. A failure restarts the ring.                     *)
Keep(s) ==
  /\ pc = "keep" /\ turn /= {} /\ s = Min(turn)
  /\ LET held == [sd EXCEPT ![s] = Hold(@, kv[s] - kept[s], KeptRows(s, kv[s] - kept[s], kept[s]))]
         write == writing /\ Len(held[s].rows) <= Block + 1
     IN \E o \in (IF write THEN WriteBacklog(held, s) ELSE {[all |-> held, err |-> FALSE]}) :
          /\ sd' = [o.all EXCEPT ![s] = IF o.err THEN Reset(@) ELSE [@ EXCEPT !.hidden = kv[s] - 1]]
          /\ spoilt' = spoilt + (IF o.err \/ o.all[s].fault THEN 1 ELSE 0)
  /\ start' = From(sd')
  /\ turn' = turn \ {s}
  /\ kept' = [kept EXCEPT ![s] = 0]
  /\ pc' = IF turn' = {} THEN "top" ELSE "keep"
  /\ writing' = (writing /\ turn' /= {})
  /\ UNCHANGED <<kv, heir, multiEver, attended, hole>>

\* the bounds of a run
MayCome == FoldFunction(+, 0, heir) < MaxHeirs
MayStep == \A s \in Rings : kv[s] + Block + 1 <= MaxKv

RingNext ==
  \/ \E s \in Rings, n \in Prompts : \E c \in 0 .. n :
       MayCome /\ Seed(s, n, c)
  \/ \E s \in Rings : Vacate(s) \/ Draft(s) \/ Keep(s)
  \/ \E spec \in 1 .. MaxSpec, mode \in RingModes, who \in SUBSET Rings :
       MayStep /\ Begin(spec, mode, who)
  \/ \E keep \in [Rings -> 0 .. Block + 1], gone \in SUBSET Rings, read \in BOOLEAN :
       Forward(keep, gone, read)

RingSpec == RingInit /\ [][RingNext]_ringVars

---------------------------------------------------------------------------
(* What a draft attends to (ms_dspark.rs draft, KNOWN_BUGS 57) are rows of its *)
(* own stream, each once and roped for its own position, the last one the      *)
(* stream's newest row; and unless a readback of the stream has failed, there  *)
(* is no hole among them and they reach back a window or to where the ring     *)
(* restarted: whatever was kept while others kept the stream from drafting,    *)
(* whichever asynchronous write failed, whoever had the slot before.           *)
DraftsSeeNewestRows ==
  \A s \in Rings : attended[s] /= NoWin =>
    LET at == {attended[s][i].at : i \in DOMAIN attended[s]}
    IN /\ \A i \in DOMAIN attended[s] : attended[s][i].row = <<heir[s], attended[s][i].at>>
       /\ Cardinality(at) = Cardinality(DOMAIN attended[s])
       /\ Max(at) = kv[s] - 1
       /\ hole[s] \/ /\ at = Min(at) .. Max(at)
                     /\ Min(at) <= Max({start[s], kv[s] - RingRows})
=============================================================================
