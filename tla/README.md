# TLA+ models of deepstrix

deepstrix serves a large mixture-of-experts model on two boxes. The *hub*
(`crates/deepstrix-server`, two GPUs) takes OpenAI-style HTTP requests, schedules
them on one engine thread and runs the model; *box 2* (`crates/deepstrix-expertd`)
computes the routed experts over TCP. This directory models the control of the
serving core: what happens to a request between its arrival and its last event, to
the memory that holds its KV rows, to the snapshots it leaves on disk, and what the
two boxes agree on about experts. Paths below are relative to
`src/crates/`; `K` is `v4flash-kernels/src/het`, `S` is `deepstrix-server/src`.

## 1. The system

| component | state | operations | interacts with |
|---|---|---|---|
| HTTP handlers (`S/openai`) | one task per request | submit, wait, cancel on disconnect | engine channel, embed queue |
| engine worker (`S/engine_worker.rs`) | channel of 8 requests, engine state | submit, submit_embed, shutdown, serial loop | handlers, scheduler |
| multi-stream scheduler (`S/multistream.rs`) | queue, prefills, streams, phase and burst clock, spare scratch states | intake, admission, prefill unit, decode step, grow, stall, finish, abort | arena, snapshots, drafter, box 2 |
| KV arena (`K/kv_arena.rs`) | per slot a raw window and one region per compressed store; free lists; loan records | reserve, fill, grow, compact, lend, end_lend, tables, accept, release | scheduler, prefill loan |
| embeddings (`S/embed_phase.rs`) | queue, token cap, wake flag, active requests | push, claim/clear wake, phase, fail_all | handlers, worker loop |
| prefill VRAM loan (`K/prefill_loan.rs`) and dGPU loan (`v4flash-kernels/src/dgpu_loan.rs`) | lent ranges, saved rows and images | lend, end, give_back | arena, embed phase |
| snapshots (`S/snapshot.rs`) | index by hash, session and age; directories on disk | save, commit, load, evict | scheduler |
| drafter (`S/ms_dspark.rs`, `S/spec_sample.rs`) | draft rings, backlogs, gates | draft, verify, keep rows | scheduler, arena |
| remote experts (`K/remote_experts.rs`, client and daemon) | tickets in flight, stashed replies, connection | submit, wait, drain, redial; take, merge, park, reply | box 2 |
| box 2's shard pool (`K/remote_experts.rs`) and the hub's mirror of it (`K/b2_mirror.rs`, `lookahead.rs`) | slots, pins, grants, epoch; held set, release words | claim, land, evict, pin; release, restore, handle a map | remote experts, scheduler |
| box 1's expert pager (`K/expert_pager.rs`) | slots, reads on their way, dense windows | ensure, prefetch, drain | prefill, decode |
| event trace ring (`K/evtrace_ring.rs`) | thread buffers, ring, orphans | emit, drain, dump | every thread |

Three things make this code hard to test. Operations of the arena move other
streams' memory and can fail at every copy. The scheduler reorders, defers, parks
and aborts requests inside one tick, while clients cancel and time passes. And the
handlers share a queue, a flag and a bounded channel with an engine thread that
blocks. `PROJECT.json` lists each hazard at its line, with the property that would
catch it, or why there is none yet.

What makes each component correct, in a sentence:

- *arena*: the rows a stream reads are its own, in order, whatever was grown,
  compacted, lent, rejected or failed in between; rows are neither leaked nor
  handed out twice;
- *scheduler*: every request gets exactly one terminal event, starvation and
  deadlock are resolved, and everything a request held is given back;
- *embeddings*: queued work always wakes the engine, the cap counts what is
  unfinished, every handler gets an answer;
- *snapshots*: a crash leaves the old or the new snapshot, never neither;
- *remote experts*: every ticket is answered by its own reply, also after a drain;
- *pool and mirror*: what the hub routes to box 2 as resident is resident when its
  pass runs, and pins never leave a pass without a slot to page into;
- *box 1's pager*: nobody reads a slot or a window that is being rewritten;
- *drafter*: a draft reads its own stream's newest rows, or does not run;
- *trace ring*: records may be dropped, and are counted; their order is not promised.

## 2. Modules

| module | models | theorems |
|---|---|---|
| `RowSets`, `RowAllocator` | what a row allocator promises, over the set of free rows, and what a move leaves that is cut short | |
| `RowFreeList` | `RowFreeList`, `free_runs`, `rebuild_free_lists`: the sorted list of runs, which implements `RowAllocator` | `PartsProofs` |
| `MoveChunks` | `move_chunks` and the copy loop of `move_region_rows` | `PartsProofs` |
| `KvArena` | the arena's regions, growth, compaction and loan | `ArenaProofs` |
| `ArenaStep` | one stream's decode steps: raw windows, accumulator blocks, compressed rows, rejected drafts | `PartsProofs` |
| `ArenaCalls` | `KvArena` as the scheduler calls it: who pays for a failed copy | `ArenaProofs` |
| `DraftRing` | the drafter's rings and backlogs, as the scheduler calls them | `PhaseProofs` |
| `SeqFilter` | `Vec::retain` | |
| `Scheduler` | `worker_loop_ms` and `Sched::tick` | `SchedulerProofs` |
| `EmbedPhase` | HTTP handlers, wake, embed phases, shutdown | `PhaseProofs` |
| `SnapshotStore` | prefix snapshots on disk and in the index, over overlapping and restarted servers | `SnapshotProofs` |
| `RemoteTickets` | the link to box 2: tickets, stash, drain, redial, and the daemon's loop | `TicketsProofs` |
| `PinProtocol` | the hub's mirror and box 2's pool: held, released, pinned, evicted | `PinProofs` |
| `ExpertPager` | box 1's pool of experts under two lanes, failing calls and the prefetch thread | `PartsProofs` |

`ProofFacts` holds what the proofs share: induction, sums over finite sets, sequences
without repetition (section 5).

`MCParts`, `MCArenaCalls`, `MCScheduler`, `MCSchedLive`, `MCEmbedPhase`, `MCSnapshotStore`,
`MCRemoteTickets` and `MCPinProtocol` instantiate them for TLC. `ArenaCalls` extends
`KvArena`; `MCSchedLive` puts two instances of `Scheduler` in one run; `MCParts` puts `RowFreeList`, `MoveChunks`, `ArenaStep`, `DraftRing` and
`ExpertPager` side by side in one run, one of them moving in each behaviour.

### KvArena

A slot's region in store `si` is a record `[base, cap, n]` (`CompRegion`); the
free list is the set of rows it covers, which `RowFreeList` justifies. What a row
holds is a tag `<<slot, index>>`; when a stream leaves, its tags turn to `Junk`, so
that a row of an earlier holder of the slot never passes for a current one. All
calls come from the scheduler thread, so one operation runs at a time; but an
operation moves one region per step and may fail at any copy, so a grow, a
compaction and a loan are sequences of steps driven by `task` (`op`, the store in
hand, the regions still to place). `grow` keeps the code's order: extend in place,
else relocate first-fit, else pack the regions below down and those above up, and
extend. A failing move leaves `PartMove` of the rows (`MoveChunks` shows that the
chunked copy does) and rebuilds every free list. `hurt` is a ghost: slots whose own
rows a failed copy may have cost.

The compressed rows and the index keys of a region move together and are one row
here. `export_to_state` and `restore` (a rewind only tests use) are left out.

### ArenaStep

Memory holds positions: a raw row the position whose KV it is, a compressed row the
set of positions pooled into it. A step is `StartStep` (`compact_for_step` and
`tables`), some lanes (`Lane`: append, attend, accumulate, pool), and `Accept`
(`accept` and `commit_copies`). A rejected row stays in memory but its content is
`None` to the stream: if it were ever attended to or pooled, the properties fail.

### ArenaCalls

Adds to each slot its role and to each operation its caller. A failure under one
request fails that request (`FailRequest`: `prefill_tick`, the parked retry); a
failure of the tick aborts everything (`Abort`: `abort_all`, which does not end the
loan). The order of calls inside a tick is not kept: the arena itself refuses what
may not run, and every order kept here occurs over several ticks. The runs use
`KvArena` through `CallsNext` only.

### DraftRing

A ring entry says for which position it was roped and whose residual it is (the
slot's `heir`, its number of streams so far), so that a hole, a duplicate, a row of an
earlier stream and a row a fault spoilt all differ. A decode step is `Begin` (settle
outstanding writes, choose who drafts), a `Draft` per chosen stream (`FillRing`, then the
draft's forward), `Forward` (what is kept of each stream's rows, who ends, whether the
captures could be read back) and a `Keep` per stream. Ring writes are asynchronous:
`WriteBacklog` gives every outcome of a write in chunks, with an error at once or a
`fault` that the next wait finds, be it in another stream's call. Streams draft and
keep in the order of their slots.

### Scheduler

One step is one stage of a tick (`pc`: top, purge, pick, scan, merge, phase,
prefill, decode, abort). Positions are counted, the arena is its free room
(`CompactionGathersFreeRows` in `KvArena` is what makes that sound: a reservation
that fits by count can be made after a compaction). Time is two flags: `age` of a
request (0, aged after `V41_MS_AGING_S`, starved after `V41_MS_STARVE_S`), ordered
by arrival; and `burst` of the phase ("new", "run", "spent").

Left out: the serial legacy mode (`V41_DSPARK` without `V41_MS_DSPARK`, in which
every request is legacy, since `is_legacy` ignores its argument); parked requests
(a reservation holds prompt, marker and two positions more, so `try_admit` never
parks while reservations are made that way); snapshot probes and saves; a client
that stops reading with its buffer full, which is a cancellation here. The channel
is read at the top of the loop only, so `Send` and `BudgetSpent` happen there.

### EmbedPhase

One step is one access to shared state: the queue's mutex (`Push`, `HasWork`), the
wake flag (`ClaimWake`, `Unclaim`, `ClearWake`, `Woken`), the channel (`SendWake`,
`Receive`). The engine's loop is `worker`: top, clear, recheck, blocked or receive,
woken, choose, phase. `StartPhase` is `take_batch` with its round robin and token
budget; `EndPhase(failed)` settles requests, failing none, some (a non-finite
embedding) or all of a batch. `Rest` is the share of wall time
(`V41_EMBED_MAX_SHARE`), `group` a layer-major group that a phase must not cut.
The forward is one step, as is the loan of dGPU memory, whose failed return aborts
the process. Chat requests are counted, not followed.

### SnapshotStore

A process is a pid, which a restarted container uses again; two may live at once, as
in an overlapping restart. A directory is whole, torn (its `meta.json` without some
blobs), at rest (no `meta.json`) or absent. A save is a sequence of steps, each with
its failure: `WriteFiles`, `CheckDir`, `MoveAside`, `MoveIn`, `PutBack`, `RemoveOld`,
`Insert`, then one entry per step of `EvictLineage` and `EvictToFit`. A restore opens
every file by its path, and an overlapping server may replace the directory between any
two of its steps: `Probe` (judge a candidate by its `meta.json`), `ReadMeta`, `ReadBlobs`
(what the blobs hold must fit the `meta.json` that was read, and the candidate is judged
again; else `NotResumed`), then `touch`: `Touch` (the entry, and `meta.json` read once
more) and `Stamp` (written back, into whatever directory is there by now) or `StampFails`.
`RestoreFails` covers a torn or replaced directory and any failing read, device copy or
check of a whole one; the entry is then evicted (`Evict`). A directory therefore keeps
two kinds, `kind` of its `meta.json` and `blobs` of its other files. `Crash` may come
between any two of these steps, and `CrashRemoving` in the middle of a `remove_dir_all`.
`world` says which processes, saves and faults a behaviour has (`Worlds`), `owner` is a
ghost: who must still account for the snapshot under a key.

### RemoteTickets

The engine thread runs one unit (a prefill unit or a decode step) after another:
`Submit`, `Ready`, `Wait` for tickets in any order; a failed unit drains (`DrainStash`,
`DrainOne`, `DrainBroken`) and redials (`Dial`, `Hello`, `DialRefused`, `HelloFails`). The
daemon takes one request or merges two, serves a third inside a parked one, answers a
failing request with an error frame and closes. A frame carries in `of` the request it
belongs to, which the program does not know: `AnswersAreOwn` compares it. `blame`
counts the units a broken connection has failed.

### PinProtocol

The hub's `Submit` puts release words, restore words and what the mirror holds of the
picks on the wire; `HandleReply` takes a layer's map unless a pick was released after
the reply's epoch. Box 2's compute thread takes a request (`TakeOne`), merges two of a
layer (`TakeTwo`), parks a pass on its reads (`Park`) and serves another inside it; it
lands background reads (`Land`), claims slots (`Claim`) in the pass's own band, in the
other, or from a pin; and reports (`Reply`), which grants, pins while the budget lasts
and builds the map. Which reads complete when, and which victim among the evictable
ones a search finds, are open. `Reconnect` breaks the link and loses what is on it.

### ExpertPager

`slotKey` says what box 1 believes of a slot, `bytes` what is really in it, `lru` is the
order of `last_use` over the occupied slots (a free slot is always taken before a
victim, so stamps of free slots do not matter). The host thread drives a unit: per lane
and layer `Route`, `Prep` (wait for the iGPU if an id is missing, `ensure`, queue the copy
of the layer's remap table), `Launch` (queue the MoE); the iGPU runs `queue` in order
(`IgpuRuns`), which is all that orders its kernels against the host. `Prep` is one step: what
`ensure` claims, reads and uploads is folded over the lane's ids in the order they come,
and the only other thread, the prefetch thread, does not touch the pool. `PrepFails` stops
it after any number of landed experts. The order of the lanes is any that keeps a lane's
prep and launch together, which covers the lockstep and the ready-first drivers and
prefill chunks. `Scan` is `V41_PREFILL_SCAN_SLOTS`, which confines what a chunk may evict.

The remap table holds the requested ids only: no kernel of the lane reads another entry
(box 2's are marked, the rest are picked by nobody). How often an expert has to be missed
before a hint is queued is left open.

## 3. Runs

| run | instance | shows |
|---|---|---|
| `parts` | a list of 7 rows; every move in 6 rows with chunks up to 4; a stream of window 3 in a region of 7 rows, steps of up to 4 rows, ratios 1, 2, 4, 13 positions; draft rings of 2 slots, window 3, chunks of 2; a pool of 2 slots for 3 experts, 2 lanes of 2 picks or none, 2 reads on their way, 2 units, 1 failure | the free list implements the set of free rows; a cut move leaves what `KvArena` assumes; windows, groups and compressed rows are exact; a draft sees its stream's newest rows; a MoE reads its own experts' weights, none is resident or asked for twice |
| `arena_calls` | 3 slots, stores of 5 rows (ratio 1) and 3 (ratio 2), 3 and 1 of them lent; the tick's copies and an admission's fill may fail | streams decode their own rows, every slot has an owner, regions are disjoint, free lists exact, rows intact, the run a grow needs is found, compaction gathers the free rows |
| `failed_restore` | one store of 5 rows, 4 lent, a restore failing under one request's admission | violated: see section 6 |
| `sched_ends` | 3 clients sending without end, one needs most of the arena; or 2 streams that outgrow the arena, one with a trailing marker, one may cancel | the starved request gets its turn, the deadlock rule resolves the stall, all end |
| `sched_passed` | 4 clients, one of them aged and in need of most of the arena, one that may cancel | violated: see section 6 |
| `sched_faults` | 3 requests of 4 clients, one of which outgrows the arena and may cancel, every failure | one terminal event each, nothing leaks |
| `embed_answer` | 2 handlers (one may leave), a chat request, a channel of one place, failing phases, groups, shutdown | no wake is missed, the cap is exact, every handler is answered |
| `snapshots` | 2 keys; 2 servers that overlap and save one of them, as a full snapshot and a checkpoint or as a full snapshot only; or one server restarted over and over, with every fault but a double one, or every fault but a failed removal | committed snapshots stay whole (unmixed, where only one kind is saved), found and counted, as is every directory where removals succeed; evictions take the oldest; no short suffix resumes on empty rings |
| `snapshot_crash` | one server that may die between the two renames of a commit | violated: see section 6 |
| `tickets` | 3 faults over 4 connections, up to 5 requests each, 3 in flight | tickets get their own replies, nothing is owed between units, blame is bounded, every unit ends |
| `tickets_blame` | 1 fault | violated: see section 6 |
| `pins` | four one-expert layers, 2 main slots (one pinnable), 1 staging slot, 2 requests in flight | the mirror holds only pinned experts, no pass pages what the hub held, no pin is revoked |

*Why these bounds are enough to be interesting.* In the arena, two neighbours and a
third region are what relocation, packing on both sides and a hole need; five rows
let every grow path and overlapping moves occur. Two stores let one succeed while
the other fails. In `ArenaStep` the region has exactly the slack one step needs
(`RawRows = SwaWindow + MaxRows`), so every few steps compact; 13 positions pass several
slides and three groups of four. In `DraftRing` the ring is longer than what one step
keeps (`RingRows > Block + 1`), so that a backlog of three rows waits for `fill` and is
written in two chunks, and six positions wrap the ring; two streams after one another
use a slot again. In the scheduler two slots and one or two scratch
states give every admission outcome; `MaxSends = 0` means that clients send for ever (in
`sched_ends`' instance "room"; in "stall" each sends at most twice).
The two runs of the scheduler under fairness take prefills of one unit and steps of one
row; prefills of two units and steps of two rows are in `sched_faults`.
In the embed phase one channel place makes "full" common, and a cap of 4 tokens with
requests of 3, 1 and 1 makes both refusal and "taken into an empty queue" happen.
Snapshots of 1 and 2 bytes under a cap of 3, with one per lineage, evict on nearly every
save; a clock of two values makes both ties and order. One world has failing removals and
one (`TidyKeys`) the others, since `AccountedFor` says more where removals succeed.
Overlapping servers need no clock (`maxNow = 0` there): every order of their steps is tried,
and ages only choose evictions. Three faults let a redial fail or its connection break
again; five requests let a drain leave a unit's worth of numbers behind. In the pager two lanes of two picks out of three experts always share one and
compete for two slots, so each paging evicts what the other lane may still need; a second
unit is what meets a claim the first left behind, and one staging buffer makes the wait
for it common. In `pins` the reserve is at its documented minimum, a pass fills what is not
pinned, and one release word is enough for it to meet an older map; the proofs cover
every size.

Bounds that stand for the world are named constants: `MaxCtx`, `MaxPos`, `MaxChunk`,
`MaxKv`, `MaxHeirs`, `MaxSpoilt`, `MaxFaults`, `MaxChunks`, `MaxRun`, `MaxSends`, `MaxChats`, `MaxGroup`,
`maxNow` of a world, `MaxSeq`, `Window` (tickets in flight), `MaxAdmits`, `MaxInFlight`, `MaxReleases`,
`MaxUnits`, `PickSizes`. Symmetry is used in `pins` (experts) and `parts` (experts and lanes
of the pager), which check no liveness.

*Deadlock* is checked in `arena_calls`, `failed_restore` and `pins`. The others may
really stop: after the last request (`sched_ends`' second instance, `sched_passed`,
`sched_faults`, `tickets`, `tickets_blame`), after shutdown (`embed_answer`), when the last process has died or
saved (`snapshots`, `snapshot_crash`), after the one move, at the last position or after
the last unit (`parts`).

Every property of a passing run has a mutant: an operator `Bug...` in the same
module, a plausible error in that piece of code, under which the property fails.

## 4. Fairness

- `Scheduler`: weak fairness of the scheduler's steps (a thread that never blocks
  while it has work), of each request's ageing and strong fairness of `BudgetSpent`
  (time passes; the step is enabled only at the top of the loop). Clients owe
  nothing: they need not send, wait or cancel.
- `EmbedPhase`: weak fairness of the engine thread, of each handler once it has
  begun (a task of the HTTP runtime) and of the passing of time. Nobody has to send
  chat requests, disconnect or shut the server down.
- `RemoteTickets`: weak fairness of the engine thread and of the daemon's loop; nobody
  has to start another unit, and no fault has to happen.

`sched_ends`' instance "room" lets no first token end a turn (`FirstMayEnd = {}`). With it, clients
that always supply a starved request that ends at once would keep the scheduler in
the prefill phase and live streams from decoding: the starvation rule
(`S/multistream.rs:1089-1103`) states no bound on that, and the liveness checked here
is relative to its absence. In "stall" the first token of `a` may end its turn.

## 5. What is proved

Every theorem holds for every value of the constants that the module's named assumption
allows. Each invariant below was first checked by TLC on a run's instance.

### Arena: `ArenaProofs`

For every number of slots and stores, every store size, loan size, context bound and set
of failing copies (`ArenaAssumption`: ratios are 1 or 2, sizes are positive):

| theorem | statement |
|---|---|
| `ArenaInvariant` | `Spec => []ArenaInv` |
| `TypeCorrect` | `Spec => []TypeOK` |
| `Disjoint` | `Spec => []RegionsDisjoint` |
| `FreeListExact` | `Spec => []FreeExact` |
| `NoRowLost` | `Spec => []RowsIntact` |
| `RowsCounted` | `Spec => []RowsTrackPosition` |
| `GrowFindsRun` | `Spec => []GrowRunFound` |
| `GrowHoldsContext` | `Spec => []GrownHoldsContext` |
| `CompactionGathers` | `Spec => []CompactionGathersFreeRows` |
| `CallsImplementArena` | `CallsSpec => Spec` |
| `SlotsOwned` | `CallsSpec => []EverySlotOwned` |
| `StreamsOwnRows` | `CallsSpec => []StreamsDecodeOwnRows`, if `RequestFaults \subseteq {"fill"}` |

Disjointness is not inductive by itself: halfway through a compaction a region that
slides down is safe only because everything below it has been packed. `ArenaInv`
adds what the operations rely on: `CapsPositive` (no empty region, so two regions
that share no row lie one after the other), `FreeInv` (the free list of a store is
the complement of its regions unless that very store is being moved), `TaskInv` (the
growing slot is live) and `MoveInv` (regions already placed tile the rows below
`next` and from `top` on, those still to place lie between, the low ones below the
high ones, and a row in neither is free). The proof has a lemma per action
(`ReserveInv`, `SlideDownInv`, `MoveFailsInv`, ...); `PlaceInv` is the common core of
the two slides, `RelocateInv` of a relocation, `ExtendInv` of the two ways to extend in
place. `NextInv` joins them.

*Rows.* `RowsInv` adds to `RowsIntact` and `RowsTrackPosition` what a loan relies on
(`RecordsInv`): nothing moves while the ends are lent, and a host copy is of lent rows
and the only one of its region. Whatever an operation does to a region, the proof asks
whether its rows are still `Readable`, in place or from a copy.

*Growth.* `GrowthInv` has three parts. `RoomInv`: a grow has the capacity it needs in the
stores it is done with, and the free rows it needs in the others. `AroundInv`: while
regions are packed around the growing one, it is the last of the low ones, so it ends
where the packed run begins. `GatherInv`: a compaction's moves keep the number of free
rows. With `MoveInv`, which says that those rows are one interval at the end, the
cardinality of an interval gives the run that `grow` extends into.

*Calls.* Every step the scheduler's calls allow is an arena step or leaves the arena alone,
so `ArenaCalls` has all the arena's invariants. `RoleInv` strengthens
`EverySlotOwned` to the middle of a call; `CallInv` says that only a failed tick leaves a
damaged slot behind, and that its failure is handled before anything else. The
hypothesis of `StreamsOwnRows` says that what fails under one request's call is an
admission's fill, and that restores and moves fail in the tick's own calls only. It cannot
be dropped: `failed_restore` is a counterexample with `"restore"` among the
`RequestFaults`, and section 6 says why `"move"` is another.

### Steps, list, move, pager: `PartsProofs`

The four small machines of the `parts` run, in one module because they share the arithmetic
of intervals and division.

*Decode steps* (`ArenaStep`), for every window, step size and number of stores, every
ratio from 1 on, every context bound, and every raw region with room for a window and a step
(`StepAssumption`):

| theorem | statement |
|---|---|
| `StepTypes` | `Spec => []StepTypeInv` |
| `EveryRowSeesItsWindow` | `Spec => []RowsSeeTheirWindow` |
| `EveryGroupPoolsItsPositions` | `Spec => []FiresPoolTheirGroup` |
| `CompressedRowsAreGroups` | `Spec => []CompRowsAreGroups` |
| `NoStepIsRefused` | `Spec => []StepFits` |

The properties speak of rows that are used; a rejected draft spoils rows that are not, and
the next step writes over them. `StepInv` says which rows are the stream's: `RawInv`, those of
the window and of the lanes that have run; `CompInv`, the compressed rows up to the groups
complete so far; `BlockInv`, the places of the accumulator since the open group began. The
last is the reason why a group is pooled correctly although its positions were written in
several steps, some of which were cut back: `commit_copies` moves exactly these places.
`SeenInv` and `PooledInv` keep what a lane saw and pooled.

*Free list* (`RowFreeList`), for every size of the store:

| theorem | statement |
|---|---|
| `FreeListIsCanonical` | `ListSpec => []Canonical` |
| `ListImplementsAllocator` | `ListSpec => ImplementsAllocator` |

`ListInv`: the runs are sorted, and a row at least lies between two of them; runs and regions
divide the store. An insert has a lemma per neighbour it may merge with, and a rebuild is
an induction over the regions in their order. With the rows of the list as the
refinement mapping, each operation is one of `RowAllocator`, and the first run long enough
is a run of the set.

*Move* (`MoveChunks`), for every buffer, every move in it and every chunk:

| theorem | statement |
|---|---|
| `MoveInvHolds` | `MoveSpec => []MoveInv` |
| `MoveReadsBeforeItWrites` | `MoveSpec => []MatchesPartMove` |

`MatchesPartMove` says of a cut move what `KvArena` assumes, and that is not enough to go on
from. `MoveInv` adds the rest: the copies left cover the rows not yet moved, upwards or
downwards as the direction wants (`Upwards`, `Downwards`), and the bounce buffer holds what
was at the source when the move began.

*Expert pager* (`ExpertPager`), for every number of slots, layers and table copies, every
finite set of experts, every reach of a scan and every bound on reads
(`PagerAssumption`), and any set of lanes:

| theorem | statement |
|---|---|
| `PagerTypes` | `PagerSpec => []PagerTypeInv` |
| `MoesReadTheirOwnExperts` | `PagerSpec => []MoesReadTheirExperts` |
| `EachExpertOnce` | `PagerSpec => []ExpertsOnce` |

A MoE reads the table and the slots when the iGPU gets to it, long after the host chose them.
`TableInv` follows it there: every MoE in the queue that somebody waits for is first and its
layer's table is the right one, or the copy right before it brings the right one, and the
slots that table names have its experts' keys. A later paging cannot change such a slot,
because it first waits for the iGPU. So that this holds for a MoE to be queued, at most one
lane is between `Prep` and `Launch`, and `UnitInv` says that a failed unit leaves nothing
queued that is waited for. `PoolInv` (no key twice; the eviction order lists the occupied
slots; what they are said to hold has landed) must hold after every prefix of a call, for a
failing call stops anywhere: it is proved of each claim, and `CallOk` carries it over the ids
of an `ensure` by induction. `AskedInv` is that of the prefetch thread's lists.

### Pins: `PinProofs`

For every set of experts and layers, every pool, staging band, headroom, band and bound,
and every order of hub and box-2 steps (`PoolAssumption`: the numbers are naturals, layers
are disjoint and no larger than `LayerSize`; `ReserveAssumption`: `PIN_RESERVE_MIN` is
kept):

| theorem | statement |
|---|---|
| `PinInvariant` | `Spec => []PinInv` |
| `HeldPinned` | `Spec => []HeldIsPinned` |
| `Unsurprised` | `Spec => []NoSurprise` |
| `PinsKept` | `Spec => []NoRevoke` |

What the hub holds says nothing by itself about words on their way. `PinInv` is:

- `Wire`: release words are numbered in order, from box 2's epoch through the requests
  on the wire to the hub's queue, and the last release of each one's expert is that word
  or a later one;
- `Mirror`: a held expert is pinned and was not released after the epoch; so is an
  expert in a map on its way back, unless it was released after that map's epoch;
- `Sent`: what a request expects is pinned, and no word before it on the wire, or its
  own, releases it; what a pass expected is not among what it had to page;
- `Room`: pins lie in the main band, within the budget; a pass's picks are of its layer,
  and those served inside it are a small request's.

A release step needs `Wire` (`ReleaseNumbers`, `ReleaseStep`); taking requests off the
wire, alone or merged, is `TakeStep`; landing and claiming are `PoolStep`; and
`VictimLeft` counts: the picks of two passes and the budget leave a slot over, so a
claim that finds no victim contradicts `ReserveAssumption`.

### Tickets: `TicketsProofs`

For every window, number of requests and number of faults:

| theorem | statement |
|---|---|
| `RepliesGoToTheirTickets` | `Spec => []AnswersAreOwn` |
| `NothingOwedBetweenUnits` | `Spec => []OwedExactly` |
| `BreakFailsFewUnits` | `Spec => []BlameBounded` |

The invariant is `TicketInv`. `Dialled`: every connection but the current one is broken, or
not yet in use, and each broken one cost a fault. `NotYet`: a connection to come carries no
frame. `Once` and `Books`: a request is in one place only, stashed, on its way back, with
the daemon or on its way there, and while the connection is up every ticket is in one of
them; between units there is none. This is why a drain that counts replies ends with the
right ones: what it must still take is exactly what is out. `Blamed` follows who notices a break and
when: at most one unit before the client is marked dead, then one more per refused dial.

### Scheduler: `SchedulerProofs`

For every finite set of requests, every prompt, limit, arena size, number of slots and
scratch states, and every fault (`SchedulerAssumption`):

| theorem | statement |
|---|---|
| `OneTerminalEvent` | `Spec => []NobodyLost` |
| `ReservationsHeld` | `Spec => []NothingLeaks` |

`LostInv`: the lists (channel, queue, deferred, prefills, streams) neither repeat a request
nor share one (`Apart`), a prefill tick has a job and an open chunk window is the window of
one (`JobThere`), and who is in a list has not been told (`Told`). `LeakInv` adds that a reservation
covers its prompt (`PromptFits`) and that numbers are naturals (`Counts`). Growth is a fold over
the streams: `GrownFacts` shows that it never takes more than the free room.
The finiteness of `Reqs` is needed for sums only; a run of the server has finitely many
requests at any time.

### Embeddings and drafts: `PhaseProofs`

*Embeddings* (`EmbedPhase`), for every set of clients, sizes, caps and channel capacity:

| theorem | statement |
|---|---|
| `NeverSleepsOnWork` | `Spec => []NoMissedWake` |
| `CapIsExact` | `Spec => []CapCountsUnfinished` |

`WakeInv`: when the engine blocks or is about to, nothing is active (`SleepsIdle`), and a
pending wake is in the channel or its handler is about to send it (`WakeUnderWay`); the
work that arrives between the recheck and the block is the case that needs it. `CapInv`: a
client's request is in one place only (`OnePlace`), so the tokens of the queue and of the
active requests add up without counting one twice.

*Drafts* (`DraftRing`), for every number of slots, window, draft, prompt and chunk, and every
number of streams and of faults (`RingAssumption`):

| theorem | statement |
|---|---|
| `DraftsReadNewestRows` | `RingSpec => []DraftsSeeNewestRows` |

What a draft sees is decided by every step since the ring was restarted. `RingInv` keeps, for
each slot with a stream (`DraftGood`): the backlog is a run of the stream's rows and no longer
than the ring (`BacklogGood`); the ring's rows are the stream's own, roped for where they
are, in order and without a gap (`RingGood`); the two meet, or the backlog alone fills the
ring, and end at the hidden row of the next draft (`Meets`); together they reach back a
window, or to where the ring was restarted (`Reach`). A fault that nobody has seen yet
suspends all but the first, and `StageInv` says when there may be one: never in a draft, for
`Begin` has waited for the writes. The exception for a stream whose captures were lost
(`hole`) is that of the property (section 6).

### Snapshots: `SnapshotProofs`

For every finite set of keys, any processes and sessions, every cap, and every world of
saves, overlaps and faults (`SnapshotAssumption`):

| theorem | statement |
|---|---|
| `SnapshotTypes` | `Spec => [](TypeOK /\ IndexInv /\ IndexTyped)` |
| `SnapshotsKept` | `Spec => []Durable`, if `\A w \in Worlds : Survivable(w)` |
| `IndexKnows` | `Spec => []AccountedFor` |
| `IndexMapsAgree` | `Spec => []MapsAgree` |
| `NewestEvictedLast` | `Spec => []NewestStays` |
| `ResumeIsSound` | `Spec => []ResumesSound` |

`Durable` says two things of a committed snapshot that nobody evicted, under its name or
moved aside: all its files are there, and its `meta.json` is that of its blobs, except where
overlapping servers save the key as a full snapshot and as a checkpoint (`MayMix`; see
section 6). It follows from `KeptInv`, `KindsInv` and `MatchInv`.

`KeptInv` is about the files: what is about to be committed is whole (`TmpWhole`), and a
process between its two renames still has what it moved aside. If it is alone, the name is
free for the way back (`AsideKept`); if servers overlap, whatever another one put there
is whole (`AllWhole`). `Survivable` names the three ways in which this fails, and TLC finds
each: a process dies between its renames (section 6, finding 2); a rename back fails,
which is a second failure on top of the first; and, when two servers overlap, a removal
fails or is cut short. In the last case one server moves aside the remains that a failed
removal left, meets the other's commit, and puts the remains back while the other is
between its own renames, whose way back they block.

`KindsInv` and `MatchInv` are about the kinds. A directory or a request that is under way has
only a kind that some server may save that key as (`KindsInv`, through `KindsStep`); so if
servers overlap and save a key as one kind, any `meta.json` fits any blobs. If servers do not
overlap, a `Stamp` meets the very directory that its `Touch` read, since the only process
alive has done nothing in between (`MatchInv`, which says that the kind it read is that of
the directory's blobs, through `MatchStep`).

`AccountedFor` says two things as well. What a live process committed or loaded and nobody
evicted is in its index (`OwnersKnow`, for any overlaps and faults). And in a `Tidy` world,
where one server runs at a time and what it removes is gone, every directory under a key is
(`CountInv`): each directory there has its `meta.json`, so that the next load takes it in,
what a commit moves aside stays indexed until it is back or replaced (`CountedBy`), and an
eviction takes directory and entry together. Writes, renames, touches and restores may fail
and processes may die anywhere.

`Agree` relates the maps of one index; each operation has a lemma (`DroppedAgrees`,
`AddedAgrees`, `TouchedAgrees`, `LoadedAgrees`), and `IndexMoves` says that a step takes an
index through one of them or leaves it alone. `AgeInv` is what makes evictions take the
newest last: nothing on disk or in an index was used in the future (`DirsPast`, `IndexPast`),
nothing in the index of a process was used after the snapshot it is saving, and that one
stands last in its lineage (`SavedBy`). Then the oldest of a lineage of several is another
one (`OldestOther`), and the least recently used is the new one only in a tie.

### How induction over data is done

The library's induction theorems take an operator as a parameter, which the installed
provers cannot instantiate. `ProofFacts` states induction over sets instead: `Least` (a set of
naturals that is not empty has a least element, from the library's fact that the strict
subset order on finite sets is well-founded), `NatInduct` and `SetInduct` (a set that holds 0
or `{}` and is closed under one more holds everything). A property is then the set of the
values that have it, and a lemma needs only first-order reasoning to be applied.
`Recursion` shows that a function defined by recursion exists, which is what lets `Without`
(`WithoutKeeps`), sums over finite sets (`SumFold`, `SumRemove`, `SumSame`) and
`Grown` be proved about.

### Only model-checked

Liveness: `EveryRequestEnds`, `EveryRequestAnswered` and `UnitEnds`. Their proofs need
`ENABLED`, which is out of the prover's reach. Every other property of a run that passes is
stated by a theorem. The properties of the four runs that end in a violation are false under
the constants of these runs; `StreamsDecodeOwnRows` and `Durable` are theorems under the
hypotheses above, which exclude exactly what the counterexamples use, and the exception in
`Durable` (`MayMix`) and that in `AccountedFor` (`Tidy`) are needed too (section 6).

## 6. Where the code disagrees with its comments

1. *A failed restore under an admission* (`failed_restore`). `end_lend` pops a record
   once it has restored it. Its comment says that after a failure no stream decodes on
   prefill bytes, because the next `end_lend` retries and a failing decode step aborts.
   But `try_admit` calls it too, and there a failure fails only that request: the arena
   stays lent, the next prefill unit's lend does nothing, its pass overwrites the rows
   that were already restored, and the next `end_lend` succeeds without them.
2. *A crash between the two renames* (`snapshot_crash`). `commit_dir` moves the previous
   snapshot of a key aside (`S/snapshot.rs:1153`) and renames the new one into place
   (1158). A process that dies in between leaves neither under the key's name, and the
   next load deletes both directories (430-438); the comment in `save` (1119-1122) says
   that a crash no longer costs the previous snapshot.
3. *One break fails two units* (`tickets_blame`). A request that fails at box 2 gets an
   error frame, and then the daemon closes the connection (`K/remote_experts.rs:9343-9349`).
   Neither the wait that takes the frame nor the drain that meets the closed connection
   marks the client dead, so nothing redials and the next unit, perhaps a decode step of
   all live streams, fails too; the comments at `dead` (9784-9786) and at
   `S/multistream.rs:1363` say that only the request that discovers the failure fails.
   `tickets` shows that it ends there: two units per break, one more per refused dial.

4. *An aged request is passed* (`sched_passed`). The comment at `S/multistream.rs:947` says
   that aged requests go first, oldest first, and the one at 1041 that a starved request
   that does not fit holds the others back. The order is established once per pass
   (949-956). When the request put first is cancelled, refused or fails to start, the inner
   loop goes on with the next of the queue (957-960) without ordering it again, and the
   requests that stepped aside in earlier passes were put in front (1085). So a request
   that has not aged can be started before one that was found starved.
   Each time takes one such request in front, and the next pass orders the queue again.

The first needs a device copy to fail and the process to go on. With `RequestFaults =
{"move"}` the same property fails in `MCArenaCalls` for a second reason: a request's lend
or admission may compact other streams' regions, and a chunk of an overlapping move that
fails leaves such a region half overwritten while only the request is failed
(`S/multistream.rs:1363`) and the stream keeps decoding.

Six more observations, not runs of their own (the last in a part that is not modelled):

- *A touch may mix two snapshots.* `touch` reads `meta.json` (`S/snapshot.rs:538`), then
  writes a new one and renames it into place (544-545), all by path. If an overlapping
  server commits a checkpoint of the key in between, the full snapshot's `meta.json` stands
  over the checkpoint's blobs. The directory is in both indexes and cannot be restored: the
  next attempt reads past the end of `kv.bin` (1584-1587), fails and evicts it. The comment
  in `save` (1117-1120) says that old and new files no longer stand side by side under an
  indexed key. TLC finds this in the world `Overlap` of `MCSnapshotStore` when `Durable` is
  stated without its exception `MayMix`. `ResumesSound` holds all the same: no request
  starts on such a mixture.
- *A removal that fails or is cut short is not counted.* An eviction drops its entry and
  then deletes the directory (`S/snapshot.rs:591`); a failure is only logged. What is left
  sits on disk outside the cap: until the next load if it still has a `meta.json`, and else
  until the same key is saved again, since a load skips it silently (443-445). The comments
  in `load` (452-454) and at the removal (554-555) say that nothing shall. TLC finds it in
  the world `TwoKeys` when `AccountedFor` is stated without `Tidy`.
- The comment on `EngineRequest::EmbedWake` says at most one wake is ever in the channel.
  The idle path clears the flag before it blocks, while a wake may still be in the
  channel; the next push then sends another. No wake is missed by it.
- When the captures of a decode step cannot be read back (`S/multistream.rs:2155-2182`),
  the kept rows are skipped and the ring is not restarted: the rows kept next follow a
  hole. `DraftsSeeNewestRows` fails without its exception for such a stream (`hole`); the
  draft is only worse for it, since drafts are verified.
- `drain_prefetched` takes up to eight reads off the channel and admits them one by one
  (`K/expert_pager.rs:1836-1913`). When an upload fails, the rest are dropped, but their keys
  stay in `pending` ("queued or read-but-not-admitted"): those experts are never read in the
  background again and each takes one of the 64 places for good. `ExpertsOnce` therefore
  says that what is on its way is pending, and not the converse.
- A dump of the trace ring drains the threads' buffers first, for "Everything emitted before
  the request" (`K/evtrace_ring.rs:339`). The Tier B thread may be draining too: between its
  swap of a buffer (`:220`) and the push to the ring (`:222`) those records are in neither,
  and the dump lacks them. They reach the ring, and the next dump, right after.

## 7. Not modelled, and the plan

Not modelled because it is data and not control: kernels, numerics, model loading,
tokenizer, prompt encoding, sampling (probabilistic), vision, tools and scripts. Not
modelled because it is not in use beside the multi-stream loop: the serial loop of
`engine_worker.rs`.

Left out of modules that exist:

- `SnapshotStore`: a load is one step; a removal is one step, cut short at most by a
  failure or a crash, and in the runs only where one server is alive; the opens of a
  restore's blobs are one step (`ReadBlobs`), so a directory that is replaced between two of
  them is not told apart from one replaced before the first; the write and the rename of
  `meta.json.tmp` are one step (`Stamp`): what another server does in between only makes
  it fail (`StampFails`), except that two servers touching one snapshot at the same instant,
  one of whose writes fails or is cut by a crash, could leave a `meta.json` that does not
  parse; the hints of `session_to_hash`, formats and fingerprints of other builds. The runs
  leave out a commit whose second rename fails and whose way back fails as well (the code
  can only log it).
- `KvArena`: a device-to-host copy of a lend that fails has no action (the request that
  asked for the loan fails and nothing is lent).
- `Scheduler`: decode steps keep one or two rows, where up to eight may be kept.
- `RemoteTickets`: a break reaches both ends. If only the hub saw it, the daemon would
  still serve the old connection, and `connect`, which waits for a HELLO without a
  timeout (`K/remote_experts.rs:9894`), would block the engine thread for ever.
- `PinProtocol`: nursery and partial slots, floors, regions and the recency order of
  victims (any that a search may take), the keep set and the counts that rank
  releases (any order), soft maps, predicted-miss hints, and the wrap of 32-bit epochs;
  requests of more than 16 rows that ask for pins occur in the prefill phase only.
- `ExpertPager`: dense windows and packed layers, `ensure_batched` (the serial decode
  path, with the same claims), the page-cache read-ahead, hints to box 2, the hot set.
- `DraftRing`: `V41_MS_DSPARK_FILL=0`, the gates and policies that choose how much to
  draft (any choice), the acceptance arithmetic.

The modules to write next, in this order:

1. The dense windows of the expert pager and two lanes over them (KNOWN_BUGS #58,
   `K/expert_pager.rs:293`), which the production setting does not use.
2. The two loans' planning (`K/prefill_loan.rs`, `v4flash-kernels/src/dgpu_loan.rs`) and
   `StopScanner`, as pure operators against a reference.
3. `EvtraceRing`: thread buffers, try_lock, orphans, dump.
