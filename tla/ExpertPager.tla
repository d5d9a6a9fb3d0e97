---------------------------- MODULE ExpertPager ----------------------------
(* Box 1's expert pager while steps and prefill chunks run over it: the slots *)
(* of the pool and their eviction order, `ensure` with its claims, the remap  *)
(* table of each layer on the iGPU's stream, and the thread that reads missed *)
(* experts in the background. The host thread drives the lanes of a unit (a   *)
(* decode step or a prefill chunk) layer by layer; what it queues for the     *)
(* iGPU runs later, in order. The pool has no dense windows (sparse           *)
(* residency, the production setting): an id may be in any slot.              *)
EXTENDS Integers, SequencesExt, FiniteSetsExt, SeqFilter

CONSTANTS
  NSlots,       \* slots of the pool
  NLayers,      \* layers with routed experts
  Ids,          \* expert ids of a layer
  Lanes,        \* lanes of a unit
  PickSizes,    \* bound: how many ids a lane may have for box 1 at a layer
  Scan,         \* V41_PREFILL_SCAN_SLOTS: slots a prefill chunk may allocate
  NStages,      \* pinned staging buffers of remap tables
  MaxAdmit,     \* V41_B1_PREFETCH_ADMIT
  InflightMax,  \* PREFETCH_INFLIGHT_MAX
  MaxUnits,     \* bound: steps and chunks of a run
  MaxFaults     \* bound: failures of a run

ASSUME PagerAssumption ==
  /\ {NSlots, NStages} \subseteq Nat \ {0} /\ {NLayers, Scan, MaxAdmit, InflightMax} \subseteq Nat
  /\ IsFiniteSet(Ids)

Slots == 1 .. NSlots
Layers == 1 .. NLayers
Keys == Layers \X Ids
NoKey == <<>>
Junk == <<0>>          \* bytes of no expert, half an upload included

VARIABLES
  slotKey,   \* Residency.slot_key (slot_of is its inverse)
  bytes,     \* whose weights each slot really holds
  lru,       \* occupied slots, least recently used first (last_use)
  remapDev,  \* the remap table of each layer on the iGPU: id -> slot
  stage,     \* the pinned buffers the tables are copied from
  nextStage, \* remap_stage_next
  queue,     \* what ie.compute has yet to run, oldest first
  lanes,     \* lane -> [layer, at, ids]
  unit,      \* "none", or the unit under way
  units,     \* units begun so far
  stack,     \* HintStack
  read,      \* its channel of finished reads: [key, ok]
  pending,   \* Prefetcher.pending
  faults     \* failures so far

poolVars == <<slotKey, bytes, lru>>
remapVars == <<remapDev, stage, nextStage>>
hintVars == <<stack, read, pending>>
pagerVars == <<poolVars, remapVars, queue, lanes, unit, units, hintVars, faults>>

Fault == faults < MaxFaults /\ faults' = faults + 1

----------------------------------------------------------------------------
(* The pool: key -> slot, the eviction order, claims. A pool is a record so   *)
(* that one call can be folded over its ids.                                  *)

Pool == [key |-> slotKey, bytes |-> bytes, lru |-> lru]

SlotsOf(p, k) == {s \in Slots : p.key[s] = k}
Resident(p, k) == SlotsOf(p, k) # {}
SlotOf(p, k) == CHOOSE s \in SlotsOf(p, k) : TRUE

touch(p, s) == [p EXCEPT !.lru = Append(Without(@, {s}), s)]

FreeIn(p, range) == {s \in range : p.key[s] = NoKey}
lru_victim(p, range) == p.lru[Min({j \in DOMAIN p.lru : p.lru[j] \in range})]

\* The slot a new key gets: the lowest free one, else the least recently used.
Place(p, range) == IF FreeIn(p, range) # {} THEN Min(FreeIn(p, range))
                                            ELSE lru_victim(p, range)

claim(p, k, s) == touch([p EXCEPT !.key[s] = k], s)

release(p, gone) ==
  [p EXCEPT !.key = [s \in Slots |-> IF s \in gone THEN NoKey ELSE p.key[s]],
            !.lru = Without(@, gone)]

\* faulty: a failed `ensure` keeps the claims whose bytes never landed
BugReleaseUnlanded(p, claims, landed) == p
\* A failed call gives back the claims past the landed ones.
release_unlanded(p, claims, landed) ==
  release(p, {claims[j] : j \in landed + 1 .. Len(claims)})

\* One id of a call: a hit is touched, a miss claims a slot, and a call that
\* would evict a slot of its own is refused.
Classify(c, k, range) ==
  IF c.refused THEN c
  ELSE IF Resident(c.pool, k)
       THEN LET s == SlotOf(c.pool, k)
            IN [c EXCEPT !.pool = touch(@, s), !.used = @ \cup {s}]
       ELSE LET s == Place(c.pool, range)
            IN IF s \in c.used THEN [c EXCEPT !.refused = TRUE]
               ELSE [c EXCEPT !.pool = claim(@, k, s), !.used = @ \cup {s},
                              !.claims = Append(@, s)]

\* The slots a unit's misses may land in: a prefill chunk keeps to the last
\* Scan slots, but never fewer than the ids of this call.
alloc_bounds(ids) ==
  LET scan == Max({Scan, Cardinality(ids)})
  IN IF unit = "prefill" /\ scan < NSlots THEN NSlots - scan + 1 .. NSlots ELSE Slots

\* `ensure`, up to the uploads.
Classified(layer, order, range) ==
  LET call[j \in 0 .. Len(order)] ==
        IF j = 0 THEN [pool |-> Pool, used |-> {}, claims |-> <<>>, refused |-> FALSE]
        ELSE Classify(call[j - 1], <<layer, order[j]>>, range)
  IN call[Len(order)]

\* The uploads land in claim order; `torn` is what a failing one leaves in its slot.
Uploaded(p, claims, landed, torn) ==
  [p EXCEPT !.bytes = [s \in Slots |->
     IF \E j \in 1 .. landed : claims[j] = s THEN p.key[s]
     ELSE IF torn /\ landed < Len(claims) /\ claims[landed + 1] = s THEN Junk
     ELSE p.bytes[s]]]

SetPool(p) == slotKey' = p.key /\ bytes' = p.bytes /\ lru' = p.lru

----------------------------------------------------------------------------
(* The background reads.                                                      *)

\* `prefetch_hint` and `prefetch_now`: neither resident nor asked for already,
\* and below the cap. (The count of misses that gates a hint is left open.)
Wanted == {k \in Keys : ~ Resident(Pool, k) /\ k \notin pending}
MayQueue == Cardinality(pending) < InflightMax

Hint(k) == stack' = Append(stack, k) /\ pending' = pending \cup {k}

\* The thread takes the newest request, reads the expert and hands the bytes
\* over, none when the read fails. (Nobody sees how long that takes: a request
\* queued meanwhile stays queued either way.)
PrefetchRead ==
  /\ stack # <<>>
  /\ stack' = Front(stack)
  /\ \/ read' = Append(read, [key |-> Last(stack), ok |-> TRUE]) /\ UNCHANGED faults
     \/ read' = Append(read, [key |-> Last(stack), ok |-> FALSE]) /\ Fault
  /\ UNCHANGED <<poolVars, remapVars, queue, lanes, unit, units, pending>>

\* faulty: an admission does not look whether the expert was paged meanwhile
BugSkipped(p, r) == ~ r.ok
\* One finished read goes into the pool unless it failed or `ensure` has paged
\* the expert meanwhile.
Skipped(p, r) == ~ r.ok \/ Resident(p, r.key)
Admit(p, r) ==
  IF Skipped(p, r) THEN p
  ELSE LET s == Place(p, Slots) IN [claim(p, r.key, s) EXCEPT !.bytes[s] = r.key]

\* The upload of a read fails: its slot is free and holds no expert.
AdmitFails(p, r) == LET s == Place(p, Slots) IN [release(p, {s}) EXCEPT !.bytes[s] = Junk]

\* `drain_prefetched` takes reads off the channel, then admits them one by one.
\* On a failed upload the rest of what it took is dropped.
Taken == SubSeq(read, 1, Min({MaxAdmit, Len(read)}))
KeysOf(reads) == {reads[j].key : j \in DOMAIN reads}
drain_prefetched(n, p) ==
  /\ read' = SubSeq(read, Len(Taken) + 1, Len(read))
  /\ pending' = pending \ KeysOf(SubSeq(Taken, 1, n))
  /\ SetPool(p)
  /\ UNCHANGED stack

Drained(n) ==
  LET pool[j \in 0 .. n] == IF j = 0 THEN Pool ELSE Admit(pool[j - 1], Taken[j]) IN pool[n]

----------------------------------------------------------------------------
(* A unit of work.                                                            *)

Off == [layer |-> 0, at |-> "off", ids |-> {}]

\* A step or a chunk begins by admitting finished reads: the unit before it
\* has been waited for, or has failed.
StartUnit(kind) ==
  /\ unit = "none" /\ units < MaxUnits
  /\ units' = units + 1
  /\ drain_prefetched(Len(Taken), Drained(Len(Taken)))
  /\ unit' = kind
  /\ lanes' = [i \in Lanes |-> [Off EXCEPT !.at = "launched"]]
  /\ UNCHANGED <<remapVars, queue, faults>>

\* An upload of the admissions fails and with it the step or chunk.
StartFails(n) ==
  /\ unit = "none" /\ n \in DOMAIN Taken
  /\ ~ Skipped(Drained(n - 1), Taken[n])
  /\ drain_prefetched(n, AdmitFails(Drained(n - 1), Taken[n]))
  /\ Fault
  /\ UNCHANGED <<remapVars, queue, lanes, unit, units>>

\* A decode step asks for the newcomers of the hot set (prefetch_now).
Prewarm(k) ==
  /\ unit = "decode" /\ \A i \in Lanes : lanes[i].layer = 0
  /\ MayQueue /\ k \in Wanted
  /\ Hint(k)
  /\ UNCHANGED <<poolVars, remapVars, queue, lanes, unit, units, read, faults>>

\* Prep and launch of one lane are not parted by the other lane's.
HostFree == unit # "none" /\ \A i \in Lanes : lanes[i].at # "prepped"

MoeQueued(i) == \E j \in DOMAIN queue : queue[j].op = "moe" /\ queue[j].lane = i /\ queue[j].live

\* pre_moe_route: the lane's MoE of the layer before has arrived; box 1 is to
\* compute `ids`, of which `sub` replaces a miss of box 2 and is touched, and
\* another expert of the layer may be asked for in the background.
Route(i, ids, sub, hint) ==
  LET l == lanes[i].layer + 1
  IN /\ HostFree /\ lanes[i].at = "launched" /\ l \in Layers /\ ~ MoeQueued(i)
     /\ \A id \in sub : Resident(Pool, <<l, id>>)
     /\ lanes' = [lanes EXCEPT ![i] = [layer |-> l, at |-> "routed", ids |-> ids]]
     /\ lru' = IF sub = {} THEN lru
               ELSE touch(Pool, SlotOf(Pool, <<l, CHOOSE id \in sub : TRUE>>)).lru
     /\ IF hint = {} THEN UNCHANGED <<stack, pending>>
        ELSE MayQueue /\ \E id \in hint : <<l, id>> \in Wanted /\ Hint(<<l, id>>)
     /\ UNCHANGED <<slotKey, bytes, remapVars, queue, unit, units, read, faults>>

\* What a failed unit queued still runs, for nobody.
Abandoned(q) == [j \in DOMAIN q |-> IF q[j].op = "moe" THEN [q[j] EXCEPT !.live = FALSE] ELSE q[j]]

FailUnit ==
  /\ Fault
  /\ unit' = "none"
  /\ lanes' = [i \in Lanes |-> Off]
  /\ queue' = Abandoned(queue)
  /\ UNCHANGED units

CopyQueued(t) == \E j \in DOMAIN queue : queue[j].op = "copy" /\ queue[j].stage = t

\* pre_moe_prep waits for the iGPU when an id of the lane is not resident,
\* since paging it may evict what a queued MoE reads.
MayPage(i) ==
  \/ \A id \in lanes[i].ids : Resident(Pool, <<lanes[i].layer, id>>)
  \/ queue = <<>>

\* pre_moe_prep: page the lane's experts and queue the upload of its table
\* from the next staging buffer, which the copy before must have left.
Prep(i, order) ==
  LET l == lanes[i].layer
      c == Classified(l, order, alloc_bounds(lanes[i].ids))
      p == Uploaded(c.pool, c.claims, Len(c.claims), FALSE)
  IN /\ HostFree /\ lanes[i].at = "routed" /\ MayPage(i)
     /\ ~ c.refused /\ ~ CopyQueued(nextStage)
     /\ SetPool(p)
     /\ stage' = [stage EXCEPT ![nextStage] = [id \in lanes[i].ids |-> SlotOf(p, <<l, id>>)]]
     /\ queue' = Append(queue, [op |-> "copy", layer |-> l, stage |-> nextStage])
     /\ nextStage' = (nextStage % NStages) + 1
     /\ lanes' = [lanes EXCEPT ![i].at = "prepped"]
     /\ UNCHANGED <<remapDev, unit, units, hintVars, faults>>

\* A read or an upload of `ensure` fails after `landed` experts: the claims
\* whose bytes never came are released, the unit fails, the pager stays.
PrepFails(i, order, landed, torn) ==
  LET c == Classified(lanes[i].layer, order, alloc_bounds(lanes[i].ids))
  IN /\ HostFree /\ lanes[i].at = "routed" /\ MayPage(i)
     /\ landed < Len(c.claims) \/ c.refused
     /\ c.refused => landed = 0 /\ ~ torn
     /\ SetPool(release_unlanded(Uploaded(c.pool, c.claims, landed, torn), c.claims, landed))
     /\ FailUnit
     /\ UNCHANGED <<remapVars, hintVars>>

\* pre_moe_launch: the MoE of the lane is queued behind its table.
Launch(i) ==
  /\ lanes[i].at = "prepped"
  /\ queue' = Append(queue, [op |-> "moe", layer |-> lanes[i].layer, lane |-> i,
                             ids |-> lanes[i].ids, live |-> TRUE])
  /\ lanes' = [lanes EXCEPT ![i].at = "launched"]
  /\ UNCHANGED <<poolVars, remapVars, unit, units, hintVars, faults>>

\* The unit fails anywhere else (a dGPU fault, a reply of box 2).
Abandon ==
  /\ unit # "none"
  /\ FailUnit
  /\ UNCHANGED <<poolVars, remapVars, hintVars>>

\* The last layer's results are waited for.
EndUnit ==
  /\ HostFree /\ queue = <<>>
  /\ \A i \in Lanes : lanes[i].at = "launched" /\ lanes[i].layer = NLayers
  /\ unit' = "none" /\ lanes' = [i \in Lanes |-> Off]
  /\ UNCHANGED <<poolVars, remapVars, queue, units, hintVars, faults>>

\* ie.compute runs its oldest command.
IgpuRuns ==
  /\ queue # <<>>
  /\ queue' = Tail(queue)
  /\ remapDev' = IF Head(queue).op = "moe" THEN remapDev
                 ELSE [remapDev EXCEPT ![Head(queue).layer] = stage[Head(queue).stage]]
  /\ UNCHANGED <<poolVars, stage, nextStage, lanes, unit, units, hintVars, faults>>

----------------------------------------------------------------------------

NoTable == [id \in {} |-> 0]

PagerInit ==
  /\ slotKey = [s \in Slots |-> NoKey] /\ bytes = [s \in Slots |-> Junk] /\ lru = <<>>
  /\ remapDev = [l \in Layers |-> NoTable]
  /\ stage = [t \in 1 .. NStages |-> NoTable] /\ nextStage = 1
  /\ queue = <<>> /\ lanes = [i \in Lanes |-> Off] /\ unit = "none" /\ units = 0
  /\ stack = <<>> /\ read = <<>> /\ pending = {} /\ faults = 0

Picks == {ids \in SUBSET Ids : Cardinality(ids) \in PickSizes}
AtMostOne(S) == {{}} \cup {{x} : x \in S}

PagerNext ==
  \/ PrefetchRead
  \/ \E kind \in {"decode", "prefill"} : StartUnit(kind)
  \/ \E n \in 1 .. MaxAdmit : StartFails(n)
  \/ \E k \in Keys : Prewarm(k)
  \/ \E i \in Lanes, ids \in Picks :
       \E sub \in AtMostOne(ids), hint \in AtMostOne(Ids \ ids) : Route(i, ids, sub, hint)
  \/ \E i \in Lanes : \E order \in SetToSeqs(lanes[i].ids) : Prep(i, order)
  \/ \E i \in Lanes : \E order \in SetToSeqs(lanes[i].ids) :
       \E landed \in 0 .. Len(order) - 1, torn \in BOOLEAN : PrepFails(i, order, landed, torn)
  \/ \E i \in Lanes : Launch(i)
  \/ Abandon
  \/ EndUnit
  \/ IgpuRuns

PagerSpec == PagerInit /\ [][PagerNext]_pagerVars

----------------------------------------------------------------------------
(* Properties.                                                                *)

\* A MoE somebody waits for finds, at the slot the table of its layer gives
\* each of its experts, the weights of that very expert: no eviction by the
\* other lane's paging, no claim whose bytes never landed and no table of the
\* other lane gets between pre_moe_prep and the kernel.
MoesReadTheirExperts ==
  queue # <<>> /\ Head(queue).op = "moe" /\ Head(queue).live =>
    \A id \in Head(queue).ids :
      LET table == remapDev[Head(queue).layer]
      IN id \in DOMAIN table /\ bytes[table[id]] = <<Head(queue).layer, id>>

\* No expert is resident in two slots, whatever `ensure` paged while the
\* prefetch thread was reading it, and none is asked for or read twice at a
\* time; what is asked for stays within PREFETCH_INFLIGHT_MAX.
ExpertsOnce ==
  LET asked == stack \o [j \in DOMAIN read |-> read[j].key]
  IN /\ \A s, t \in Slots : slotKey[s] = slotKey[t] => s = t \/ slotKey[s] = NoKey
     /\ IsInjective(asked) /\ ToSet(asked) \subseteq pending
     /\ Cardinality(pending) <= InflightMax

=============================================================================
