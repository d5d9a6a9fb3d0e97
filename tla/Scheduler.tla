------------------------------ MODULE Scheduler ------------------------------
(***************************************************************************)
(* The multi-stream scheduler (deepstrix-server/multistream.rs): one       *)
(* thread that takes requests from a channel, reserves KV room for them,   *)
(* prefills and decodes them in bursts and answers each of them.           *)
(*                                                                         *)
(* A tick is a sequence of steps here ("pc"), because clients cancel and   *)
(* time passes while it runs.  The arena is its free room: a reservation   *)
(* fits iff the free positions suffice (module KvArena shows that a        *)
(* compaction gathers them), and a growth fails without change iff they do *)
(* not.  Time is two flags: how long a request has waited (age) and        *)
(* whether the phase's burst budget is spent.                              *)
(*                                                                         *)
(* Not modelled: the serial legacy mode (V41_DSPARK without V41_MS_DSPARK, *)
(* every request then runs alone), parked requests (a reservation holds    *)
(* the prompt, its marker and two positions more, so none is ever parked), *)
(* snapshots, the embed phase between ticks, shutdown.                     *)
(***************************************************************************)
EXTENDS Naturals, FiniteSets, SequencesExt, SeqFilter

CONSTANTS
  Reqs,           \* clients, each with at most one request at a time
  Prompt, MaxNew, \* prompt length and max_new of each client's request
  Marker,         \* clients whose prompt ends in a marker, fed by the first step
  Room,           \* positions the arena holds
  Ctx,            \* n_kv_max
  NSlots, NScratch,
  Headroom, GrowStep, GrowAt, Spare,   \* the V41_MS_KV_* knobs
  MaxChunks,      \* bound on the units of a prefill
  MaxRun,         \* bound on the rows a stream keeps of one step
  MaxSends,       \* bound on the requests sent, 0 for no bound
  MayCancel,      \* clients that may give up
  FirstMayEnd,    \* clients whose first token may end the turn
  Faults          \* what may fail: "reserve", "start", "prefill", "decode"

ASSUME SchedulerAssumption ==
  /\ IsFiniteSet(Reqs)
  /\ Prompt \in [Reqs -> Nat \ {0}] /\ MaxNew \in [Reqs -> Nat \ {0}]
  /\ {MaxSends, Room, Ctx, Headroom, GrowAt, Spare} \subseteq Nat
  /\ {NSlots, GrowStep, MaxChunks, MaxRun} \subseteq Nat \ {0}
  /\ NScratch \in 1 .. 3
  /\ Faults \subseteq {"reserve", "start", "prefill", "decode"}

VARIABLES
  sends,          \* requests that may still be sent
  inbox,          \* the channel from the HTTP handlers
  queue,          \* waiting requests
  deferred,       \* requests that stepped aside in this tick's admission
  prefills,       \* prefills in flight
  streams,        \* live streams
  cancel,         \* clients that gave up
  answers,        \* terminal events sent to each client's last request
  order,          \* requests by the time they were enqueued
  age,            \* 0, 1: waited V41_MS_AGING_S, 2: waited V41_MS_STARVE_S
  roomWait,       \* requests that have stepped aside for want of room
  held,           \* starved requests that hold the others back (ghost)
  stalledSince,   \* streams that sit steps out
  cap, pos,       \* reserved positions and next position of each request
  tokens,         \* completion tokens
  chunks,         \* prefill units left
  window,         \* job with an open layer-major window, or NoJob
  midGroup,       \* is that window in the middle of a group?
  spare,          \* spare scratch states
  rr,             \* round robin over the prefills
  phase, burst,   \* burst: "new", "run" (a unit has run), "spent"
  pc

NoJob == "no job"
clients == <<sends, inbox, cancel, answers, order, age>>
kv == <<cap, pos, tokens>>
waits == <<roomWait, held>>
jobs == <<prefills, chunks, window, midGroup, spare, rr>>
vars == <<clients, queue, deferred, jobs, streams, waits, stalledSince, kv, phase, burst, pc>>

(***************************************************************************)
(* Helpers                                                                 *)
(***************************************************************************)
InSystem(r) == \E s \in {inbox, queue, deferred, prefills, streams} : Contains(s, r)
LeastOf(a, b) == IF a <= b THEN a ELSE b

\* effective_max_new, reservation, could_fit
Reservation(r) ==
  Prompt[r] + (IF r \in Marker THEN 1 ELSE 0) + 2
  + (IF Headroom = 0 THEN MaxNew[r] ELSE LeastOf(MaxNew[r], Headroom))
CtxFull(r) == Prompt[r] + MaxNew[r] + 2
Refused(r) == CtxFull(r) > Ctx \/ Reservation(r) > Room

Used(c) == SumFunctionOnSet(c, Reqs)
Owners == {r \in Reqs : cap[r] > 0}
\* fits_with_spare: leave room for the live streams to grow into
SpareNow == IF streams = <<>> \/ Headroom = 0 THEN 0 ELSE Spare
FitsNow(r) == Used(cap) + Reservation(r) + SpareNow <= Room
AnyStalled == \E r \in ToSet(streams) : r \in stalledSince

Answer(R) == answers' = [r \in Reqs |-> IF r \in R THEN answers[r] + 1 ELSE answers[r]]
Zero(f, R) == [r \in Reqs |-> IF r \in R THEN 0 ELSE f[r]]
Release(R) == cap' = Zero(cap, R) /\ pos' = Zero(pos, R) /\ tokens' = Zero(tokens, R)
\* nothing of a request outlives it in the scheduler
Leave(R) ==
  /\ order' = Without(order, R) /\ age' = Zero(age, R)
  /\ roomWait' = roomWait \ R /\ held' = held \ R
  /\ UNCHANGED <<sends, inbox, cancel>>
Unit == burst' = IF burst = "new" THEN "run" ELSE burst

Init ==
  /\ sends = MaxSends
  /\ inbox = <<>> /\ queue = <<>> /\ deferred = <<>> /\ prefills = <<>> /\ streams = <<>>
  /\ order = <<>> /\ cancel = {} /\ roomWait = {} /\ held = {} /\ stalledSince = {}
  /\ answers = [r \in Reqs |-> 1] /\ age = [r \in Reqs |-> 0]
  /\ cap = [r \in Reqs |-> 0] /\ pos = [r \in Reqs |-> 0] /\ tokens = [r \in Reqs |-> 0]
  /\ chunks = [r \in Reqs |-> 0] /\ window = NoJob /\ midGroup = FALSE
  /\ spare = NScratch /\ rr = 0
  /\ phase = "decode" /\ burst = "new" /\ pc = "top"

(***************************************************************************)
(* Clients and time                                                        *)
(***************************************************************************)
\* (the channel is read at the top of the loop only, and so is written there)
Send(r) ==
  /\ pc = "top" /\ ~ InSystem(r) /\ (sends > 0 \/ MaxSends = 0)
  /\ sends' = IF MaxSends = 0 THEN 0 ELSE sends - 1
  /\ inbox' = Append(inbox, r)
  /\ cancel' = cancel \ {r}
  /\ answers' = [answers EXCEPT ![r] = 0]
  /\ UNCHANGED <<order, age, queue, deferred, jobs, streams, waits, stalledSince, kv, phase, burst, pc>>

Cancel(r) ==
  /\ r \in MayCancel /\ InSystem(r)
  /\ cancel' = cancel \cup {r}
  /\ UNCHANGED <<sends, inbox, answers, order, age, queue, deferred, jobs, streams, waits,
                 stalledSince, kv, phase, burst, pc>>

\* a request that is still in the scheduler has waited longer; never longer
\* than one enqueued before it
GrowOlder(r) ==
  /\ \E i \in DOMAIN order :
       /\ order[i] = r
       /\ \A j \in 1 .. (i - 1) : age[order[j]] > age[r]
  /\ age[r] < 2
  /\ age' = [age EXCEPT ![r] = @ + 1]
  /\ UNCHANGED <<sends, inbox, cancel, answers, order, queue, deferred, jobs, streams, waits,
                 stalledSince, kv, phase, burst, pc>>

\* the phase has lasted its budget (tested once a tick); the budgets exceed one
\* scheduling pass
BudgetSpent ==
  /\ pc = "top" /\ burst = "run"
  /\ burst' = "spent"
  /\ UNCHANGED <<clients, queue, deferred, jobs, streams, waits, stalledSince, kv, phase, pc>>

(***************************************************************************)
(* worker_loop_ms and the head of tick                                     *)
(***************************************************************************)
HasWork == queue # <<>> \/ prefills # <<>> \/ streams # <<>>

\* one message per iteration; with nothing to do the loop blocks on the channel
Intake ==
  /\ pc = "top"
  /\ HasWork \/ inbox # <<>>
  /\ IF inbox = <<>> THEN UNCHANGED <<inbox, queue, order>>
     ELSE /\ inbox' = Tail(inbox)
          /\ queue' = Append(queue, Head(inbox))
          /\ order' = Append(order, Head(inbox))
  /\ pc' = "purge"
  /\ UNCHANGED <<sends, cancel, answers, age, deferred, jobs, streams, waits, stalledSince, kv, phase, burst>>

\* cancelled streams leave before the step
Purge ==
  LET gone == ToSet(streams) \cap cancel IN
  /\ pc = "purge"
  /\ streams' = Without(streams, gone)
  /\ Release(gone) /\ Leave(gone)
  /\ stalledSince' = stalledSince \ gone
  /\ pc' = "pick"
  /\ UNCHANGED <<answers, queue, deferred, jobs, phase, burst>>

(***************************************************************************)
(* Admission                                                               *)
(***************************************************************************)
Aged == {r \in ToSet(queue) : age[r] >= 1}
Before(s, q, r) == \E i, j \in DOMAIN s : i < j /\ s[i] = q /\ s[j] = r
\* the oldest aged request, else the first of the shortest prompts
Best(r) ==
  IF Aged # {} THEN r \in Aged /\ \A q \in Aged : ~ Before(order, q, r)
  ELSE /\ r \in ToSet(queue)
       /\ \A q \in ToSet(queue) : Prompt[r] <= Prompt[q]
       /\ \A q \in ToSet(queue) : Before(queue, q, r) => Prompt[q] > Prompt[r]

Pick ==
  /\ pc = "pick"
  /\ IF spare > 0 /\ queue # <<>>
     THEN /\ \E r \in ToSet(queue) : Best(r) /\ queue' = <<r>> \o Without(queue, {r})
          /\ pc' = "scan"
     ELSE pc' = "merge" /\ UNCHANGED queue
  /\ UNCHANGED <<clients, deferred, jobs, streams, waits, stalledSince, kv, phase, burst>>

Scanning == pc = "scan" /\ queue # <<>>
First == Head(queue)
SlotsFull == Cardinality(Owners) >= NSlots
Candidate == Scanning /\ First \notin cancel /\ ~ SlotsFull

\* the admission pass ends without a start
ScanEnds ==
  /\ pc = "scan"
  /\ IF queue = <<>> THEN TRUE ELSE First \notin cancel /\ SlotsFull
  /\ pc' = "merge"
  /\ UNCHANGED <<clients, queue, deferred, jobs, streams, waits, stalledSince, kv, phase, burst>>

ScanCancelled ==
  /\ Scanning /\ First \in cancel
  /\ queue' = Tail(queue)
  /\ Leave({First})
  /\ UNCHANGED <<answers, deferred, jobs, streams, stalledSince, kv, phase, burst, pc>>

\* an error reply: the context or the whole arena cannot hold the request, or
\* its prefill could not be set up (the reservation is given back)
ScanRefuse ==
  /\ Candidate
  /\ \/ Refused(First)
     \/ "start" \in Faults /\ ~ AnyStalled /\ FitsNow(First)
  /\ queue' = Tail(queue)
  /\ Answer({First}) /\ Leave({First})
  /\ UNCHANGED <<deferred, jobs, streams, stalledSince, kv, phase, burst, pc>>

NoRoom == Candidate /\ ~ Refused(First) /\ (AnyStalled \/ ~ FitsNow(First))
\* faulty: however long it has waited
BugScanDefer ==
  /\ NoRoom
  /\ roomWait' = roomWait \cup {First} /\ UNCHANGED held
  /\ deferred' = Append(deferred, First) /\ queue' = Tail(queue)
  /\ UNCHANGED <<clients, jobs, streams, stalledSince, kv, phase, burst, pc>>
\* no room: step aside, ...
ScanDefer ==
  /\ NoRoom /\ age[First] < 2
  /\ roomWait' = roomWait \cup {First} /\ UNCHANGED held
  /\ deferred' = Append(deferred, First) /\ queue' = Tail(queue)
  /\ UNCHANGED <<clients, jobs, streams, stalledSince, kv, phase, burst, pc>>
\* ... but once starved hold all others back
ScanHold ==
  /\ NoRoom /\ age[First] = 2
  /\ roomWait' = roomWait \cup {First} /\ held' = held \cup {First}
  /\ pc' = "merge"
  /\ UNCHANGED <<clients, queue, deferred, jobs, streams, stalledSince, kv, phase, burst>>

\* reserve and start the prefill of n units
ScanStart(n) ==
  /\ Candidate /\ ~ Refused(First) /\ ~ AnyStalled /\ FitsNow(First)
  /\ queue' = Tail(queue)
  /\ prefills' = Append(prefills, First)
  /\ chunks' = [chunks EXCEPT ![First] = n]
  /\ cap' = [cap EXCEPT ![First] = Reservation(First)]
  /\ spare' = spare - 1
  /\ pc' = "pick"
  /\ UNCHANGED <<clients, deferred, window, midGroup, rr, streams, waits, stalledSince, pos,
                 tokens, phase, burst>>

\* faulty: those that stepped aside are dropped, so nobody tells them
BugScanFails ==
  /\ "reserve" \in Faults
  /\ Candidate /\ ~ Refused(First) /\ ~ AnyStalled /\ FitsNow(First)
  /\ queue' = queue
  /\ deferred' = <<>>
  /\ pc' = "abort"
  /\ UNCHANGED <<clients, jobs, streams, waits, stalledSince, kv, phase, burst>>

\* the compaction before the reservation fails: everything waiting goes back
\* to the queue, where abort_all answers it
ScanFails ==
  /\ "reserve" \in Faults
  /\ Candidate /\ ~ Refused(First) /\ ~ AnyStalled /\ FitsNow(First)
  /\ queue' = deferred \o queue
  /\ deferred' = <<>>
  /\ pc' = "abort"
  /\ UNCHANGED <<clients, jobs, streams, waits, stalledSince, kv, phase, burst>>

Merge ==
  /\ pc = "merge"
  /\ queue' = deferred \o queue
  /\ deferred' = <<>>
  /\ pc' = "phase"
  /\ UNCHANGED <<clients, jobs, streams, waits, stalledSince, kv, phase, burst>>

(***************************************************************************)
(* Prefill or decode?                                                      *)
(***************************************************************************)
Starved ==
  \/ \E r \in ToSet(queue) : r \notin roomWait /\ age[r] = 2
  \/ \E r \in ToSet(prefills) : age[r] = 2

NextPhase ==
  IF streams = <<>> THEN "prefill"
  ELSE IF prefills = <<>> THEN "decode"
  ELSE IF Starved THEN "prefill"
  ELSE IF burst # "spent" THEN phase
  ELSE IF phase = "decode" \/ midGroup THEN "prefill" ELSE "decode"

ChoosePhase ==
  /\ pc = "phase"
  /\ IF streams = <<>> /\ prefills = <<>> THEN pc' = "top" /\ UNCHANGED <<phase, burst>>
     ELSE /\ phase' = NextPhase /\ pc' = NextPhase
          /\ burst' = IF NextPhase # phase THEN "new" ELSE burst
  /\ UNCHANGED <<clients, queue, deferred, jobs, streams, waits, stalledSince, kv>>

(***************************************************************************)
(* prefill_tick: one unit of one job                                       *)
(***************************************************************************)
\* rr counts modulo a common multiple of 1 .. NScratch
RrPeriod == <<1, 2, 6>>[NScratch]
JobAt == IF window # NoJob THEN CHOOSE i \in DOMAIN prefills : prefills[i] = window
                           ELSE (rr % Len(prefills)) + 1
TheJob == prefills[JobAt]
Turn == rr' = IF window # NoJob THEN rr ELSE (rr + 1) % RrPeriod
CloseWindow == window' = NoJob /\ midGroup' = FALSE

\* faulty: the scratch state is not recycled
BugJobLeaves == prefills' = Without(prefills, {TheJob}) /\ spare' = spare
JobLeaves == prefills' = Without(prefills, {TheJob}) /\ spare' = spare + 1

\* a cancelled job, or one that failed: its slot and scratch state are freed
JobDropped ==
  /\ pc = "prefill"
  /\ \/ TheJob \in cancel /\ UNCHANGED answers
     \/ TheJob \notin cancel /\ "prefill" \in Faults /\ Answer({TheJob})
  /\ JobLeaves /\ CloseWindow /\ Turn
  /\ Release({TheJob}) /\ Leave({TheJob})
  /\ Unit /\ pc' = "top"
  /\ chunks' = [chunks EXCEPT ![TheJob] = 0]
  /\ UNCHANGED <<queue, deferred, streams, stalledSince, phase>>

\* a unit; afterwards a layer-major window of the job may be open
JobChunk ==
  /\ pc = "prefill" /\ TheJob \notin cancel /\ chunks[TheJob] > 1
  /\ chunks' = [chunks EXCEPT ![TheJob] = @ - 1]
  /\ Turn
  /\ \/ CloseWindow
     \/ window' = TheJob /\ midGroup' \in BOOLEAN
  /\ Unit /\ pc' = "top"
  /\ UNCHANGED <<clients, queue, deferred, prefills, spare, streams, waits, stalledSince, kv, phase>>

\* the last unit, the finish and try_admit: the stream emits its first token,
\* which may end it (stop_reason); one that has its marker to feed emits nothing
JobAdmitted ==
  LET r == TheJob IN
  /\ pc = "prefill" /\ r \notin cancel /\ chunks[r] = 1
  /\ chunks' = [chunks EXCEPT ![r] = 0]
  /\ JobLeaves /\ CloseWindow /\ Turn
  /\ \/ /\ r \notin Marker /\ (MaxNew[r] = 1 \/ r \in FirstMayEnd)
        /\ Answer({r}) /\ Release({r}) /\ Leave({r}) /\ UNCHANGED streams
     \/ /\ r \in Marker \/ MaxNew[r] > 1
        /\ streams' = Append(streams, r)
        /\ pos' = [pos EXCEPT ![r] = Prompt[r]]
        /\ tokens' = [tokens EXCEPT ![r] = IF r \in Marker THEN 0 ELSE 1]
        /\ UNCHANGED <<clients, waits, cap>>
  /\ Unit /\ pc' = "top"
  /\ UNCHANGED <<queue, deferred, stalledSince, phase>>

(***************************************************************************)
(* decode_step: take_stalled, then a step of the streams that can run      *)
(***************************************************************************)
\* take_stalled grows one stream; no room: no change
Grow1(c, r) ==
  LET want == LeastOf(c[r] + GrowStep, CtxFull(r)) IN
  IF c[r] >= CtxFull(r) \/ c[r] > pos[r] + GrowAt \/ Used(c) + (want - c[r]) > Room
  THEN c ELSE [c EXCEPT ![r] = want]
\* the streams are served in their order
Grown ==
  LET grown[i \in 0 .. Len(streams)] ==
        IF i = 0 THEN cap ELSE Grow1(grown[i - 1], streams[i])
  IN grown[Len(streams)]
CanStep(r) == Grown[r] > pos[r]
Runnable == Without(streams, {r \in Reqs : ~ CanStep(r)})
Blocked == Without(streams, {r \in Reqs : CanStep(r)})
StillStalled == {r \in stalledSince : Grown[r] = cap[r]} \cup ToSet(Blocked)

Decoding == pc = "decode"

\* every stream is stalled and no prefill could free rows: the one with the
\* most tokens (the last of them) is ended, and the others retried
Longest(r) ==
  /\ r \in ToSet(Blocked)
  /\ \A q \in ToSet(Blocked) : tokens[q] <= tokens[r]
  /\ \A q \in ToSet(Blocked) : Before(Blocked, r, q) => tokens[q] < tokens[r]
ForceEnd ==
  /\ Decoding /\ Runnable = <<>> /\ Blocked # <<>> /\ prefills = <<>>
  /\ \E r \in ToSet(Blocked) :
       /\ Longest(r)
       /\ streams' = Without(Blocked, {r})
       /\ cap' = Zero(Grown, {r}) /\ pos' = Zero(pos, {r}) /\ tokens' = Zero(tokens, {r})
       /\ stalledSince' = StillStalled \ {r}
       /\ Answer({r}) /\ Leave({r})
  /\ UNCHANGED <<queue, deferred, jobs, phase, burst, pc>>

ToPrefill == prefills # <<>> /\ phase = "decode"
\* no stream can run: let an in-flight prefill become one that can
NothingRuns ==
  /\ Decoding /\ Runnable = <<>> /\ (Blocked = <<>> \/ prefills # <<>>)
  /\ cap' = Grown
  /\ stalledSince' = StillStalled
  /\ streams' = Blocked
  /\ IF ToPrefill THEN phase' = "prefill" /\ burst' = "new" ELSE Unit /\ UNCHANGED phase
  /\ pc' = "top"
  /\ UNCHANGED <<clients, queue, deferred, jobs, waits, pos, tokens>>

\* each runnable stream keeps kept[r] rows of the step; those that emitted
\* their last token or an end of turn, or whose client is found gone, are finished
MaxKept(r) == LeastOf(MaxRun, LeastOf(Grown[r] - pos[r], MaxNew[r] - tokens[r]))
Step(kept, eos) ==
  LET run  == ToSet(Runnable)
      done == eos \cup {r \in run : tokens[r] + kept[r] >= MaxNew[r]}
  IN /\ Decoding /\ Runnable # <<>>
     /\ eos \subseteq run
     /\ \A r \in run : kept[r] <= MaxKept(r)
     /\ \A r \in Reqs \ run : kept[r] = 1
     /\ pos' = Zero([r \in Reqs |-> IF r \in run THEN pos[r] + kept[r] ELSE pos[r]], done)
     /\ tokens' = Zero([r \in Reqs |-> IF r \in run THEN tokens[r] + kept[r] ELSE tokens[r]], done)
     /\ cap' = Zero(Grown, done)
     /\ streams' = Without(Runnable, done) \o Blocked
     /\ stalledSince' = StillStalled \ done
     /\ Answer(done) /\ Leave(done)
     /\ Unit /\ pc' = "top"
     /\ UNCHANGED <<queue, deferred, jobs, phase>>

\* a grow or the step fails: the stalled streams are put back first
DecodeFails ==
  /\ Decoding /\ "decode" \in Faults
  /\ pc' = "abort"
  /\ UNCHANGED <<clients, queue, deferred, jobs, streams, waits, stalledSince, kv, phase, burst>>

\* abort_all: everybody is told, everything is given back
Abort ==
  LET all == ToSet(streams) \cup ToSet(prefills) \cup ToSet(queue) IN
  /\ pc = "abort"
  /\ Answer(all) /\ Release(all) /\ Leave(all)
  /\ streams' = <<>> /\ prefills' = <<>> /\ queue' = <<>>
  /\ spare' = spare + Len(prefills)
  /\ CloseWindow
  /\ stalledSince' = stalledSince \ all
  /\ pc' = "top"
  /\ UNCHANGED <<deferred, chunks, rr, phase, burst>>

SchedStep ==
  \/ Intake \/ Purge \/ Pick
  \/ ScanEnds \/ ScanCancelled \/ ScanRefuse \/ ScanDefer \/ ScanHold
  \/ \E n \in 1 .. MaxChunks : ScanStart(n)
  \/ ScanFails \/ Merge \/ ChoosePhase
  \/ JobDropped \/ JobChunk \/ JobAdmitted
  \/ ForceEnd \/ NothingRuns
  \/ \E kept \in [Reqs -> 1 .. MaxRun], eos \in SUBSET Reqs : Step(kept, eos)
  \/ DecodeFails \/ Abort

Next ==
  \/ \E r \in Reqs : Send(r) \/ Cancel(r) \/ GrowOlder(r)
  \/ BudgetSpent
  \/ SchedStep

\* the scheduler thread runs and time passes; clients owe nothing
Fairness ==
  /\ WF_vars(SchedStep)
  /\ SF_vars(BudgetSpent)
  /\ \A r \in Reqs : WF_vars(GrowOlder(r))

Spec == Init /\ [][Next]_vars /\ Fairness

(***************************************************************************)
(* Properties                                                              *)
(***************************************************************************)
Lists == <<inbox, queue, deferred, prefills, streams>>
Places(r) ==
  Cardinality({p \in (1 .. 5) \X (1 .. Cardinality(Reqs)) :
    p[2] <= Len(Lists[p[1]]) /\ Lists[p[1]][p[2]] = r})

\* Every request is in exactly one place until it has its terminal event, and
\* gets no second one: stepping aside, an abort or a cancellation in the middle
\* of a tick neither loses a request nor answers it twice.
NobodyLost ==
  \A r \in Reqs :
    /\ Places(r) <= 1 /\ answers[r] <= 1
    /\ Places(r) = 1 => answers[r] = 0
    /\ Places(r) = 0 => answers[r] = 1 \/ r \in cancel
    /\ r \in ToSet(order) => InSystem(r)

\* A reservation is held exactly by the prefills and the streams, the arena is
\* never promised twice, and every scratch state is spare or in a prefill, on
\* every path out of the scheduler (finish, cancel, error, abort).
NothingLeaks ==
  /\ Owners = ToSet(prefills) \cup ToSet(streams)
  /\ Used(cap) <= Room
  /\ Cardinality(Owners) <= NSlots
  /\ spare + Len(prefills) = NScratch
  /\ \A r \in ToSet(streams) : pos[r] <= cap[r]

\* "Aged requests go first, OLDEST first" (multistream.rs:947): no younger request
\* is started before one that was found starved, and held the others back.
StarvedNotPassed ==
  [][\A n \in 1 .. MaxChunks : ScanStart(n) =>
       \A r \in ToSet(queue) \cap held : ~ Before(order, r, First)]_vars

\* Every request leaves the scheduler (answered, or dropped once its client gave
\* up), however the bursts fall and although streams run out of room to grow;
\* one that needs most of the arena also while short ones keep coming.
EveryRequestEnds == \A r \in Reqs : InSystem(r) ~> ~ InSystem(r)
=============================================================================
