----------------------------- MODULE ArenaCalls -----------------------------
(***************************************************************************)
(* The arena as the scheduler uses it (deepstrix-server/multistream.rs):   *)
(* a request reserves its slot before its prefill, prefills while the      *)
(* stores' ends are lent, is admitted into the slot and decodes from it.   *)
(* What this module adds to KvArena is who asked for an operation, because *)
(* that decides what a failed copy costs: a failure under one request      *)
(* (prefill_tick, try_admit) fails that request only; a failure of the     *)
(* tick itself (decode_step, take_stalled, the compaction at intake)       *)
(* aborts everything.                                                      *)
(*                                                                         *)
(* The order of operations inside one tick is not kept: the arena refuses  *)
(* (Quiet, ~ lent) what may not run, and every order kept here is one of   *)
(* several ticks.  Parked requests are "prefill" here: they retry          *)
(* try_admit like a prefill that has just finished.                        *)
(***************************************************************************)
EXTENDS KvArena

CONSTANTS
  RequestFaults   \* device copies that may fail under one request

VARIABLES
  role,           \* what each slot is used for
  caller,         \* who asked for the task in progress: a slot, or Tick
  err             \* whose operation has just failed: a slot, Tick, or Nobody

Tick == 0
Nobody == NSlots + 1
callVars == <<vars, role, caller, err>>

Streams == {s \in live : role[s] = "stream"}
Prefills == {s \in live : role[s] = "prefill"}

CallsInit ==
  /\ Init
  /\ role = [s \in Slots |-> "none"]
  /\ caller = Tick
  /\ err = Nobody

\* no operation is in progress and no failure waits to be handled
Ready == Quiet /\ err = Nobody
\* may the copy of this kind fail under the present caller?
CopyMayFail(kind) ==
  IF caller = Tick THEN kind \in Faults ELSE kind \in RequestFaults

NewRoles == role' = [s \in Slots |-> IF s \in live' \ live THEN "prefill" ELSE role[s]]

\* Sched::tick, admission: the reservation comes before the prefill
AdmitReserve(ctx) ==
  /\ Ready /\ Reserve(ctx)
  /\ NewRoles
  /\ UNCHANGED <<caller, err>>

\* the tick begins an operation of the arena for itself or for one request
Begin(who, Op) ==
  /\ Ready /\ Op
  /\ caller' = who
  /\ UNCHANGED <<role, err>>

\* intake: no store has a run for the reservation, compact all of them
IntakeCompacts == Begin(Tick, CompactStart)
\* take_stalled: a stream is near the end of its reservation
StreamGrows(s, ctx) == s \in Streams /\ Begin(Tick, GrowStart(s, ctx))
\* try_admit: the prompt ended past its reservation
AdmissionGrows(s, ctx) == s \in Prefills /\ Fresh(s) /\ Begin(s, GrowStart(s, ctx))
\* prefill_job_tick: lend before the chunk
PrefillLends(s) == s \in Prefills /\ Begin(s, LendStart)

\* a prefill chunk runs on the lent rows
PrefillChunk == Ready /\ Prefills # {} /\ PrefillPass /\ UNCHANGED <<role, caller, err>>

\* end_loan: decode_step and the intake's compaction call it for the tick,
\* try_admit for its request
EndLoan(who) ==
  /\ Ready /\ EndLend
  /\ caller' = who
  /\ UNCHANGED <<role, err>>
EndLoanFails(who) ==
  /\ Ready
  /\ IF who = Tick THEN "restore" \in Faults ELSE "restore" \in RequestFaults
  /\ \E rec \in swapped : EndLendFails(rec)
  /\ caller' = who /\ err' = who
  /\ UNCHANGED role

\* try_admit: the prompt's KV goes into the reservation, a stream is born
Admit(s, p) ==
  /\ Ready /\ s \in Prefills /\ Fill(s, p)
  /\ role' = [role EXCEPT ![s] = "stream"]
  /\ UNCHANGED <<caller, err>>
AdmitFails(s, p, k) ==
  /\ Ready /\ s \in Prefills /\ "fill" \in RequestFaults /\ FillFails(s, p, k)
  /\ caller' = s /\ err' = s
  /\ UNCHANGED role

\* decode_rows, one stream's rows
StreamDecodes(s, k, keep) ==
  /\ Ready /\ s \in Streams /\ DecodeStep(s, k, keep)
  /\ UNCHANGED <<role, caller, err>>

\* finish, a cancelled stream or prefill
Leave(s) ==
  /\ Ready /\ s \in live /\ Release(s)
  /\ role' = [role EXCEPT ![s] = "none"]
  /\ UNCHANGED <<caller, err>>

\* the steps of the operation in progress
Proceed ==
  /\ \/ GrowKeep \/ GrowInPlace \/ GrowRelocate \/ GrowAround \/ GrowAfterAround \/ GrowDone
     \/ \E s \in live : SlideDown(s) \/ SlideUp(s)
     \/ CompactStore \/ CompactDone \/ LendSave
  /\ UNCHANGED <<role, caller, err>>
ProceedFails ==
  /\ CopyMayFail("move")
  /\ SlideFails \/ RelocateFails
  /\ err' = caller
  /\ UNCHANGED <<role, caller>>

\* faulty: a failed tick is taken for the failure of one of its streams
BugAbort ==
  /\ Quiet /\ err = Tick
  /\ \E s \in live : Release(s) /\ role' = [role EXCEPT ![s] = "none"]
  /\ err' = Nobody
  /\ UNCHANGED caller
\* the worker loop: a failed tick aborts every stream, prefill and parked request
Abort ==
  /\ Quiet /\ err = Tick
  /\ IF live = {} THEN UNCHANGED vars ELSE AbortAll
  /\ role' = [s \in Slots |-> "none"]
  /\ err' = Nobody
  /\ UNCHANGED caller

\* faulty: the slot of the failed request is forgotten, not released
BugFailRequest ==
  /\ Quiet /\ err \in Slots
  /\ role' = [role EXCEPT ![err] = "none"]
  /\ err' = Nobody
  /\ UNCHANGED <<vars, caller>>
\* prefill_tick and the parked retry: fail that request only
FailRequest ==
  /\ Quiet /\ err \in Slots
  /\ Release(err)
  /\ role' = [role EXCEPT ![err] = "none"]
  /\ err' = Nobody
  /\ UNCHANGED caller

CallsNext ==
  \/ \E ctx \in 1 .. MaxCtx : AdmitReserve(ctx)
  \/ IntakeCompacts
  \/ \E s \in Slots, ctx \in 1 .. MaxCtx : StreamGrows(s, ctx) \/ AdmissionGrows(s, ctx)
  \/ \E s \in Slots : PrefillLends(s)
  \/ PrefillChunk
  \/ \E who \in Prefills \cup {Tick} : EndLoan(who) \/ EndLoanFails(who)
  \/ \E s \in Slots, p \in 1 .. MaxCtx : Admit(s, p)
  \/ \E s \in Slots, p \in 1 .. MaxCtx, k \in Stores : AdmitFails(s, p, k)
  \/ \E s \in Slots, k \in 1 .. 2 : \E keep \in 1 .. k : StreamDecodes(s, k, keep)
  \/ \E s \in Slots : Leave(s)
  \/ Proceed \/ ProceedFails
  \/ Abort \/ FailRequest

CallsSpec == CallsInit /\ [][CallsNext]_callVars

(***************************************************************************)
(* Properties                                                              *)
(***************************************************************************)
\* No stream decodes on prefill bytes or on rows a failed move has overwritten
\* (kv_arena.rs:1229-1232 says so of end_lend; multistream.rs:1363 says of a
\* failed job that "the live streams keep going"): whenever a decode step may
\* run, every row of every stream is in place.
StreamsDecodeOwnRows ==
  Ready /\ ~ lent =>
    \A s \in Streams, si \in Stores : \A i \in 0 .. (reg[s][si].n - 1) : InPlace(s, si, i)

\* Every live slot belongs to a request that will release it, whatever failed:
\* no path (admission error, abort, cancellation) leaks a reservation.
EverySlotOwned == Ready => live = {s \in Slots : role[s] # "none"}
=============================================================================
