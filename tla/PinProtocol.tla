---------------------------- MODULE PinProtocol ----------------------------
(***************************************************************************)
(* The hub and box 2 agree on which experts stay resident in box 2's pool  *)
(* (remote_experts.rs: PinBook, ShardPool, serve_connection; b2_mirror.rs: *)
(* PinLedger).  The hub routes on its mirror, HELD; box 2 PINS what it     *)
(* reports and evicts everything else at will.  The hub releases pins by   *)
(* words that ride on requests; box 2 counts the words it applied in the   *)
(* epoch of its replies.  Requests queue on the wire, two of one layer are *)
(* merged into one pass, and a pass that waits for its reads is parked     *)
(* while requests behind it are served inside it.                          *)
(*                                                                         *)
(* Box 2's compute thread is the only one that touches the pool: its       *)
(* actions interleave with the hub's, never with each other.  Which        *)
(* background reads have completed is left open (admission words, early    *)
(* paging, the restore of a phase's pages can ask for any expert), and so  *)
(* is the recency order among the victims a search may take.  The nursery, *)
(* partial slots, floors, regions and clocks are left out.                 *)
(***************************************************************************)
EXTENDS Integers, Sequences, FiniteSets

CONSTANTS
  Keys,           \* the experts of all layers, (layer, expert) in the code
  Layers,         \* a layer is the set of its experts
  LayerSize,      \* N_EXPERT
  SmallPicks,     \* most picks of a request of PARK_MAX_ROWS rows or less
  MainSlots,      \* slots of the pool's main band
  StageSlots,     \* slots of the prefill staging band (V41_B2_PREFILL_STAGE)
  Reserve,        \* main slots never pinned (V41_B2_PIN_RESERVE)
  Headroom,       \* pin_headroom
  Band,           \* pin_prefill_band
  MaxWords,       \* release words a request carries (128)
  MaxRestores,    \* restore words a request carries (pin_restore_per_request)
  MaxAdmits,      \* admission words a request carries (bounds the run)
  MaxInFlight,    \* requests in flight (bounds the run)
  MaxReleases     \* release words of a connection (bounds the run)

BugBudget == MainSlots             \* mutant: nothing is held back
Budget == MainSlots - Reserve
LeastOf(x, y) == IF x <= y THEN x ELSE y
Minus(x, y) == IF x <= y THEN 0 ELSE x - y      \* saturating_sub
Elems(s) == {s[i] : i \in DOMAIN s}

ASSUME PoolAssumption ==
  /\ IsFiniteSet(Keys)
  /\ \A L \in Layers : L \subseteq Keys /\ Cardinality(L) <= LayerSize
  /\ \A L, M \in Layers : L # M => L \cap M = {}
  /\ LayerSize \in Nat /\ SmallPicks \in Nat /\ Headroom \in Nat /\ Band \in Nat
  /\ MainSlots \in Nat /\ StageSlots \in Nat /\ Reserve \in 0 .. MainSlots
  /\ MaxWords \in Nat /\ MaxRestores \in Nat /\ MaxAdmits \in Nat
  /\ MaxInFlight \in Nat /\ MaxReleases \in Nat

\* PIN_RESERVE_MIN, which b2_pin_reserve warns below
ASSUME ReserveAssumption == Reserve + StageSlots >= LayerSize + SmallPicks

VARIABLES
  held,       \* the mirror: experts the hub treats as resident at box 2
  relIdx,     \* expert -> index of the last release word queued for it, 0 for none
  relSent,    \* release words queued so far
  queue,      \* release words not yet on the wire
  known,      \* epoch and pinned count of the reply of the newest epoch
  released,   \* released to open the prefill band, to be restored
  restores,   \* restore words waiting for a request
  phase,      \* the scheduler's: "decode" or "prefill"
  reqs,       \* requests not yet served, in arrival order
  replies,    \* replies the hub has not handled
  main,       \* experts resident in the main band
  staged,     \* experts resident in the staging band
  pinned,     \* PIN_HELD
  granted,    \* eligible to be pinned
  epoch,      \* release words applied
  passes,     \* the pass that runs, above the one it is served inside
  revoked     \* a claim took a pinned expert
ledger == <<relIdx, relSent, queue, known>>
hub == <<held, ledger, released, restores, phase>>
pins == <<pinned, granted, epoch>>
pool == <<main, staged, revoked>>
vars == <<hub, reqs, replies, pins, pool, passes>>

NoReply == [epoch |-> 0, pinned |-> -1]
Active == known # NoReply           \* pin_active: box 2 answered a pin request
Resident == main \cup staged
Top == passes[Len(passes)]
InFlight == {reqs[i] : i \in DOMAIN reqs} \cup UNION {Elems(passes[i].reqs) : i \in DOMAIN passes} \cup replies
FreeIds == 1 .. MaxInFlight \ {r.id : r \in InFlight}

Init ==
  /\ held = {} /\ relIdx = [k \in Keys |-> 0] /\ relSent = 0 /\ queue = <<>>
  /\ known = NoReply /\ released = {} /\ restores = {} /\ phase = "decode"
  /\ reqs = <<>> /\ replies = {} /\ passes = <<>>
  /\ main \in SUBSET Keys /\ staged \in SUBSET (Keys \ main)
  /\ Cardinality(main) = MainSlots /\ Cardinality(staged) = StageSlots
  /\ pinned = {} /\ granted = {} /\ epoch = 0 /\ revoked = FALSE

(***************************************************************************)
(* The hub                                                                 *)
(***************************************************************************)
\* est_pinned: box 2's pinned count net of the releases it has not applied
Est == Minus(known.pinned, relSent - known.epoch)

\* mutant: the mirror keeps a released expert until box 2 has answered
BugReleaseWords(s) ==
  /\ relIdx' = [k \in Keys |-> IF \E j \in DOMAIN s : s[j] = k
                               THEN relSent + (CHOOSE j \in DOMAIN s : s[j] = k) ELSE relIdx[k]]
  /\ relSent' = relSent + Len(s)
  /\ queue' = queue \o s
  /\ relSent + Len(s) <= MaxReleases
  /\ UNCHANGED <<held, known>>

\* release_coldest_ex: the words s leave the mirror at once, each gets the next
\* index and is queued
ReleaseWords(s) ==
  /\ held' = held \ Elems(s)
  /\ relIdx' = [k \in Keys |-> IF \E j \in DOMAIN s : s[j] = k
                               THEN relSent + (CHOOSE j \in DOMAIN s : s[j] = k) ELSE relIdx[k]]
  /\ relSent' = relSent + Len(s)
  /\ queue' = queue \o s
  /\ relSent + Len(s) <= MaxReleases
  /\ UNCHANGED known

\* the coldest held experts, in any order, until the estimate is at most target
Coldest(target) ==
  LET n == LeastOf(Minus(Est, target), Cardinality(held)) IN
  {s \in [1 .. n -> held] : \A i, j \in 1 .. n : s[i] = s[j] => i = j}

\* a decode step begins (pin_begin_step, step_ranked_keep)
BeginStep ==
  /\ phase = "decode" /\ Active
  /\ Est > Minus(Budget, Headroom) /\ held # {}
  /\ \E s \in Coldest(Minus(Budget, 2 * Headroom)) : ReleaseWords(s)
  /\ UNCHANGED <<released, restores, phase, reqs, replies, pins, pool, passes>>

\* pin_enter_prefill: open the band; restore words left over wait again
EnterPrefill ==
  /\ phase = "decode" /\ phase' = "prefill"
  /\ IF Active
     THEN /\ \E s \in Coldest(Minus(Budget, Band)) :
               ReleaseWords(s) /\ released' = released \cup restores \cup Elems(s)
          /\ restores' = {}
     ELSE UNCHANGED <<held, ledger, released, restores>>
  /\ UNCHANGED <<reqs, replies, pins, pool, passes>>

\* pin_prefill_tick: reopen it
PrefillTick ==
  /\ phase = "prefill" /\ Active
  /\ Est > Minus(Budget, Band) /\ held # {}
  /\ \E s \in Coldest(Minus(Budget, Band)) : ReleaseWords(s) /\ released' = released \cup Elems(s)
  /\ UNCHANGED <<restores, phase, reqs, replies, pins, pool, passes>>

\* pin_enter_decode: restore those released that were wanted (any of them)
EnterDecode ==
  /\ phase = "prefill" /\ phase' = "decode"
  /\ \E ws \in SUBSET (released \ held) : restores' = restores \cup ws
  /\ released' = {}
  /\ UNCHANGED <<held, ledger, reqs, replies, pins, pool, passes>>

\* submit_inner: the release words first in the queue, restores only when no
\* release word is left, and what the mirror holds of the picks
Submit(L, picks, small, admits) ==
  /\ FreeIds # {}
  /\ picks # {} /\ picks \subseteq L
  /\ IF small THEN Cardinality(picks) <= SmallPicks ELSE phase = "prefill"
  /\ LET n == LeastOf(MaxWords, Len(queue))
         rest == SubSeq(queue, n + 1, Len(queue))
     IN \E ws \in SUBSET restores :
          /\ Cardinality(ws) <= (IF rest = <<>> THEN MaxRestores ELSE 0)
          /\ queue' = rest
          /\ restores' = restores \ ws
          /\ reqs' = Append(reqs, [id |-> CHOOSE i \in FreeIds : TRUE, layer |-> L, picks |-> picks,
                                   small |-> small, rel |-> SubSeq(queue, 1, n), words |-> ws \cup admits,
                                   held |-> picks \cap held, surprise |-> {}, base |-> relSent - Len(queue)])
  /\ UNCHANGED <<held, relIdx, relSent, known, released, phase, replies, pins, pool, passes>>

\* mutant: the map of an old reply is taken as it is
BugHandleReply(p) ==
  /\ p \in replies /\ replies' = replies \ {p}
  /\ known' = IF Active /\ known.epoch > p.epoch THEN known
              ELSE [epoch |-> p.epoch, pinned |-> p.pinned]
  /\ held' = (held \ p.layer) \cup p.map
  /\ UNCHANGED <<relIdx, relSent, queue, released, restores, phase, reqs, pins, pool, passes>>

\* wait: note_reply, then apply_map without what was released after the epoch
HandleReply(p) ==
  /\ p \in replies /\ replies' = replies \ {p}
  /\ known' = IF Active /\ known.epoch > p.epoch THEN known
              ELSE [epoch |-> p.epoch, pinned |-> p.pinned]
  /\ held' = (held \ p.layer) \cup {k \in p.map : relIdx[k] <= p.epoch}
  /\ UNCHANGED <<relIdx, relSent, queue, released, restores, phase, reqs, pins, pool, passes>>

(***************************************************************************)
(* Box 2                                                                   *)
(***************************************************************************)
\* pin_apply_words: releases in order, then grants; the words of a
\* prefill-shaped request grant nothing
Unpinned(r, P) == P \ Elems(r.rel)
Granted(r, P, G) == (G \ Elems(r.rel)) \cup (IF r.small THEN r.words \ Unpinned(r, P) ELSE {})

\* the pass of the requests rs: what it must page is judged before anything lands
Pass(rs, large) ==
  LET picks == UNION {r.picks : r \in Elems(rs)} IN
  [reqs |-> rs, layer |-> rs[1].layer, large |-> large, picks |-> picks,
   paged |-> picks \ Resident, at |-> "land"]

\* take the first request, alone or inside a parked pass
TakeOne ==
  /\ reqs # <<>>
  /\ passes = <<>> \/ (Len(passes) = 1 /\ Top.at = "parked" /\ Head(reqs).small)
  /\ LET r == Head(reqs) IN
       /\ pinned' = Unpinned(r, pinned)
       /\ granted' = Granted(r, pinned, granted)
       /\ epoch' = epoch + Len(r.rel)
       /\ passes' = Append(passes, Pass(<<r>>, ~ r.small))
  /\ reqs' = Tail(reqs)
  /\ UNCHANGED <<hub, replies, pool>>

\* ... or merged with the next one, of the same layer: its words before its
\* partner's
TakeTwo ==
  /\ passes = <<>> /\ Len(reqs) >= 2 /\ reqs[1].layer = reqs[2].layer
  /\ LET r == reqs[1]
         q == reqs[2]
     IN /\ pinned' = Unpinned(q, Unpinned(r, pinned))
        /\ granted' = Granted(q, Unpinned(r, pinned), Granted(r, pinned, granted))
        /\ epoch' = epoch + Len(r.rel) + Len(q.rel)
        /\ \E large \in {TRUE, ~ (r.small /\ q.small)} : passes' = <<Pass(<<r, q>>, large)>>
  /\ reqs' = Tail(Tail(reqs))
  /\ UNCHANGED <<hub, replies, pool>>

\* note_early_paged: a queued request's frame is seen while a pass runs, with
\* picks that have not landed; those the hub held are a surprise
NoteEarly(i) ==
  /\ passes # <<>> /\ i \in DOMAIN reqs
  /\ ~ reqs[i].picks \subseteq Resident
  /\ reqs' = [reqs EXCEPT ![i].surprise = @ \cup (reqs[i].held \ Resident)]
  /\ UNCHANGED <<hub, replies, pins, pool, passes>>

SetTop(at) == passes' = [passes EXCEPT ![Len(passes)].at = at]

\* run_path parks a pass of one request while its misses are read
Park ==
  /\ Len(passes) = 1 /\ Top.at = "land" /\ Len(Top.reqs) = 1
  /\ ~ Top.picks \subseteq Resident
  /\ SetTop("parked")
  /\ UNCHANGED <<hub, reqs, replies, pins, pool>>

Unpark ==
  /\ passes # <<>> /\ Top.at = "parked"
  /\ SetTop("claim")
  /\ UNCHANGED <<hub, reqs, replies, pins, pool>>

\* what no victim search may take: the picks of the pass (those of a parked
\* one are its parked_pins) and of the pass it is served inside
Kept == UNION {passes[i].picks : i \in DOMAIN passes}
\* pick_victim: a free slot (never used since) before an occupant that is
\* neither kept nor pinned
Takable(band) == band \ (Kept \cup pinned)
MainFree == Cardinality(main) < MainSlots
StageFree == Cardinality(staged) < StageSlots

\* evict v, if any, and place k
PlaceInMain(k) ==
  /\ \/ MainFree /\ main' = main \cup {k} /\ UNCHANGED granted
     \/ ~ MainFree /\ \E v \in Takable(main) : main' = (main \ {v}) \cup {k} /\ granted' = granted \ {v}
  /\ UNCHANGED <<staged, pinned, epoch, revoked>>
PlaceInStage(k) ==
  /\ \/ StageFree /\ staged' = staged \cup {k} /\ UNCHANGED granted
     \/ ~ StageFree /\ \E v \in Takable(staged) : staged' = (staged \ {v}) \cup {k} /\ granted' = granted \ {v}
  /\ UNCHANGED <<main, pinned, epoch, revoked>>

\* admit_prefetched / admit_landed: a background read lands, or is dropped
\* when its band has no victim
Land(k) ==
  /\ passes # <<>> /\ Top.at \in {"land", "parked"}
  /\ k \notin Resident
  /\ PlaceInMain(k) \/ PlaceInStage(k)
  /\ UNCHANGED <<hub, reqs, replies, passes>>

\* claim_miss: in the pass's own band, else in the other
ClaimInMain(k) ==
  /\ PlaceInMain(k)
  /\ Top.large => ~ StageFree /\ Takable(staged) = {}
ClaimInStage(k) ==
  /\ PlaceInStage(k)
  /\ Top.large \/ (~ MainFree /\ Takable(main) = {})
\* ... else from a pin, which is revoked
ClaimPinned(k) ==
  /\ ~ MainFree /\ ~ StageFree /\ Takable(main) = {} /\ Takable(staged) = {}
  /\ \E v \in main \ Kept :
       main' = (main \ {v}) \cup {k} /\ pinned' = pinned \ {v} /\ granted' = granted \ {v}
  /\ revoked' = TRUE
  /\ UNCHANGED <<staged, epoch>>
Claim(k) ==
  /\ passes # <<>> /\ Top.at \in {"land", "claim"}
  /\ k \in Top.picks \ Resident
  /\ ClaimInMain(k) \/ ClaimInStage(k) \/ ClaimPinned(k)
  /\ SetTop("claim")
  /\ UNCHANGED <<hub, reqs, replies>>

\* the pass ends: a small request's picks are granted, the report pins what is
\* granted and landed in main while the budget lasts, drops the other grants of
\* those, lets some of the rest expire, and the map is what is pinned
Eligible == granted \cup (UNION {r.picks : r \in {q \in Elems(Top.reqs) : q.small}} \ pinned)
Reply ==
  /\ passes # <<>> /\ Top.at # "parked" /\ Top.picks \subseteq Resident
  /\ LET cand == Eligible \cap Top.layer \cap main
         room == Budget - Cardinality(pinned)
     IN \E new \in SUBSET cand, old \in SUBSET ((Eligible \cap Top.layer) \ main) :
          /\ Cardinality(new) = LeastOf(room, Cardinality(cand))
          /\ pinned' = pinned \cup new
          /\ granted' = Eligible \ (cand \cup old)
          /\ replies' = replies \cup
               {[id |-> r.id, layer |-> Top.layer, map |-> pinned' \cap Top.layer, epoch |-> epoch,
                 pinned |-> Cardinality(pinned'), surprise |-> r.surprise \cup (r.held \cap Top.paged)] :
                r \in Elems(Top.reqs)}
  /\ passes' = SubSeq(passes, 1, Len(passes) - 1)
  /\ UNCHANGED <<hub, reqs, epoch, pool>>

\* the connection breaks and is made again: what is on the wire is lost, a
\* claim that has not landed is undone, box 2 forgets its pins (pin_reset), the
\* hub its mirror and ledger (on_connect); the pool keeps what has landed
Reconnect ==
  /\ held' = {} /\ relIdx' = [k \in Keys |-> 0] /\ relSent' = 0 /\ queue' = <<>>
  /\ known' = NoReply /\ released' = {} /\ restores' = {}
  /\ reqs' = <<>> /\ replies' = {} /\ passes' = <<>>
  /\ pinned' = {} /\ granted' = {} /\ epoch' = 0
  /\ \E lost \in SUBSET (IF passes # <<>> /\ Top.at = "claim" THEN Top.paged ELSE {}) :
       main' = main \ lost /\ staged' = staged \ lost
  /\ UNCHANGED <<phase, revoked>>

Next ==
  \/ BeginStep \/ EnterPrefill \/ PrefillTick \/ EnterDecode
  \/ \E L \in Layers : \E picks \in SUBSET L, small \in BOOLEAN, admits \in SUBSET Keys :
       Cardinality(admits) <= MaxAdmits /\ Submit(L, picks, small, admits)
  \/ \E p \in replies : HandleReply(p)
  \/ TakeOne \/ TakeTwo \/ Park \/ Unpark
  \/ \E i \in 1 .. MaxInFlight : NoteEarly(i)
  \/ \E k \in Keys : Land(k) \/ Claim(k)
  \/ Reply \/ Reconnect

Spec == Init /\ [][Next]_vars

(***************************************************************************)
(* Properties                                                              *)
(***************************************************************************)
\* Every expert the hub treats as held is pinned at box 2, and what is pinned
\* has landed in the main band: no old map, merged request, eviction or
\* reconnection makes the hub route on an expert box 2 may drop (the pinning
\* block's hub_held <= pinned <= resident; apply_map, evict, report).
HeldIsPinned == held \subseteq pinned /\ pinned \subseteq main

\* No pass pages an expert the hub held when it sent the request, whatever was
\* released, merged, parked or served inside in between (check_surprises).
NoSurprise == \A p \in replies : p.surprise = {}

\* A reserve at its documented minimum always leaves a claim an unpinned victim,
\* a request served inside a parked one included: no pin is ever revoked
\* (PIN_RESERVE_MIN, claim_miss).
NoRevoke == ~ revoked
=============================================================================
