----------------------------- MODULE EmbedPhase -----------------------------
(***************************************************************************)
(* /v1/embeddings between the HTTP handlers and the engine thread          *)
(* (deepstrix-server/embed_phase.rs, engine_worker.rs submit_embed, the    *)
(* loop of multistream.rs worker_loop_ms).  Handlers push requests into a  *)
(* shared queue and wake the engine through the channel that chat requests *)
(* use too; the engine runs embed phases between its ticks.                *)
(*                                                                         *)
(* One step is one access to shared state: the queue's mutex, the wake     *)
(* flag, the channel.  (The mutex orders a push before, or after, the      *)
(* engine's look at the queue, so the flag's weaker ordering shows nothing *)
(* more.)  A request is named by its client.  The forward pass, the loan   *)
(* of dGPU memory (whose failure aborts the process) and the scheduler's   *)
(* tick are single steps; module Scheduler has the tick.                   *)
(***************************************************************************)
EXTENDS Naturals, SequencesExt, FiniteSetsExt, SeqFilter

CONSTANTS
  Clients,
  Inputs,         \* Inputs[c]: the token counts of the inputs of c's requests
  CapTokens,      \* V41_EMBED_QUEUE_TOKENS
  PhaseTokens,    \* V41_EMBED_PHASE_TOKENS
  ChanCap,        \* ENGINE_QUEUE_CAP
  MaxChats,       \* bound on the chat requests in the system
  MaxGroup,       \* bound on the ticks of a layer-major group
  MayLeave,       \* clients that may disconnect
  MayStop,        \* may the server be shut down?
  MayFail         \* may the forward fail?

Tok == [c \in Clients |-> SumFunction(Inputs[c])]

ASSUME EmbedAssumption ==
  /\ \A c \in Clients : Inputs[c] \in Seq(1 .. PhaseTokens) /\ Inputs[c] # <<>>
  /\ IsFiniteSet(Clients)
  /\ ChanCap \in Nat \ {0} /\ {CapTokens, PhaseTokens, MaxChats, MaxGroup} \subseteq Nat
  /\ MayLeave \subseteq Clients /\ {MayStop, MayFail} \subseteq BOOLEAN

VARIABLES
  handler,        \* what the HTTP handler of each client is about to do
  reply,          \* reply in the request's channel: "none", "ok" or "error"
  gone,           \* clients that closed it
  queue,          \* EmbedQueue.reqs
  held,           \* EmbedQueue.tokens
  wake,           \* EmbedQueue.wake_pending
  chan,           \* the engine channel: "chat", "wake", "shutdown"
  active,         \* requests the engine has taken
  next,           \* inputs computed, or in the current phase
  rr,             \* round robin over the active requests
  batch,          \* requests with inputs in the current phase
  rested,         \* has the last phase's share of time passed?
  llm,            \* chat requests the engine is working on
  group,          \* ticks left of a layer-major group
  worker          \* what the engine thread is about to do

http == <<handler, gone>>
shared == <<queue, held, wake, chan>>
phase == <<active, next, rr, batch, rested>>
chat == <<llm, group>>
vars == <<http, reply, shared, phase, chat, worker>>

Init ==
  /\ handler = [c \in Clients |-> "idle"] /\ reply = [c \in Clients |-> "none"] /\ gone = {}
  /\ queue = <<>> /\ held = 0 /\ wake = FALSE /\ chan = <<>>
  /\ active = <<>> /\ next = [c \in Clients |-> 0] /\ rr = 0 /\ batch = {} /\ rested = TRUE
  /\ llm = 0 /\ group = 0
  /\ worker = "top"

(***************************************************************************)
(* HTTP handlers: submit_embed, then wait for the reply                    *)
(***************************************************************************)
At(c, where) == handler[c] = where
Goto(c, where) == handler' = [handler EXCEPT ![c] = where]
Unfinished(c) == Contains(queue, c) \/ Contains(active, c)

Submit(c) ==
  /\ At(c, "idle") /\ ~ Unfinished(c) /\ worker # "gone"
  /\ Goto(c, "push")
  /\ UNCHANGED <<gone, reply, shared, phase, chat, worker>>

\* push: refused (Busy) past the cap, but a request is taken into an empty queue
Push(c) ==
  /\ At(c, "push")
  /\ IF held > 0 /\ held + Tok[c] > CapTokens
     THEN Goto(c, "idle") /\ UNCHANGED <<queue, held>>
     ELSE /\ queue' = Append(queue, c) /\ held' = held + Tok[c]
          /\ Goto(c, "claim")
  /\ UNCHANGED <<gone, reply, wake, chan, phase, chat, worker>>

ClaimWake(c) ==
  /\ At(c, "claim")
  /\ wake' = TRUE
  /\ Goto(c, IF wake THEN "wait" ELSE "send")
  /\ UNCHANGED <<gone, reply, queue, held, chan, phase, chat, worker>>

\* the handler returns without a reply: its channel closes
Leave(c) ==
  /\ Goto(c, "idle") /\ gone' = IF Unfinished(c) THEN gone \cup {c} ELSE gone
  /\ reply' = [reply EXCEPT ![c] = "none"]
  /\ UNCHANGED <<shared, phase, chat, worker>>

\* try_send: a full channel needs no wake, a closed one is an error
SendWake(c) ==
  /\ At(c, "send")
  /\ \/ worker = "gone" /\ Leave(c)
     \/ /\ worker # "gone"
        /\ IF Len(chan) < ChanCap THEN Goto(c, "wait") /\ chan' = Append(chan, "wake")
           ELSE Goto(c, "unclaim") /\ UNCHANGED chan
        /\ UNCHANGED <<gone, reply, queue, held, wake, phase, chat, worker>>

Unclaim(c) ==
  /\ At(c, "unclaim")
  /\ wake' = FALSE
  /\ Goto(c, "wait")
  /\ UNCHANGED <<gone, reply, queue, held, chan, phase, chat, worker>>

\* the reply; or every 5 s: is the engine thread still there?
GetReply(c) ==
  /\ At(c, "wait") /\ reply[c] # "none"
  /\ Goto(c, "idle") /\ reply' = [reply EXCEPT ![c] = "none"]
  /\ UNCHANGED <<gone, shared, phase, chat, worker>>
\* faulty: the handler trusts the engine to answer
BugPollGone(c) == FALSE /\ UNCHANGED vars
PollGone(c) ==
  /\ At(c, "wait") /\ worker = "gone"
  /\ Leave(c)

Disconnect(c) ==
  /\ c \in MayLeave /\ At(c, "wait")
  /\ Leave(c)

Handler(c) ==
  Push(c) \/ ClaimWake(c) \/ SendWake(c) \/ Unclaim(c) \/ GetReply(c) \/ PollGone(c)

\* EngineHandle::submit and shutdown
SubmitChat ==
  /\ worker # "gone" /\ Len(chan) < ChanCap
  /\ llm + Len(SelectSeq(chan, LAMBDA m : m = "chat")) < MaxChats
  /\ chan' = Append(chan, "chat")
  /\ UNCHANGED <<http, reply, queue, held, wake, phase, chat, worker>>
Shutdown ==
  /\ MayStop /\ worker # "gone" /\ Len(chan) < ChanCap /\ ~ Contains(chan, "shutdown")
  /\ chan' = Append(chan, "shutdown")
  /\ UNCHANGED <<http, reply, queue, held, wake, phase, chat, worker>>

(***************************************************************************)
(* settle_requests drops what is answered or abandoned, and gives its      *)
(* tokens back                                                             *)
(***************************************************************************)
Returned(R) == SumFunctionOnSet(Tok, R)
\* faulty: an abandoned request keeps its tokens
BugSettle(all, done) ==
  /\ active' = Without(all, done \cup gone)
  /\ held' = held - Returned(ToSet(all) \cap done)
  /\ gone' = gone \ ToSet(all)
Settle(all, done) ==
  /\ active' = Without(all, done \cup gone)
  /\ held' = held - Returned(ToSet(all) \cap (done \cup gone))
  /\ gone' = gone \ ToSet(all)

(***************************************************************************)
(* The engine thread: worker_loop_ms                                       *)
(***************************************************************************)
HasWork == active # <<>> \/ queue # <<>>

Top ==
  /\ worker = "top"
  /\ worker' = IF llm = 0 /\ ~ HasWork THEN "clear" ELSE "receive"
  /\ UNCHANGED <<http, reply, shared, phase, chat>>

\* about to block: release the wake, ...
ClearWake ==
  /\ worker = "clear"
  /\ wake' = FALSE
  /\ worker' = "recheck"
  /\ UNCHANGED <<http, reply, queue, held, chan, phase, chat>>
\* faulty: block at once
BugRecheck ==
  /\ worker = "recheck"
  /\ worker' = "blocked"
  /\ UNCHANGED <<http, reply, shared, phase, chat>>
\* ... then look again
Recheck ==
  /\ worker = "recheck"
  /\ worker' = IF HasWork THEN "top" ELSE "blocked"
  /\ UNCHANGED <<http, reply, shared, phase, chat>>

\* blocking_recv and try_recv
Receive ==
  /\ worker = "receive" \/ (worker = "blocked" /\ chan # <<>>)
  /\ IF chan = <<>> THEN worker' = "choose" /\ UNCHANGED <<chan, llm>>
     ELSE /\ chan' = Tail(chan)
          /\ worker' = CASE Head(chan) = "chat" -> "choose"
                         [] Head(chan) = "wake" -> "woken"
                         [] Head(chan) = "shutdown" -> "stopping"
          /\ llm' = IF Head(chan) = "chat" THEN llm + 1 ELSE llm
  /\ UNCHANGED <<http, reply, queue, held, wake, phase, group>>

Woken ==
  /\ worker = "woken"
  /\ wake' = FALSE
  /\ worker' = "choose"
  /\ UNCHANGED <<http, reply, queue, held, chan, phase, chat>>

\* fail_all: every queued and active request gets an error ...
FailAll ==
  /\ worker = "stopping"
  /\ reply' = [c \in Clients |-> IF Unfinished(c) /\ c \notin gone THEN "error" ELSE reply[c]]
  /\ queue' = <<>> /\ Settle(queue \o active, Clients)
  /\ worker' = "ending"
  /\ UNCHANGED <<handler, wake, chan, next, rr, batch, rested, chat>>
\* ... and some time later the thread ends and its channel closes
ThreadEnds ==
  /\ worker = "ending"
  /\ worker' = "gone"
  /\ UNCHANGED <<http, reply, shared, phase, chat>>

(***************************************************************************)
(* run_phase                                                               *)
(***************************************************************************)
\* take_batch: one input of each request in turn, in order, while they fit.  An
\* input is <<request, index>>.
Turns(s) ==
  LET n == Len(s)
      start == rr % n
      turn == SubSeq(s, start + 1, n) \o SubSeq(s, 1, start)
  IN FlattenSeq([round \in 1 .. PhaseTokens |->      \* an input has a token or more
       [k \in 1 .. n |-> <<turn[k], next[turn[k]] + round>>]])
Size(taken) == MapThenSumSet(LAMBDA x : Inputs[x[1]][x[2]], taken)
TakeInput(taken, x) ==
  IF /\ x[2] <= Len(Inputs[x[1]])
     /\ x[2] = next[x[1]] + 1 \/ <<x[1], x[2] - 1>> \in taken
     /\ Size(taken \cup {x}) <= PhaseTokens
  THEN taken \cup {x} ELSE taken
TakeBatch(s) == IF s = <<>> THEN {} ELSE FoldLeft(TakeInput, {}, Turns(s))

RrPeriod == <<1, 2, 6, 12>>[Cardinality(Clients)]    \* rr only matters modulo each length

Due == HasWork /\ (llm = 0 \/ (rested /\ group = 0))

\* a request's "next" lives as long as the request
Kept(s) == [c \in Clients |-> IF Contains(s, c) THEN next[c] ELSE 0]

StartPhase ==
  /\ worker = "choose" /\ Due
  /\ queue' = <<>>
  /\ Settle(active \o queue, {})
  /\ \E here \in {Without(active \o queue, gone)} :
     \E taken \in {TakeBatch(here)} :
       /\ next' = [c \in Clients |-> Kept(here)[c] + Cardinality({x \in taken : x[1] = c})]
       /\ batch' = {x[1] : x \in taken}
       /\ rr' = IF here = <<>> THEN rr ELSE (rr + 1) % RrPeriod
       /\ worker' = IF here = <<>> THEN "top" ELSE "phase"
  /\ UNCHANGED <<handler, reply, wake, chan, rested, chat>>

\* the phase ends: the requests in "failed" get an error (all of the batch, or
\* those whose embedding is not finite), the complete ones their embeddings
EndPhase(failed) ==
  LET complete == {c \in batch \ failed : next[c] = Len(Inputs[c])} IN
  /\ worker = "phase"
  /\ failed \subseteq batch /\ (failed # {} => MayFail)
  /\ reply' = [c \in Clients |-> IF c \in failed \ gone THEN "error"
                                 ELSE IF c \in complete \ gone THEN "ok" ELSE reply[c]]
  /\ Settle(active, failed \cup complete)
  /\ next' = Kept(Without(active, failed \cup complete \cup gone))
  /\ batch' = {}
  /\ rested' = FALSE
  /\ worker' = "top"
  /\ UNCHANGED <<handler, queue, wake, chan, rr, chat>>

\* V41_EMBED_MAX_SHARE: time passes since the last phase
Rest ==
  /\ ~ rested
  /\ rested' = TRUE
  /\ UNCHANGED <<http, reply, shared, active, next, rr, batch, chat, worker>>

\* Sched::tick, if there is chat work
Tick ==
  /\ worker = "choose" /\ ~ Due
  /\ IF llm = 0 THEN UNCHANGED chat
     ELSE \E left \in {llm, llm - 1} :
       /\ llm' = left
       /\ IF group > 0 THEN group' = group - 1
          ELSE group' \in (IF left = 0 THEN {0} ELSE 0 .. MaxGroup)
  /\ worker' = "top"
  /\ UNCHANGED <<http, reply, shared, phase>>

Engine ==
  \/ Top \/ ClearWake \/ Recheck \/ Receive \/ Woken \/ FailAll \/ ThreadEnds
  \/ StartPhase \/ (\E failed \in SUBSET Clients : EndPhase(failed))
  \/ Tick

Next ==
  \/ \E c \in Clients : Submit(c) \/ Handler(c) \/ Disconnect(c)
  \/ SubmitChat \/ Shutdown
  \/ Rest
  \/ Engine

\* threads run and time passes; nobody has to send, leave or shut down
Spec ==
  /\ Init /\ [][Next]_vars
  /\ WF_vars(Engine) /\ WF_vars(Rest)
  /\ \A c \in Clients : WF_vars(Handler(c))

(***************************************************************************)
(* Properties                                                              *)
(***************************************************************************)
\* The engine never sleeps on embedding work: when it blocks on an empty channel
\* with a request queued, a handler is on its way to send the wake (claim_wake,
\* clear_wake before blocking and the re-check after it).
NoMissedWake ==
  worker = "blocked" /\ chan = <<>> /\ HasWork =>
    \E c \in Clients : At(c, "send") \/ (At(c, "claim") /\ ~ wake)

\* The cap counts exactly the unfinished requests, however a request leaves:
\* answered, failed, abandoned by its client, or at shutdown (release).
SumUnfinished == SumFunctionOnSet(Tok, {c \in Clients : Unfinished(c)})
CapCountsUnfinished == held = SumUnfinished

\* A handler that waits gets its reply, or learns that the engine is gone:
\* chat traffic, requests larger than a phase's rest, failures and a shutdown that
\* races the push included (run_phase, due, take_batch; embeddings.rs:231-243).
EveryRequestAnswered == \A c \in Clients : At(c, "wait") ~> ~ At(c, "wait")
=============================================================================
