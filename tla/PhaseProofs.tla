----------------------------- MODULE PhaseProofs -----------------------------
(***************************************************************************)
(* Proofs about two phases of the scheduler's loop, for every value of     *)
(* their constants: the embed phase, in which the engine never sleeps on   *)
(* queued work and the queue's cap counts exactly the unfinished requests, *)
(* and the drafting, where a draft reads its own stream's newest rows.     *)
(***************************************************************************)
EXTENDS EmbedPhase, DraftRing, ProofFacts

Places == {"idle", "push", "claim", "send", "unclaim", "wait"}
Stages == {"top", "clear", "recheck", "blocked", "receive", "woken", "choose", "phase",
           "stopping", "ending", "gone"}

TypeOK ==
  /\ handler \in [Clients -> Places]
  /\ queue \in Seq(Clients) /\ active \in Seq(Clients)
  /\ wake \in BOOLEAN
  /\ chan \in Seq({"chat", "wake", "shutdown"})
  /\ worker \in Stages

(***************************************************************************)
(* The wake                                                                *)
(***************************************************************************)
\* The engine sleeps, or is about to, without active requests; ...
SleepsIdle == worker \in {"clear", "recheck", "blocked"} => active = <<>>
\* ... a wake that is pending then is on its way, or in the channel; ...
WakeUnderWay ==
  worker \in {"recheck", "blocked"} /\ wake =>
    chan # <<>> \/ \E c \in Clients : At(c, "send")
\* ... and whoever queued a request will still send one.
WakeInv == TypeOK /\ SleepsIdle /\ WakeUnderWay /\ NoMissedWake

(***************************************************************************)
(* The cap                                                                 *)
(***************************************************************************)
UnfinishedSet == ToSet(queue) \cup ToSet(active)
\* A client has one request in the system, in one place.
OnePlace ==
  /\ IsInjective(queue) /\ IsInjective(active)
  /\ ToSet(queue) \cap ToSet(active) = {}
  /\ \A c \in Clients : At(c, "push") => ~ Unfinished(c)
CapInv == TypeOK /\ OnePlace /\ CapCountsUnfinished

(***************************************************************************)
(* Types                                                                   *)
(***************************************************************************)
\* What settle_requests leaves active are requests.
LEMMA SettleKeeps ==
  ASSUME NEW all \in Seq(Clients), NEW done, Settle(all, done)
  PROVE  /\ active' \in Seq(Clients)
         /\ ToSet(active') = ToSet(all) \ (done \cup gone)
         /\ IsInjective(all) => IsInjective(active')
BY WithoutKeeps DEF Settle

LEMMA TypeNext ==
  ASSUME TypeOK, [Next]_vars
  PROVE  TypeOK'
<1> USE DEF TypeOK, Places, Stages
<1>1. CASE UNCHANGED vars
  BY <1>1 DEF vars, http, shared, phase, chat
<1>2. ASSUME NEW c \in Clients, Submit(c) \/ Handler(c) \/ Disconnect(c)
      PROVE  TypeOK'
  <2> USE DEF Goto, At, http, shared, phase, chat, Leave
  <2>1. CASE Submit(c)
    BY <2>1 DEF Submit
  <2>2. CASE Push(c)
    <3>1. UNCHANGED <<active, wake, chan, worker>> /\ queue' \in {queue, Append(queue, c)}
      BY <2>2 DEF Push
    <3>2. handler' \in {[handler EXCEPT ![c] = "idle"], [handler EXCEPT ![c] = "claim"]}
      BY <2>2 DEF Push
    <3>3. handler' \in [Clients -> Places]
      BY <3>2
    <3>4. queue' \in Seq(Clients)
      <4>1. queue \in Seq(Clients)
        OBVIOUS
      <4>2. Append(queue, c) \in Seq(Clients)
        BY ONLY <4>1, c \in Clients
      <4> QED BY <3>1, <4>1, <4>2
    <3> QED BY <2>2, <3>1, <3>3, <3>4
  <2>3. CASE ClaimWake(c)
    BY <2>3 DEF ClaimWake
  <2>4. CASE SendWake(c)
    <3>1. UNCHANGED <<active, wake, queue, worker>> /\ chan' \in {chan, Append(chan, "wake")}
      BY <2>4 DEF SendWake
    <3>2. handler' \in [Clients -> Places]
      BY <2>4 DEF SendWake
    <3>3. Append(chan, "wake") \in Seq({"chat", "wake", "shutdown"})
      OBVIOUS
    <3> QED BY <3>1, <3>2, <3>3
  <2>5. CASE Unclaim(c)
    BY <2>5 DEF Unclaim
  <2>6. CASE GetReply(c)
    BY <2>6 DEF GetReply
  <2>7. CASE PollGone(c)
    BY <2>7 DEF PollGone
  <2>8. CASE Disconnect(c)
    BY <2>8 DEF Disconnect
  <2> QED BY <1>2, <2>1, <2>2, <2>3, <2>4, <2>5, <2>6, <2>7, <2>8 DEF Handler
<1>3. CASE SubmitChat
  BY <1>3 DEF SubmitChat, http, phase, chat
<1>4. CASE Shutdown
  BY <1>4 DEF Shutdown, http, phase, chat
<1>5. CASE Rest
  BY <1>5 DEF Rest, http, shared, chat
<1>6. CASE Engine
  <2> USE DEF http, shared, phase, chat
  <2>1. CASE Top
    BY <2>1 DEF Top
  <2>2. CASE ClearWake
    BY <2>2 DEF ClearWake
  <2>3. CASE Recheck
    BY <2>3 DEF Recheck
  <2>4. CASE Receive
    <3>1. CASE chan = <<>>
      BY <2>4, <3>1 DEF Receive
    <3>2. CASE chan # <<>>
      <4>1. Head(chan) \in {"chat", "wake", "shutdown"} /\ Tail(chan) \in Seq({"chat", "wake", "shutdown"})
        BY <3>2
      <4>2. worker' \in {"choose", "woken", "stopping"} /\ chan' = Tail(chan)
        BY <2>4, <3>2, <4>1 DEF Receive
      <4> QED BY <2>4, <4>1, <4>2 DEF Receive
    <3> QED BY <3>1, <3>2
  <2>5. CASE Woken
    BY <2>5 DEF Woken
  <2>6. CASE FailAll
    <3>1. queue \o active \in Seq(Clients)
      OBVIOUS
    <3>2. active' \in Seq(Clients)
      BY <2>6, <3>1, SettleKeeps DEF FailAll
    <3> QED BY <2>6, <3>2 DEF FailAll
  <2>7. CASE ThreadEnds
    BY <2>7 DEF ThreadEnds
  <2>8. CASE StartPhase
    <3>1. active \o queue \in Seq(Clients)
      OBVIOUS
    <3>2. active' \in Seq(Clients)
      BY <2>8, <3>1, SettleKeeps DEF StartPhase
    <3> QED BY <2>8, <3>2 DEF StartPhase
  <2>9. ASSUME NEW failed \in SUBSET Clients, EndPhase(failed)
        PROVE  TypeOK'
    <3>1. \E done : Settle(active, done)
      BY <2>9 DEF EndPhase
    <3>2. active' \in Seq(Clients)
      BY <3>1, SettleKeeps
    <3> QED BY <2>9, <3>2 DEF EndPhase
  <2>10. CASE Tick
    BY <2>10 DEF Tick
  <2> QED BY <1>6, <2>1, <2>2, <2>3, <2>4, <2>5, <2>6, <2>7, <2>8, <2>9, <2>10 DEF Engine
<1> QED BY <1>1, <1>2, <1>3, <1>4, <1>5, <1>6 DEF Next

(***************************************************************************)
(* The engine never sleeps on queued work                                  *)
(***************************************************************************)
LEMMA WakeNext ==
  ASSUME WakeInv, [Next]_vars
  PROVE  WakeInv'
<1>0. TypeOK /\ TypeOK'
  BY TypeNext DEF WakeInv
<1> USE EmbedAssumption DEF WakeInv, TypeOK, SleepsIdle, WakeUnderWay, NoMissedWake, HasWork
<1>1. CASE UNCHANGED vars
  BY <1>0, <1>1 DEF vars, http, shared, phase, chat, At
<1>2. ASSUME NEW c \in Clients, Submit(c) \/ Handler(c) \/ Disconnect(c)
      PROVE  WakeInv'
  <2> USE DEF Goto, At, http, shared, phase, chat, Leave
  <2>1. CASE Submit(c)
    BY <1>0, <2>1 DEF Submit
  <2>2. CASE Push(c)
    BY <1>0, <2>2 DEF Push
  <2>3. CASE ClaimWake(c)
    BY <1>0, <2>3 DEF ClaimWake
  <2>4. CASE SendWake(c)
    BY <1>0, <2>4 DEF SendWake
  <2>5. CASE Unclaim(c)
    BY <1>0, <2>5 DEF Unclaim
  <2>6. CASE GetReply(c)
    BY <1>0, <2>6 DEF GetReply
  <2>7. CASE PollGone(c)
    BY <1>0, <2>7 DEF PollGone
  <2>8. CASE Disconnect(c)
    BY <1>0, <2>8 DEF Disconnect
  <2> QED BY <1>2, <2>1, <2>2, <2>3, <2>4, <2>5, <2>6, <2>7, <2>8 DEF Handler
<1>3. CASE SubmitChat
  <2>1. chan' = Append(chan, "chat") /\ active' = active /\ worker' = worker
    BY <1>3 DEF SubmitChat, phase
  <2>2. chan' # <<>>
    BY <1>0, <2>1, AppendNotEmpty
  <2> QED BY <1>0, <2>1, <2>2
<1>4. CASE Shutdown
  <2>1. chan' = Append(chan, "shutdown") /\ active' = active /\ worker' = worker
    BY <1>4 DEF Shutdown, phase
  <2>2. chan' # <<>>
    BY <1>0, <2>1, AppendNotEmpty
  <2> QED BY <1>0, <2>1, <2>2
<1>5. CASE Rest
  BY <1>0, <1>5 DEF Rest, http, shared, chat, At
<1>6. CASE Engine
  <2> USE DEF http, shared, phase, chat, At
  <2>1. CASE Top
    BY <1>0, <2>1 DEF Top
  <2>2. CASE ClearWake
    BY <1>0, <2>2 DEF ClearWake
  <2>3. CASE Recheck
    BY <1>0, <2>3 DEF Recheck
  <2>4. CASE Receive
    <3>1. worker' \in {"choose", "woken", "stopping"}
      BY <1>0, <2>4 DEF Receive
    <3> QED BY <1>0, <3>1
  <2>5. CASE Woken
    BY <1>0, <2>5 DEF Woken
  <2>6. CASE FailAll
    BY <1>0, <2>6 DEF FailAll
  <2>7. CASE ThreadEnds
    BY <1>0, <2>7 DEF ThreadEnds
  <2>8. CASE StartPhase
    BY <1>0, <2>8 DEF StartPhase
  <2>9. ASSUME NEW failed \in SUBSET Clients, EndPhase(failed)
        PROVE  WakeInv'
    BY <1>0, <2>9 DEF EndPhase
  <2>10. CASE Tick
    BY <1>0, <2>10 DEF Tick
  <2> QED BY <1>6, <2>1, <2>2, <2>3, <2>4, <2>5, <2>6, <2>7, <2>8, <2>9, <2>10 DEF Engine
<1> QED BY <1>1, <1>2, <1>3, <1>4, <1>5, <1>6 DEF Next

\* The engine never blocks on an empty channel with a request queued unless a
\* handler is on its way to wake it (claim_wake, clear_wake and the re-check).
THEOREM NeverSleepsOnWork == Spec => []NoMissedWake
<1>1. Init => WakeInv
  <2>1. Init => TypeOK
    <3>1. \A S : <<>> \in Seq(S)
      OBVIOUS
    <3> QED BY <3>1 DEF Init, TypeOK, Places, Stages
  <2>2. Init => worker = "top"
    BY DEF Init
  <2> QED BY <2>1, <2>2 DEF WakeInv, SleepsIdle, WakeUnderWay, NoMissedWake
<1>2. WakeInv /\ [Next]_vars => WakeInv'
  BY WakeNext
<1>3. WakeInv => NoMissedWake
  BY DEF WakeInv
<1> QED BY <1>1, <1>2, <1>3, PTL DEF Spec

(***************************************************************************)
(* The cap counts the unfinished requests                                  *)
(***************************************************************************)
LEMMA TokNat == \A c \in Clients : Tok[c] \in Nat
<1> SUFFICES ASSUME NEW c \in Clients PROVE SumFunction(Inputs[c]) \in Nat
  BY DEF Tok
<1> DEFINE w == Inputs[c]
<1>1. w \in Seq(1 .. PhaseTokens)
  BY EmbedAssumption
<1>2. DOMAIN w = 1 .. Len(w) /\ Len(w) \in Int /\ 1 \in Int /\ \A i \in DOMAIN w : w[i] \in Nat
  <2>1. PhaseTokens \in Nat
    BY EmbedAssumption
  <2> HIDE DEF w
  <2> QED BY <1>1, <2>1
<1> HIDE DEF w
<1>3. IsFiniteSet(DOMAIN w)
  BY <1>2, FS_Interval
<1> QED BY <1>2, <1>3, SumNat DEF SumFunction, w

LEMMA ContainedIsElement ==
  ASSUME NEW q \in Seq(Clients)
  PROVE  ToSet(q) \subseteq Clients /\ \A c : Contains(q, c) <=> c \in ToSet(q)
<1>1. ToSet(q) \subseteq Clients
  BY ToSetFinite
<1> QED BY <1>1 DEF Contains, ToSet

LEMMA UnfinishedIsInQueues ==
  ASSUME TypeOK
  PROVE  /\ \A c \in Clients : Unfinished(c) <=> c \in UnfinishedSet
         /\ SumUnfinished = SumFunctionOnSet(Tok, UnfinishedSet)
         /\ UnfinishedSet \subseteq Clients
<1>1. {c \in Clients : Unfinished(c)} = UnfinishedSet /\ UnfinishedSet \subseteq Clients
  BY ContainedIsElement DEF TypeOK, Unfinished, UnfinishedSet
<1> QED BY <1>1 DEF SumUnfinished

\* The same after a step.
LEMMA UnfinishedIsInQueuesNext ==
  ASSUME TypeOK'
  PROVE  /\ \A c \in Clients : Unfinished(c)' <=> c \in UnfinishedSet'
         /\ SumUnfinished' = SumFunctionOnSet(Tok, UnfinishedSet')
<1>1. {c \in Clients : Unfinished(c)'} = UnfinishedSet' /\ UnfinishedSet' \subseteq Clients
  BY ContainedIsElement DEF TypeOK, Unfinished, UnfinishedSet
<1> QED BY <1>1 DEF SumUnfinished

\* The sum of the tokens of some clients is a natural, and adds up.
LEMMA TokSums ==
  ASSUME NEW A \in SUBSET Clients, NEW B \in SUBSET Clients, A \cap B = {}
  PROVE  /\ SumFunctionOnSet(Tok, A) \in Nat
         /\ SumFunctionOnSet(Tok, A \cup B)
              = SumFunctionOnSet(Tok, A) + SumFunctionOnSet(Tok, B)
<1>1. IsFiniteSet(A) /\ IsFiniteSet(B)
  BY EmbedAssumption, FS_Subset
<1>2. (\A c \in A : Tok[c] \in Nat) /\ (\A c \in A \cup B : Tok[c] \in Nat)
  BY TokNat
<1> QED BY <1>1, <1>2, SumNat, SumUnion

\* A settlement of all the active requests, or of all of them with the queued ones,
\* gives back the tokens of those that leave.
LEMMA SettleCap ==
  ASSUME CapInv, TypeOK', NEW all \in Seq(Clients), NEW done, Settle(all, done),
         IsInjective(all), IsInjective(queue'), handler' = handler,
         ToSet(all) \cap ToSet(queue') = {}, ToSet(all) \cup ToSet(queue') = UnfinishedSet
  PROVE  CapInv'
<1> DEFINE U == ToSet(all) \ (done \cup gone)
           L == ToSet(all) \cap (done \cup gone)
           Q == ToSet(queue')
<1>0. UnfinishedSet \subseteq Clients /\ CapCountsUnfinished /\ TypeOK
  BY UnfinishedIsInQueues DEF CapInv
<1>1. ToSet(active') = U /\ IsInjective(active')
  BY SettleKeeps
<1>2. UnfinishedSet' = U \cup Q
  BY <1>1 DEF UnfinishedSet
<1>3. UnfinishedSet = L \cup (U \cup Q) /\ L \cap (U \cup Q) = {}
         /\ L \in SUBSET Clients /\ U \cup Q \in SUBSET Clients
  BY <1>0
<1>4. OnePlace'
  <2>1. ToSet(active') \cap ToSet(queue') = {}
    BY <1>1
  <2>2. \A c \in Clients : Unfinished(c)' => Unfinished(c)
    BY <1>0, <1>2, <1>3, UnfinishedIsInQueues, UnfinishedIsInQueuesNext
  <2> QED BY <1>1, <2>1, <2>2 DEF CapInv, OnePlace, At
<1>5. held = SumFunctionOnSet(Tok, UnfinishedSet)
  BY <1>0, UnfinishedIsInQueues DEF CapCountsUnfinished
<1>6. held' = held - SumFunctionOnSet(Tok, L)
  BY DEF Settle, Returned
<1> DEFINE l == SumFunctionOnSet(Tok, L)
           r == SumFunctionOnSet(Tok, U \cup Q)
<1>7. l \in Nat /\ r \in Nat /\ held = l + r
  <2> HIDE DEF L, U, Q
  <2> QED BY <1>3, <1>5, TokSums
<1>8. held' = r
  <2> HIDE DEF l, r
  <2> QED BY <1>6, <1>7 DEF l
<1>9. SumUnfinished' = SumFunctionOnSet(Tok, UnfinishedSet')
  BY UnfinishedIsInQueuesNext
<1> QED BY <1>2, <1>4, <1>8, <1>9 DEF CapInv, CapCountsUnfinished

\* A step that moves no request, and lets no client with a request push.
LEMMA CapFrame ==
  ASSUME CapInv, TypeOK', UNCHANGED <<queue, active, held>>,
         \A c \in Clients : At(c, "push")' => At(c, "push") \/ ~ Unfinished(c)
  PROVE  CapInv'
BY DEF CapInv, OnePlace, CapCountsUnfinished, SumUnfinished, Unfinished

LEMMA CapNext ==
  ASSUME CapInv, [Next]_vars
  PROVE  CapInv'
<1>0. TypeOK /\ TypeOK' /\ OnePlace
  BY TypeNext DEF CapInv
<1>1. CASE UNCHANGED vars
  BY <1>0, <1>1, CapFrame DEF vars, http, shared, phase, At
<1>2. ASSUME NEW c \in Clients, Submit(c) \/ Handler(c) \/ Disconnect(c)
      PROVE  CapInv'
  <2>1. CASE Submit(c)
    BY <1>0, <2>1, CapFrame DEF Submit, Goto, At, TypeOK, shared, phase
  <2>2. CASE Push(c)
    <3>1. CASE held > 0 /\ held + Tok[c] > CapTokens
      BY <1>0, <2>2, <3>1, CapFrame DEF Push, Goto, At, TypeOK, phase
    <3>2. CASE ~ (held > 0 /\ held + Tok[c] > CapTokens)
      <4>1. /\ queue' = Append(queue, c) /\ held' = held + Tok[c] /\ active' = active
            /\ \A x \in Clients : At(x, "push")' => At(x, "push") /\ x # c
        BY <1>0, <2>2, <3>2 DEF Push, Goto, At, TypeOK, phase
      <4>2. ToSet(queue') = ToSet(queue) \cup {c}
        BY <1>0, <4>1, ToSetAppend DEF TypeOK
      <4>3. c \notin UnfinishedSet
        BY <1>0, <2>2, UnfinishedIsInQueues DEF Push, OnePlace
      <4>4. UnfinishedSet' = UnfinishedSet \cup {c}
        BY <4>1, <4>2 DEF UnfinishedSet
      <4>5. IsInjective(queue')
        BY <1>0, <4>1, <4>3, InjectiveAppend DEF OnePlace, TypeOK, UnfinishedSet
      <4>6. OnePlace'
        <5>1. \A x \in Clients : At(x, "push")' => ~ Unfinished(x)'
          BY <1>0, <4>1, <4>4, UnfinishedIsInQueues, UnfinishedIsInQueuesNext DEF OnePlace
        <5>2. ToSet(queue') \cap ToSet(active') = {}
          BY <1>0, <4>1, <4>2, <4>3 DEF OnePlace, UnfinishedSet
        <5> QED BY <1>0, <4>1, <4>5, <5>1, <5>2 DEF OnePlace
      <4>7. SumFunctionOnSet(Tok, UnfinishedSet \cup {c})
              = Tok[c] + SumFunctionOnSet(Tok, UnfinishedSet)
        <5>1. UnfinishedSet \subseteq Clients
          BY <1>0, UnfinishedIsInQueues
        <5>2. IsFiniteSet(UnfinishedSet)
          BY <5>1, EmbedAssumption, FS_Subset
        <5>3. Tok[c] \in Nat /\ \A x \in UnfinishedSet : Tok[x] \in Nat
          BY <5>1, TokNat
        <5> QED BY <4>3, <5>2, <5>3, SumAdd
      <4>8. held = SumFunctionOnSet(Tok, UnfinishedSet)
              /\ SumUnfinished' = SumFunctionOnSet(Tok, UnfinishedSet \cup {c})
        BY <1>0, <4>4, UnfinishedIsInQueues, UnfinishedIsInQueuesNext
           DEF CapInv, CapCountsUnfinished
      <4>9. SumFunctionOnSet(Tok, UnfinishedSet) \in Nat /\ Tok[c] \in Nat
        <5>1. UnfinishedSet \subseteq Clients /\ {} \subseteq Clients
          BY <1>0, UnfinishedIsInQueues
        <5>2. UnfinishedSet \cap {} = {}
          OBVIOUS
        <5>3. SumFunctionOnSet(Tok, UnfinishedSet) \in Nat
          <6> HIDE DEF UnfinishedSet
          <6> QED BY <5>1, <5>2, TokSums
        <5> QED BY <5>3, TokNat
      <4>10. held' = SumUnfinished'
        BY <4>1, <4>7, <4>8, <4>9
      <4> QED BY <1>0, <4>6, <4>10 DEF CapInv, CapCountsUnfinished
    <3> QED BY <3>1, <3>2
  <2>3. CASE ClaimWake(c)
    BY <1>0, <2>3, CapFrame DEF ClaimWake, Goto, At, TypeOK, phase
  <2>4. CASE SendWake(c)
    BY <1>0, <2>4, CapFrame DEF SendWake, Leave, Goto, At, TypeOK, shared, phase
  <2>5. CASE Unclaim(c)
    BY <1>0, <2>5, CapFrame DEF Unclaim, Goto, At, TypeOK, phase
  <2>6. CASE GetReply(c)
    BY <1>0, <2>6, CapFrame DEF GetReply, Goto, At, TypeOK, shared, phase
  <2>7. CASE PollGone(c)
    BY <1>0, <2>7, CapFrame DEF PollGone, Leave, Goto, At, TypeOK, shared, phase
  <2>8. CASE Disconnect(c)
    BY <1>0, <2>8, CapFrame DEF Disconnect, Leave, Goto, At, TypeOK, shared, phase
  <2> QED BY <1>2, <2>1, <2>2, <2>3, <2>4, <2>5, <2>6, <2>7, <2>8 DEF Handler
<1>3. CASE SubmitChat
  BY <1>0, <1>3, CapFrame DEF SubmitChat, http, phase, At
<1>4. CASE Shutdown
  BY <1>0, <1>4, CapFrame DEF Shutdown, http, phase, At
<1>5. CASE Rest
  BY <1>0, <1>5, CapFrame DEF Rest, http, shared, At
<1>6. CASE Engine
  <2>1. CASE Top \/ ClearWake \/ Recheck \/ Receive \/ Woken \/ ThreadEnds \/ Tick
    <3>1. UNCHANGED <<queue, active, held, handler>>
      BY <2>1 DEF Top, ClearWake, Recheck, Receive, Woken, ThreadEnds, Tick,
                  http, shared, phase
    <3> QED BY <1>0, <3>1, CapFrame DEF At
  <2>2. CASE FailAll
    <3>1. /\ queue \o active \in Seq(Clients) /\ IsInjective(queue \o active)
          /\ ToSet(queue \o active) = UnfinishedSet
      BY <1>0, ToSetConcat, InjectiveConcat DEF TypeOK, OnePlace, UnfinishedSet
    <3>2. queue' = <<>> /\ handler' = handler /\ Settle(queue \o active, Clients)
      BY <2>2 DEF FailAll
    <3> QED BY <1>0, <3>1, <3>2, EmptyFacts, SettleCap
  <2>3. CASE StartPhase
    <3>1. /\ active \o queue \in Seq(Clients) /\ IsInjective(active \o queue)
          /\ ToSet(active \o queue) = UnfinishedSet
      BY <1>0, ToSetConcat, InjectiveConcat DEF TypeOK, OnePlace, UnfinishedSet
    <3>2. queue' = <<>> /\ handler' = handler /\ Settle(active \o queue, {})
      BY <2>3 DEF StartPhase
    <3> QED BY <1>0, <3>1, <3>2, EmptyFacts, SettleCap
  <2>4. ASSUME NEW failed \in SUBSET Clients, EndPhase(failed)
        PROVE  CapInv'
    <3>1. queue' = queue /\ handler' = handler /\ \E done : Settle(active, done)
      BY <2>4 DEF EndPhase
    <3>2. active \in Seq(Clients) /\ IsInjective(active) /\ IsInjective(queue')
            /\ ToSet(active) \cap ToSet(queue') = {}
            /\ ToSet(active) \cup ToSet(queue') = UnfinishedSet
      BY <1>0, <3>1 DEF TypeOK, OnePlace, UnfinishedSet
    <3> QED BY <1>0, <3>1, <3>2, SettleCap
  <2> QED BY <1>6, <2>1, <2>2, <2>3, <2>4 DEF Engine
<1> QED BY <1>1, <1>2, <1>3, <1>4, <1>5, <1>6 DEF Next

\* The tokens counted against the cap are those of the unfinished requests, each
\* once, whatever way requests leave (push, settle_requests, fail_all, release).
THEOREM CapIsExact == Spec => []CapCountsUnfinished
<1>1. Init => CapInv
  <2> SUFFICES ASSUME Init PROVE CapInv
    OBVIOUS
  <2>1. TypeOK
    <3>1. \A S : <<>> \in Seq(S)
      OBVIOUS
    <3> QED BY <3>1 DEF Init, TypeOK, Places, Stages
  <2>2. UnfinishedSet = {} /\ OnePlace
    BY EmptyFacts DEF Init, UnfinishedSet, OnePlace, At
  <2>3. CapCountsUnfinished
    BY <2>1, <2>2, UnfinishedIsInQueues, SumEmpty DEF Init, CapCountsUnfinished
  <2> QED BY <2>1, <2>2, <2>3 DEF CapInv
<1>2. CapInv /\ [Next]_vars => CapInv'
  BY CapNext
<1>3. CapInv => CapCountsUnfinished
  BY DEF CapInv
<1> QED BY <1>1, <1>2, <1>3, PTL DEF Spec

(***************************************************************************)
(* The drafter's rings: the inductive invariant                            *)
(***************************************************************************)
RowValues == (Nat \X Nat) \cup {Bad}
DraftType == [ring : [0 .. (RingRows - 1) -> [at : Int, row : RowValues]], writes : Nat, last : Int,
              hidden : Int, at : Nat, rows : Seq(RowValues), fault : BOOLEAN]

RingTypes ==
  /\ kv \in [Rings -> Nat] /\ heir \in [Rings -> Nat] /\ kept \in [Rings -> Nat]
  /\ start \in [Rings -> Int] /\ hole \in [Rings -> BOOLEAN]
  /\ sd \in [Rings -> DraftType] /\ turn \subseteq Rings
  /\ attended = [s \in Rings |-> attended[s]]

\* the writes whose rows the ring still holds, and where
HeldWrites(d) == {q \in 0 .. (d.writes - 1) : q >= d.writes - RingRows}
Entry(d, q) == d.ring[q % RingRows]

\* The rows of the ring are the stream's own (h), each roped for its position,
\* from older to newer, and without a gap unless a readback has failed (ho).
RingGood(d, h, ho) ==
  /\ d.writes = 0 => d.last = NoRow
  /\ d.writes > 0 => d.last \in Nat /\ Entry(d, d.writes - 1).at = d.last
  /\ \A q \in HeldWrites(d) : Entry(d, q).row = <<h, Entry(d, q).at>>
  /\ \A q, r \in HeldWrites(d) : q < r => Entry(d, q).at < Entry(d, r).at
  /\ ho \/ \A q \in HeldWrites(d) : Entry(d, q).at = d.last - (d.writes - 1 - q)
\* The backlog is a run of the stream's rows, no more of them than the ring takes.
BacklogGood(d, h) ==
  /\ Len(d.rows) <= RingRows
  /\ \A j \in 1 .. Len(d.rows) : d.rows[j] = <<h, d.at + j - 1>>
\* The backlog begins where the ring ends, unless it will fill the whole ring,
\* and the two reach the hidden row of the next draft.
Meets(d, ho) ==
  /\ d.rows # <<>> => d.last < d.at
  /\ d.rows # <<>> /\ d.writes > 0 => ho \/ d.at = d.last + 1 \/ Len(d.rows) = RingRows
  /\ IF d.hidden = NoRow THEN d.rows = <<>> /\ d.writes = 0
     ELSE IF d.rows = <<>> THEN d.writes > 0 /\ d.last = d.hidden
     ELSE d.at + Len(d.rows) - 1 = d.hidden
\* The two reach back a window, or to the first row since the ring restarted.
Reach(d, f) ==
  IF d.writes = 0
  THEN d.rows = <<>> \/ d.at <= f \/ Len(d.rows) = RingRows
  ELSE Len(d.rows) = RingRows \/ d.writes >= RingRows \/ d.last - d.writes + 1 <= f

\* told: the rows of the stream the drafter has been given or has lost
DraftGood(d, h, ho, f, told) ==
  /\ BacklogGood(d, h)
  /\ d.fault \/ (RingGood(d, h, ho) /\ Meets(d, ho) /\ (ho \/ Reach(d, f)))
  /\ d.hidden < told
  /\ ho \/ d.fault \/ IF d.hidden = NoRow THEN f >= told ELSE d.hidden = told - 1

\* Who may have a fault nobody has seen, rows to keep, or a draft, and when.
StageInv ==
  /\ pc = "draft" => \A s \in Rings : ~ sd[s].fault /\ kept[s] = 0
  /\ pc = "top" => turn = {} /\ \A s \in Rings : kept[s] = 0
  /\ pc = "keep" => /\ \A s \in turn : ~ sd[s].fault /\ kept[s] > 0
                    /\ \A s \in Rings \ turn : kept[s] = 0
  /\ turn \subseteq Streaming
  /\ \A s \in Rings : pc # "draft" \/ s \in turn => attended[s] = NoWin
  /\ \A s \in Rings : kept[s] < kv[s] \/ (kv[s] = 0 /\ kept[s] = 0)
  /\ \A s \in Rings : attended[s] # NoWin => sd[s].hidden # NoRow

\* The inductive invariant of the rings.
RingInv ==
  /\ RingTypes /\ StageInv /\ DraftsSeeNewestRows
  /\ \A s \in Streaming : DraftGood(sd[s], heir[s], hole[s], start[s], kv[s] - kept[s])

(***************************************************************************)
(* The drafter's rings: arithmetic                                         *)
(***************************************************************************)
LEMMA RingConstants == NRings \in Nat /\ RingRows \in Nat \ {0} /\ Block \in Nat \ {0}
                       /\ ChunkRows \in Nat \ {0} /\ \A k \in Prompts : k \in Nat \ {0}
BY RingAssumption

\* Writes less than a ring apart go to different places.
LEMMA PlacesApart ==
  ASSUME NEW a \in Nat, NEW b \in Nat, a < b, b < a + RingRows
  PROVE  a % RingRows # b % RingRows
<1> DEFINE W == RingRows
           p == a \div W
           q == b \div W
           x == a % W
           y == b % W
<1>1. W \in Nat \ {0}
  BY RingConstants
<1>2. /\ p \in Nat /\ x \in 0 .. W - 1 /\ a = W * p + x
      /\ q \in Nat /\ y \in 0 .. W - 1 /\ b = W * q + y
  BY <1>1, DivMod
<1> HIDE DEF W, p, q, x, y
<1>3. SUFFICES ASSUME x = y PROVE FALSE
  BY DEF x, y, W
<1>4. W * q - W * p < W /\ W * q > W * p
  BY <1>1, <1>2, <1>3 DEF W
<1>5. ~ (q <= p)
  <2>1. q <= p => W * q <= W * p
    BY <1>1, <1>2
  <2> QED BY <1>1, <1>2, <1>4, <2>1
<1>6. W * q >= W * p + W
  <2>1. W * q >= W * (p + 1)
    BY <1>1, <1>2, <1>5
  <2> QED BY <1>1, <1>2, <2>1
<1> QED BY <1>1, <1>2, <1>4, <1>6

LEMMA MaxIs ==
  ASSUME NEW S, S \subseteq Int, NEW x \in S, \A y \in S : y <= x
  PROVE  Max(S) = x
<1>1. \A z \in S : (\A y \in S : z >= y) => z = x
  OBVIOUS
<1>2. x \in S /\ \A y \in S : x >= y
  OBVIOUS
<1> QED BY <1>1, <1>2 DEF Max

LEMMA MinIs ==
  ASSUME NEW S, S \subseteq Int, NEW x \in S, \A y \in S : y >= x
  PROVE  Min(S) = x
<1>1. \A z \in S : (\A y \in S : z <= y) => z = x
  OBVIOUS
<1>2. x \in S /\ \A y \in S : x <= y
  OBVIOUS
<1> QED BY <1>1, <1>2 DEF Min

LEMMA TwoMin ==
  ASSUME NEW a \in Int, NEW b \in Int
  PROVE  /\ Min({a, b}) = IF a <= b THEN a ELSE b
         /\ Max({a, b}) = IF a >= b THEN a ELSE b
<1>1. CASE a <= b
  BY <1>1, MinIs, MaxIs
<1>2. CASE ~ (a <= b)
  BY <1>2, MinIs, MaxIs
<1> QED BY <1>1, <1>2

LEMMA RowValueIs ==
  /\ Bad \in RowValues
  /\ \A h, p \in Nat : <<h, p>> \in RowValues
BY DEF RowValues

\* What a change of some fields leaves is a draft again, field by field.
LEMMA DraftIs ==
  ASSUME NEW d \in DraftType, NEW e, DOMAIN e = DOMAIN d, e = [i \in DOMAIN e |-> e[i]],
         e.ring \in [0 .. (RingRows - 1) -> [at : Int, row : RowValues]], e.writes \in Nat,
         e.last \in Int, e.hidden \in Int, e.at \in Nat, e.rows \in Seq(RowValues),
         e.fault \in BOOLEAN
  PROVE  e \in DraftType
<1>1. e = [ring |-> e.ring, writes |-> e.writes, last |-> e.last, hidden |-> e.hidden,
           at |-> e.at, rows |-> e.rows, fault |-> e.fault]
  BY DEF DraftType
<1> QED BY <1>1 DEF DraftType

LEMMA DraftFields ==
  ASSUME NEW d \in DraftType
  PROVE  /\ d.ring \in [0 .. (RingRows - 1) -> [at : Int, row : RowValues]] /\ d.writes \in Nat
         /\ d.last \in Int /\ d.hidden \in Int /\ d.at \in Nat /\ d.rows \in Seq(RowValues)
         /\ d.fault \in BOOLEAN
BY DEF DraftType

LEMMA ResetIs ==
  ASSUME NEW d \in DraftType
  PROVE  /\ Reset(d) \in DraftType
         /\ Reset(d).writes = 0 /\ Reset(d).last = NoRow /\ Reset(d).hidden = NoRow
         /\ Reset(d).rows = <<>> /\ ~ Reset(d).fault
<1> DEFINE e == Reset(d)
<1>1. /\ e.writes = 0 /\ e.last = NoRow /\ e.hidden = NoRow /\ e.rows = <<>> /\ e.fault = FALSE
      /\ e.ring = d.ring /\ e.at = d.at
  BY DEF Reset, DraftType
<1>2. DOMAIN e = DOMAIN d /\ e = [i \in DOMAIN e |-> e[i]]
  BY DEF Reset
<1>3. NoRow \in Int /\ <<>> \in Seq(RowValues)
  BY DEF NoRow
<1> HIDE DEF e
<1>5. e.fault \in BOOLEAN
  BY <1>1
<1>6. /\ e.ring \in [0 .. (RingRows - 1) -> [at : Int, row : RowValues]] /\ e.writes \in Nat
      /\ e.last \in Int /\ e.hidden \in Int /\ e.at \in Nat /\ e.rows \in Seq(RowValues)
  BY <1>1, <1>3, DraftFields
<1>4. e \in DraftType
  BY <1>2, <1>5, <1>6, DraftIs
<1> QED BY <1>1, <1>4 DEF e

(***************************************************************************)
(* The drafter's rings: a write                                            *)
(***************************************************************************)
LEMMA PutIs ==
  ASSUME NEW d \in DraftType, NEW p0 \in Nat, NEW rows \in Seq(RowValues),
         Len(rows) <= RingRows
  PROVE  LET e == Put(d, p0, rows)
         IN /\ e \in DraftType
            /\ e = [d EXCEPT !.ring = e.ring, !.writes = d.writes + Len(rows)]
            /\ \A q \in HeldWrites(e) :
                 IF q >= d.writes
                 THEN Entry(e, q) = [at |-> p0 + (q - d.writes), row |-> rows[q - d.writes + 1]]
                 ELSE Entry(e, q) = Entry(d, q) /\ q \in HeldWrites(d)
<1> DEFINE W == RingRows
           nn == Len(rows)
           w == d.writes
           js(i) == {j \in 1 .. nn : (w + j - 1) % W = i}
           g == [i \in 0 .. (W - 1) |->
                   IF js(i) = {} THEN d.ring[i]
                   ELSE [at |-> p0 + Max(js(i)) - 1, row |-> rows[Max(js(i))]]]
           e == Put(d, p0, rows)
<1>1. W \in Nat \ {0} /\ nn \in Nat /\ w \in Nat /\ d.ring \in [0 .. (W - 1) -> [at : Int, row : RowValues]]
  BY RingConstants DEF DraftType
<1>0. nn <= W
  OBVIOUS
<1>2. e = [d EXCEPT !.ring = g, !.writes = w + nn]
  BY DEF Put
<1>3. e.ring = g /\ e.writes = w + nn
  BY <1>2 DEF DraftType
<1>4. \A i \in 0 .. (W - 1) : \A j, k \in js(i) : j = k
  <2> SUFFICES ASSUME NEW i \in 0 .. (W - 1), NEW j \in js(i), NEW k \in js(i), j < k
               PROVE  FALSE
    BY <1>1
  <2>0. j \in 1 .. nn /\ k \in 1 .. nn /\ (w + j - 1) % W = (w + k - 1) % W
    OBVIOUS
  <2> HIDE DEF js, w, nn, W
  <2>1. w + j - 1 \in Nat /\ w + k - 1 \in Nat /\ w + j - 1 < w + k - 1
        /\ w + k - 1 < (w + j - 1) + W
    BY <1>0, <1>1, <2>0
  <2> QED BY <2>0, <2>1, PlacesApart DEF W
<1>5. \A i \in 0 .. (W - 1) : \A j \in js(i) : Max(js(i)) = j
  <2> SUFFICES ASSUME NEW i \in 0 .. (W - 1), NEW j \in js(i)
               PROVE  Max(js(i)) = j
    OBVIOUS
  <2> DEFINE J == js(i)
  <2>1. J \subseteq Int /\ j \in J /\ \A k \in J : k <= j
    BY <1>1, <1>4
  <2> HIDE DEF J
  <2>2. Max(J) = j
    BY <2>1, MaxIs
  <2> QED BY <2>2 DEF J
<1>6. g \in [0 .. (W - 1) -> [at : Int, row : RowValues]]
  <2> SUFFICES ASSUME NEW i \in 0 .. (W - 1)
               PROVE  g[i] \in [at : Int, row : RowValues]
    OBVIOUS
  <2>1. CASE js(i) = {}
    BY <1>1, <2>1
  <2>2. CASE js(i) # {}
    <3>1. PICK j \in js(i) : TRUE
      BY <2>2
    <3>2. Max(js(i)) = j /\ j \in 1 .. nn
      BY <1>5, <3>1
    <3>3. rows[j] \in RowValues /\ p0 + j - 1 \in Int
      BY <3>2
    <3>4. g[i] = [at |-> p0 + j - 1, row |-> rows[j]]
      BY <2>2, <3>2
    <3> QED BY <3>3, <3>4
  <2> QED BY <2>1, <2>2
<1> HIDE DEF g, e
<1>7. e \in DraftType
  <2>1. w + nn \in Nat
    BY <1>1
  <2>2. d = [ring |-> d.ring, writes |-> d.writes, last |-> d.last, hidden |-> d.hidden,
             at |-> d.at, rows |-> d.rows, fault |-> d.fault]
    BY DEF DraftType
  <2>3. e = [ring |-> g, writes |-> w + nn, last |-> d.last, hidden |-> d.hidden,
             at |-> d.at, rows |-> d.rows, fault |-> d.fault]
    BY <1>2, <2>2
  <2>4. d.last \in Int /\ d.hidden \in Int /\ d.at \in Nat /\ d.rows \in Seq(RowValues)
        /\ d.fault \in BOOLEAN
    BY DEF DraftType
  <2> HIDE DEF w, nn
  <2> QED BY <1>6, <2>1, <2>3, <2>4 DEF DraftType
<1>8. e = [d EXCEPT !.ring = e.ring, !.writes = w + nn]
  BY <1>2, <1>3
<1>9. ASSUME NEW q \in HeldWrites(e)
      PROVE  IF q >= w
             THEN Entry(e, q) = [at |-> p0 + (q - w), row |-> rows[q - w + 1]]
             ELSE Entry(e, q) = Entry(d, q) /\ q \in HeldWrites(d)
  <2>1. q \in Nat /\ q <= w + nn - 1 /\ q >= w + nn - W
    BY <1>1, <1>3 DEF HeldWrites
  <2>2. q % W \in 0 .. (W - 1)
    BY <1>1, <2>1, DivMod
  <2>3. CASE q >= w
    <3> DEFINE j == q - w + 1
    <3>1. j \in 1 .. nn /\ w + j - 1 = q /\ p0 + j - 1 = p0 + (q - w)
      <4> HIDE DEF w, nn, W
      <4> QED BY <1>1, <2>1, <2>3
    <3>2. j \in js(q % W)
      BY <3>1
    <3>3. Max(js(q % W)) = j
      BY <1>5, <2>2, <3>2
    <3>4. g[q % W] = [at |-> p0 + j - 1, row |-> rows[j]]
      BY <2>2, <3>2, <3>3 DEF g
    <3> QED BY <1>3, <2>3, <3>1, <3>4 DEF Entry
  <2>4. CASE q < w
    <3>1. js(q % W) = {}
      <4> SUFFICES ASSUME NEW j \in 1 .. nn, (w + j - 1) % W = q % W PROVE FALSE
        OBVIOUS
      <4>1. w + j - 1 \in Nat /\ q < w + j - 1 /\ w + j - 1 < q + W
        <5>1. j \in 1 .. nn
          OBVIOUS
        <5> HIDE DEF w, nn, W
        <5> QED BY <1>1, <2>1, <2>4, <5>1
      <4> QED BY <2>1, <4>1, PlacesApart
    <3>2. g[q % W] = d.ring[q % W]
      BY <2>2, <3>1 DEF g
    <3>3. q \in HeldWrites(d)
      BY <1>1, <2>1, <2>4 DEF HeldWrites
    <3> QED BY <1>3, <2>1, <2>4, <3>2, <3>3, <1>1 DEF Entry
  <2> QED BY <1>1, <2>1, <2>3, <2>4
<1> QED BY <1>7, <1>8, <1>9 DEF e


\* A run of rows of stream h, from position p.
RunOf(rows, h, p) == rows \in Seq(RowValues) /\ \A j \in 1 .. Len(rows) : rows[j] = <<h, p + j - 1>>

\* The backlog takes the next rows, and forgets the oldest a ring would forget.
HoldsOn(e, d, h, p0, new) ==
  LET runs == d.rows # <<>> /\ d.at + Len(d.rows) = p0
      base == IF runs THEN d.at ELSE p0
  IN /\ e \in DraftType
     /\ e.ring = d.ring /\ e.writes = d.writes /\ e.last = d.last /\ e.hidden = d.hidden
     /\ e.fault = d.fault
     /\ BacklogGood(e, h)
     /\ e.at + Len(e.rows) = p0 + Len(new) /\ e.at >= base
     /\ e.at = base \/ Len(e.rows) = RingRows
     /\ runs => Len(e.rows) >= Len(d.rows)
     /\ new # <<>> => e.rows # <<>>

LEMMA HoldIs ==
  ASSUME NEW d \in DraftType, NEW h, BacklogGood(d, h), NEW p0 \in Nat, NEW new, RunOf(new, h, p0)
  PROVE  HoldsOn(Hold(d, p0, new), d, h, p0, new)
<1> SUFFICES ASSUME new \in Seq(RowValues), \A j \in 1 .. Len(new) : new[j] = <<h, p0 + j - 1>>
             PROVE  HoldsOn(Hold(d, p0, new), d, h, p0, new)
  BY DEF RunOf
<1> DEFINE W == RingRows
           runs == d.rows # <<>> /\ d.at + Len(d.rows) = p0
           base == IF runs THEN d.at ELSE p0
           rows == IF runs THEN d.rows \o new ELSE new
           nn == Len(rows)
           old == Max({0, nn - W})
           cut == SubSeq(rows, old + 1, nn)
           e == Hold(d, p0, new)
<1>1. W \in Nat \ {0} /\ d.at \in Nat /\ d.rows \in Seq(RowValues) /\ Len(d.rows) <= W
  BY RingConstants, DraftFields DEF BacklogGood
<1>2. rows \in Seq(RowValues) /\ base \in Nat /\ base + nn = p0 + Len(new)
  <2>1. CASE runs
    BY <1>1, <2>1
  <2>2. CASE ~ runs
    BY <1>1, <2>2
  <2> QED BY <2>1, <2>2
<1>3. \A j \in 1 .. nn : rows[j] = <<h, base + j - 1>>
  <2>1. CASE runs
    <3> SUFFICES ASSUME NEW j \in 1 .. nn
                 PROVE  rows[j] = <<h, base + j - 1>>
      OBVIOUS
    <3>1. CASE j <= Len(d.rows)
      <4>1. rows[j] = d.rows[j] /\ j \in 1 .. Len(d.rows)
        BY <1>1, <2>1, <3>1
      <4> QED BY <2>1, <4>1 DEF BacklogGood
    <3>2. CASE j > Len(d.rows)
      <4> DEFINE i == j - Len(d.rows)
      <4>0. rows = d.rows \o new /\ nn = Len(d.rows) + Len(new)
        BY <1>1, <2>1
      <4>3. i \in 1 .. Len(new) /\ p0 + i - 1 = d.at + j - 1
        <5> DEFINE l == Len(d.rows)
                   k == Len(new)
        <5>1. l \in Nat /\ k \in Nat /\ p0 = d.at + l /\ nn = l + k /\ j > l /\ j \in 1 .. nn
          BY <1>1, <2>1, <3>2, <4>0
        <5> HIDE DEF nn, l, k
        <5>2. j - l \in 1 .. k /\ p0 + (j - l) - 1 = d.at + j - 1
          BY <1>1, <5>1
        <5> QED BY <5>2 DEF l, k
      <4>4. rows[j] = new[i]
        <5>1. (d.rows \o new)[j] = new[j - Len(d.rows)]
          BY <1>1, <3>2, <4>0
        <5> QED BY <4>0, <5>1
      <4>1. i \in 1 .. Len(new) /\ rows[j] = new[i] /\ p0 + i - 1 = d.at + j - 1
        BY <4>3, <4>4
      <4>2. new[i] = <<h, p0 + i - 1>>
        BY <4>1
      <4>5. rows[j] = <<h, d.at + j - 1>>
        BY <4>1, <4>2
      <4>6. <<h, base + j - 1>> = <<h, d.at + j - 1>>
        <5>1. base = d.at
          BY <2>1
        <5> HIDE DEF base
        <5> QED BY <5>1
      <4> HIDE DEF rows, base
      <4> QED BY <4>5, <4>6
    <3>3. Len(d.rows) \in Int /\ j \in Int
      BY <1>1, <1>2
    <3>4. j <= Len(d.rows) \/ j > Len(d.rows)
      BY <3>3
    <3> HIDE DEF rows, base
    <3> QED BY <3>1, <3>2, <3>4
  <2>2. CASE ~ runs
    BY <2>2
  <2> QED BY <2>1, <2>2
<1>4. nn \in Nat /\ old = (IF nn >= W THEN nn - W ELSE 0)
  <2>1. nn \in Nat
    BY <1>2
  <2>2. nn - W \in Int
    BY <1>1, <2>1
  <2> HIDE DEF nn, W
  <2> DEFINE b == nn - W
  <2>3. old = Max({0, b}) /\ b \in Int
    BY <2>2
  <2> HIDE DEF b, old
  <2>5. 0 \in Int
    OBVIOUS
  <2>6. Max({0, b}) = IF 0 >= b THEN 0 ELSE b
    BY <2>3, <2>5, TwoMin, Zenon
  <2>4. old = IF 0 >= b THEN 0 ELSE b
    BY <2>3, <2>6
  <2> QED BY <1>1, <2>1, <2>4 DEF b
<1>5. e = [d EXCEPT !.at = base + old, !.rows = cut]
  BY DEF Hold
<1>6. runs => nn >= Len(d.rows)
  BY <1>1
<1>7. new # <<>> => nn > 0
  BY <1>1
<1> HIDE DEF rows, base, runs
<1>8. cut \in Seq(RowValues) /\ Len(cut) = nn - old /\ \A j \in 1 .. Len(cut) : cut[j] = rows[old + j]
  <2>1. old \in Nat /\ old <= nn /\ nn \in Nat
    BY <1>1, <1>4
  <2> HIDE DEF old
  <2>2. \A i \in (old + 1) .. nn : rows[i] \in RowValues
    BY <1>2, <2>1
  <2>3. nn = Len(rows)
    OBVIOUS
  <2> HIDE DEF nn
  <2>4. cut \in Seq(RowValues)
    BY <2>1, <2>2, <2>3
  <2>5. Len(cut) = nn - old
    BY <2>1, <2>2, <2>3
  <2>6. \A j \in 1 .. (nn - old) : cut[j] = rows[old + j]
    BY <2>1, <2>2, <2>3
  <2> QED BY <2>4, <2>5, <2>6
<1> HIDE DEF cut, nn, old
<1>9. base + old \in Nat
  BY <1>1, <1>2, <1>4
<1>10. /\ e.at = base + old /\ e.rows = cut
       /\ e.ring = d.ring /\ e.writes = d.writes /\ e.last = d.last /\ e.hidden = d.hidden
       /\ e.fault = d.fault
  BY <1>5 DEF DraftType
<1>11. e \in DraftType
  <2>1. DOMAIN e = DOMAIN d /\ e = [i \in DOMAIN e |-> e[i]]
    BY <1>5
  <2> HIDE DEF e
  <2>2. e.fault \in BOOLEAN
    BY <1>10, DraftFields
  <2>3. /\ e.ring \in [0 .. (RingRows - 1) -> [at : Int, row : RowValues]] /\ e.writes \in Nat
        /\ e.last \in Int /\ e.hidden \in Int /\ e.at \in Nat /\ e.rows \in Seq(RowValues)
    BY <1>8, <1>9, <1>10, DraftFields
  <2> QED BY <2>1, <2>2, <2>3, DraftIs
<1> HIDE DEF e
<1>12. BacklogGood(e, h)
  <2>1. Len(cut) <= W
    BY <1>1, <1>4, <1>8
  <2>2. ASSUME NEW j \in 1 .. Len(cut)
        PROVE  cut[j] = <<h, base + old + j - 1>>
    <3>1. old + j \in 1 .. nn /\ base + (old + j) - 1 = base + old + j - 1
      BY <1>1, <1>2, <1>4, <1>8
    <3>2. cut[j] = rows[old + j]
      BY <1>8
    <3>3. rows[old + j] = <<h, base + (old + j) - 1>>
      BY <1>3, <3>1 DEF nn
    <3> QED BY <3>1, <3>2, <3>3
  <2> QED BY <1>10, <2>1, <2>2 DEF BacklogGood, W
<1>13. /\ e.at + Len(e.rows) = p0 + Len(new) /\ e.at >= base
       /\ e.at = base \/ Len(e.rows) = W
  <2>1. e.at = base + old /\ Len(e.rows) = nn - old
    BY <1>8, <1>10
  <2>2. old \in Nat
    BY <1>1, <1>4
  <2>3. e.at + Len(e.rows) = p0 + Len(new) /\ e.at >= base
    BY <1>2, <1>4, <2>1, <2>2
  <2>4. e.at = base \/ Len(e.rows) = W
    BY <1>1, <1>2, <1>4, <2>1
  <2> QED BY <2>3, <2>4
<1>14. (runs => Len(e.rows) >= Len(d.rows)) /\ (new # <<>> => e.rows # <<>>)
  <2>1. runs => Len(e.rows) >= Len(d.rows)
    BY <1>1, <1>4, <1>6, <1>8, <1>10
  <2>2. new # <<>> => Len(cut) > 0
    BY <1>1, <1>4, <1>7, <1>8
  <2> QED BY <1>10, <2>1, <2>2
<1> QED BY <1>10, <1>11, <1>12, <1>13, <1>14 DEF e, runs, base, W, HoldsOn

\* Writing the whole backlog: the ring ends where the backlog did, and reaches
\* back as far as the two did.
LEMMA WriteGood ==
  ASSUME NEW d \in DraftType, NEW h, NEW ho \in BOOLEAN, NEW f \in Int,
         BacklogGood(d, h), RingGood(d, h, ho), d.rows # <<>>, d.last < d.at,
         d.writes > 0 => ho \/ d.at = d.last + 1 \/ Len(d.rows) = RingRows,
         ho \/ Reach(d, f)
  PROVE  LET newest == d.at + Len(d.rows) - 1
             e == [Put([d EXCEPT !.rows = <<>>], d.at, d.rows) EXCEPT !.last = newest]
         IN /\ e \in DraftType
            /\ e.rows = <<>> /\ e.writes > 0 /\ e.last = newest
            /\ e.fault = d.fault /\ e.hidden = d.hidden
            /\ RingGood(e, h, ho) /\ (ho \/ Reach(e, f))
<1> DEFINE W == RingRows
           w == d.writes
           nn == Len(d.rows)
           p0 == d.at
           c == [d EXCEPT !.rows = <<>>]
           u == Put(c, p0, d.rows)
           newest == d.at + Len(d.rows) - 1
           e == [u EXCEPT !.last = newest]
<1>1. /\ W \in Nat \ {0} /\ w \in Nat /\ p0 \in Nat /\ d.last \in Int /\ nn \in Nat \ {0} /\ nn <= W
      /\ d.rows \in Seq(RowValues)
  BY RingConstants, DraftFields DEF BacklogGood
<1>2. c \in DraftType /\ c.ring = d.ring /\ c.writes = w /\ c.fault = d.fault /\ c.hidden = d.hidden
      /\ c.rows = <<>>
  <2>1. <<>> \in Seq(RowValues)
    OBVIOUS
  <2> QED BY <2>1 DEF DraftType
<1> HIDE DEF c
<1>3. /\ u \in DraftType
      /\ u = [c EXCEPT !.ring = u.ring, !.writes = w + nn]
      /\ \A q \in HeldWrites(u) :
           IF q >= w THEN Entry(u, q) = [at |-> p0 + (q - w), row |-> d.rows[q - w + 1]]
                     ELSE Entry(u, q) = Entry(c, q) /\ q \in HeldWrites(c)
  <2>1. /\ u \in DraftType
        /\ u = [c EXCEPT !.ring = u.ring, !.writes = c.writes + Len(d.rows)]
        /\ \A q \in HeldWrites(u) :
             IF q >= c.writes
             THEN Entry(u, q) = [at |-> p0 + (q - c.writes), row |-> d.rows[q - c.writes + 1]]
             ELSE Entry(u, q) = Entry(c, q) /\ q \in HeldWrites(c)
    BY <1>1, <1>2, PutIs
  <2> HIDE DEF u
  <2> QED BY <1>2, <2>1
<1>4. u.writes = w + nn /\ u.rows = <<>> /\ u.fault = d.fault /\ u.hidden = d.hidden
  BY <1>2, <1>3 DEF DraftType
<1> HIDE DEF u
<1>5. newest \in Nat
  BY <1>1
<1> HIDE DEF newest
<1>6. e \in DraftType /\ e.ring = u.ring /\ e.writes = w + nn /\ e.rows = <<>> /\ e.last = newest
      /\ e.fault = d.fault /\ e.hidden = d.hidden
  <2>1. /\ e.ring = u.ring /\ e.writes = u.writes /\ e.rows = u.rows /\ e.last = newest
        /\ e.fault = u.fault /\ e.hidden = u.hidden /\ e.at = u.at
    BY <1>3 DEF DraftType
  <2>2. DOMAIN e = DOMAIN u /\ e = [i \in DOMAIN e |-> e[i]]
    OBVIOUS
  <2> HIDE DEF e
  <2>3. e.fault \in BOOLEAN
    BY <1>3, <2>1, DraftFields
  <2>4. /\ e.ring \in [0 .. (RingRows - 1) -> [at : Int, row : RowValues]] /\ e.writes \in Nat
        /\ e.last \in Int /\ e.hidden \in Int /\ e.at \in Nat /\ e.rows \in Seq(RowValues)
    BY <1>3, <1>5, <2>1, DraftFields
  <2>5. e \in DraftType
    BY <1>3, <2>2, <2>3, <2>4, DraftIs
  <2> QED BY <1>4, <2>1, <2>5
<1> HIDE DEF e
<1>7. HeldWrites(e) = HeldWrites(u) /\ \A q : Entry(e, q) = Entry(u, q)
  BY <1>4, <1>6 DEF HeldWrites, Entry
<1>8. HeldWrites(c) = HeldWrites(d) /\ \A q : Entry(c, q) = Entry(d, q)
  BY <1>2 DEF HeldWrites, Entry
<1>9. ASSUME NEW q \in HeldWrites(e), q >= w
      PROVE  Entry(e, q).at = p0 + (q - w) /\ Entry(e, q).row = <<h, p0 + (q - w)>>
  <2>1. q \in Nat /\ q < w + nn
    BY <1>1, <1>6 DEF HeldWrites
  <2>2. Entry(e, q) = [at |-> p0 + (q - w), row |-> d.rows[q - w + 1]]
    BY <1>3, <1>7, <1>9
  <2> DEFINE j == q - w + 1
  <2>3. j \in 1 .. nn /\ p0 + j - 1 = p0 + (q - w)
    BY <1>1, <2>1, <1>9
  <2>4. d.rows[j] = <<h, p0 + j - 1>>
    BY <2>3 DEF BacklogGood
  <2> QED BY <2>2, <2>3, <2>4
<1>10. ASSUME NEW q \in HeldWrites(e), q < w
       PROVE  Entry(e, q) = Entry(d, q) /\ q \in HeldWrites(d) /\ q \in Nat
  <2>1. q \in Nat
    BY DEF HeldWrites
  <2>2. ~ (q >= w)
    BY <1>1, <1>10, <2>1
  <2> QED BY <1>3, <1>7, <1>8, <2>1, <2>2
<1>11. ASSUME NEW q \in HeldWrites(d)
       PROVE  Entry(d, q).at <= d.last /\ Entry(d, q).at \in Int /\ w > 0
  <2>1. q \in Nat /\ q <= w - 1 /\ w > 0
    BY <1>1 DEF HeldWrites
  <2>2. w - 1 \in HeldWrites(d)
    BY <1>1, <2>1 DEF HeldWrites
  <2>3. Entry(d, w - 1).at = d.last
    BY <2>1 DEF RingGood
  <2>4. Entry(d, q).at \in Int
    <3>1. q % W \in 0 .. (W - 1)
      BY <1>1, <2>1, DivMod
    <3> QED BY <3>1, DraftFields DEF Entry
  <2>5. CASE q < w - 1
    <3>1. Entry(d, q).at < Entry(d, w - 1).at
      BY <2>2, <2>5 DEF RingGood
    <3> QED BY <1>1, <2>1, <2>3, <2>4, <3>1
  <2>6. CASE q = w - 1
    BY <1>1, <2>1, <2>3, <2>6
  <2> QED BY <1>1, <2>1, <2>5, <2>6
<1>12. w + nn - 1 \in HeldWrites(e) /\ Entry(e, w + nn - 1).at = newest
  <2>1. w + nn - 1 \in HeldWrites(e)
    BY <1>1, <1>6 DEF HeldWrites
  <2>2. w + nn - 1 >= w /\ p0 + ((w + nn - 1) - w) = newest
    BY <1>1 DEF newest
  <2> QED BY <1>9, <2>1, <2>2
<1>13. ASSUME NEW q \in HeldWrites(e)
       PROVE  Entry(e, q).row = <<h, Entry(e, q).at>>
  <2>1. CASE q >= w
    BY <1>9, <2>1
  <2>2. CASE q < w
    BY <1>10, <2>2 DEF RingGood
  <2>3. q \in Nat
    BY DEF HeldWrites
  <2> QED BY <1>1, <2>1, <2>2, <2>3
<1>14. ASSUME NEW q \in HeldWrites(e), NEW r \in HeldWrites(e), q < r
       PROVE  Entry(e, q).at < Entry(e, r).at
  <2>0. q \in Nat /\ r \in Nat
    BY DEF HeldWrites
  <2>1. CASE r < w
    <3>1. q < w
      BY <1>1, <1>14, <2>0, <2>1
    <3> QED BY <1>10, <1>14, <2>1, <3>1 DEF RingGood
  <2>2. CASE q < w /\ r >= w
    <3>1. Entry(e, q).at <= d.last /\ Entry(e, q).at \in Int
      BY <1>10, <1>11, <2>2
    <3>2. Entry(e, r).at >= p0 /\ Entry(e, r).at \in Int
      BY <1>1, <1>9, <2>0, <2>2
    <3> QED BY <1>1, <3>1, <3>2
  <2>3. CASE q >= w
    <3>1. r >= w
      BY <1>1, <1>14, <2>0, <2>3
    <3>2. Entry(e, q).at = p0 + (q - w) /\ Entry(e, r).at = p0 + (r - w)
      BY <1>9, <2>3, <3>1
    <3> QED BY <1>1, <1>14, <2>0, <3>2
  <2> QED BY <1>1, <2>0, <2>1, <2>2, <2>3
<1>15. ASSUME ~ ho, NEW q \in HeldWrites(e)
       PROVE  Entry(e, q).at = newest - ((w + nn) - 1 - q)
  <2>0. q \in Nat /\ q >= (w + nn) - W
    BY <1>1, <1>6 DEF HeldWrites
  <2>1. CASE q >= w
    <3>1. Entry(e, q).at = p0 + (q - w)
      BY <1>9, <2>1
    <3>2. newest = p0 + nn - 1
      BY DEF newest
    <3>3. q \in Int /\ w \in Int /\ nn \in Int /\ p0 \in Int
      BY <1>1, <2>0
    <3> HIDE DEF w, nn, p0
    <3>4. p0 + (q - w) = newest - ((w + nn) - 1 - q)
      BY <3>2, <3>3
    <3> QED BY <3>1, <3>4
  <2>2. CASE q < w
    <3>1. w > 0 /\ nn # W
      BY <1>1, <2>0, <2>2
    <3>2. p0 = d.last + 1
      BY <1>15, <3>1
    <3>3. Entry(e, q).at = d.last - (w - 1 - q)
      BY <1>10, <1>15, <2>2 DEF RingGood
    <3>4. d.last - (w - 1 - q) = newest - ((w + nn) - 1 - q)
      <4>1. newest = p0 + nn - 1
        BY DEF newest
      <4> DEFINE y == d.last
      <4>2. y \in Int /\ q \in Int /\ w \in Int /\ nn \in Int /\ p0 = y + 1
        BY <1>1, <2>0, <3>2
      <4> HIDE DEF w, nn, p0, y
      <4>3. y - (w - 1 - q) = newest - ((w + nn) - 1 - q)
        BY <4>1, <4>2
      <4> QED BY <4>3 DEF y
    <3> QED BY <3>3, <3>4
  <2> QED BY <1>1, <2>0, <2>1, <2>2
<1>16. RingGood(e, h, ho)
  <2>1. e.writes > 0 /\ e.writes - 1 = w + nn - 1
    BY <1>1, <1>6
  <2>2. e.writes = 0 => e.last = NoRow
    BY <2>1
  <2>3. e.last \in Nat /\ Entry(e, e.writes - 1).at = e.last
    BY <1>5, <1>6, <1>12, <2>1
  <2>4. ho \/ \A q \in HeldWrites(e) : Entry(e, q).at = e.last - (e.writes - 1 - q)
    <3>1. e.last = newest /\ e.writes = w + nn
      BY <1>6
    <3> HIDE DEF w, nn
    <3> QED BY <1>15, <3>1
  <2> QED BY <1>13, <1>14, <2>2, <2>3, <2>4 DEF RingGood
<1>17. ASSUME ~ ho PROVE Reach(e, f)
  <2>1. Reach(d, f) /\ (w > 0 => p0 = d.last + 1 \/ nn = W)
    BY <1>17
  <2>2. SUFFICES ASSUME w + nn < W
                 PROVE  newest - (w + nn) + 1 <= f
    BY <1>1, <1>6 DEF Reach, W
  <2>3. CASE w = 0
    <3>1. p0 <= f
      BY <1>1, <2>1, <2>2, <2>3 DEF Reach
    <3> QED BY <1>1, <2>3, <3>1 DEF newest
  <2>4. CASE w > 0
    <3>1. d.last - w + 1 <= f /\ p0 = d.last + 1
      BY <1>1, <2>1, <2>2, <2>4 DEF Reach
    <3>2. newest = p0 + nn - 1
      BY DEF newest
    <3> DEFINE y == d.last
    <3>3. y \in Int /\ w \in Int /\ nn \in Int /\ y - w + 1 <= f /\ p0 = y + 1
      BY <1>1, <3>1
    <3> HIDE DEF w, nn, p0, y
    <3>4. newest - (w + nn) + 1 = y - w + 1
      BY <3>2, <3>3
    <3> QED BY <3>3, <3>4
  <2> QED BY <1>1, <2>3, <2>4
<1>18. e.writes > 0
  BY <1>1, <1>6
<1> QED BY <1>6, <1>16, <1>17, <1>18 DEF e, u, c, newest

\* ... which is what write_backlog does, unless it fails (now or later).
Written(d) == [Put([d EXCEPT !.rows = <<>>], d.at, d.rows) EXCEPT !.last = d.at + Len(d.rows) - 1]

\* a ring that has been restarted
Restarted(d) ==
  d.writes = 0 /\ d.last = NoRow /\ d.hidden = NoRow /\ d.rows = <<>> /\ ~ d.fault

LEMMA RestartGood ==
  ASSUME NEW d \in DraftType, Restarted(d), NEW h, NEW ho \in BOOLEAN, NEW f \in Int,
         NEW told \in Nat, ho \/ f >= told
  PROVE  DraftGood(d, h, ho, f, told)
<1>1. /\ d.writes = 0 /\ d.last = NoRow /\ d.hidden = NoRow /\ d.rows = <<>>
  BY DEF Restarted
<1>2. HeldWrites(d) = {}
  BY <1>1 DEF HeldWrites
<1>3. RingGood(d, h, ho)
  BY <1>1, <1>2 DEF RingGood
<1>4. BacklogGood(d, h)
  BY <1>1, RingConstants DEF BacklogGood
<1>5. Meets(d, ho)
  BY <1>1 DEF Meets
<1>6. Reach(d, f)
  BY <1>1 DEF Reach
<1>7. d.hidden < told
  BY <1>1 DEF NoRow
<1> QED BY <1>1, <1>3, <1>4, <1>5, <1>6, <1>7 DEF DraftGood

LEMMA Greatest ==
  ASSUME NEW S, NEW n \in Nat, S \subseteq 0 .. n, S # {}
  PROVE  Max(S) \in S
<1> DEFINE T == {n - x : x \in S}
<1>1. T \subseteq Nat /\ T # {}
  <2>1. \A x \in S : n - x \in Nat
    OBVIOUS
  <2> QED BY <2>1
<1>2. PICK y \in T : \A z \in T : y <= z
  BY <1>1, Least
<1>3. PICK x \in S : y = n - x
  BY <1>2
<1>4. \A z \in S : z <= x
  <2> SUFFICES ASSUME NEW z \in S PROVE z <= x
    OBVIOUS
  <2>1. n - z \in T
    OBVIOUS
  <2>2. y <= n - z
    BY <1>2, <2>1
  <2> QED BY <1>3, <2>2
<1>5. S \subseteq Int
  OBVIOUS
<1> QED BY <1>4, <1>5, MaxIs

LEMMA SettleIs ==
  ASSUME NEW all \in [Rings -> DraftType]
  PROVE  /\ SettleWrites(all) \in [Rings -> DraftType]
         /\ \A t \in Rings : IF all[t].fault THEN Restarted(SettleWrites(all)[t])
                                             ELSE SettleWrites(all)[t] = all[t]
         /\ \A t \in Rings : ~ SettleWrites(all)[t].fault
<1>1. \A t \in Rings : SettleWrites(all)[t] = IF all[t].fault THEN Reset(all[t]) ELSE all[t]
  BY DEF SettleWrites
<1>2. \A t \in Rings : Reset(all[t]) \in DraftType /\ Restarted(Reset(all[t]))
  BY ResetIs DEF Restarted
<1>3. \A t \in Rings : SettleWrites(all)[t] \in DraftType
  BY <1>1, <1>2
<1>4. SettleWrites(all) \in [Rings -> DraftType]
  BY <1>3 DEF SettleWrites
<1>5. \A t \in Rings : ~ SettleWrites(all)[t].fault
  BY <1>1, <1>2 DEF Restarted
<1> QED BY <1>1, <1>2, <1>4, <1>5

LEMMA WriteBacklogIs ==
  ASSUME NEW all \in [Rings -> DraftType], NEW s \in Rings, NEW o \in WriteBacklog(all, s),
         ~ all[s].fault, all[s].rows # <<>>, Len(all[s].rows) <= RingRows,
         all[s].last < all[s].at
  PROVE  /\ o.all \in [Rings -> DraftType] /\ o.err \in BOOLEAN
         /\ \A t \in Rings \ {s} : o.all[t] = SettleWrites(all)[t]
         /\ o.all[s].rows = <<>>
         /\ o.err \/ o.all[s].fault \/ o.all[s] = Written(all[s])
<1> DEFINE W == RingRows
           taken == all[s].rows
           p0 == all[s].at
           empty == [all EXCEPT ![s].rows = <<>>]
           calm == SettleWrites(empty)
           d == calm[s]
           skip == RingSkip(d.last, p0, Len(taken))
           unwritten == SubSeq(taken, skip + 1, Len(taken))
           n == Len(unwritten)
           first == p0 + skip
           Upto(m) == Put(d, first, SubSeq(unwritten, 1, m))
           Spoil(m, k) == Put(Upto(m), first + m, Spoilt(SubSeq(unwritten, m + 1, k)))
           cuts == {m \in 0 .. n - 1 : m % ChunkRows = 0}
           newest == p0 + Len(taken) - 1
<1>1. /\ W \in Nat \ {0} /\ taken \in Seq(RowValues) /\ Len(taken) \in Nat \ {0}
      /\ p0 \in Nat /\ all[s].last \in Int
  <2>1. all[s] \in DraftType
    OBVIOUS
  <2> QED BY <2>1, RingConstants, DraftFields
<1>2. /\ empty \in [Rings -> DraftType] /\ \A t \in Rings \ {s} : empty[t] = all[t]
      /\ empty[s] = [all[s] EXCEPT !.rows = <<>>]
  <2>1. all[s] \in DraftType /\ <<>> \in Seq(RowValues)
    OBVIOUS
  <2>2. [all[s] EXCEPT !.rows = <<>>] \in DraftType
    BY <2>1 DEF DraftType
  <2> HIDE DEF DraftType
  <2> QED BY <2>2
<1>3. empty[s].last = all[s].last /\ empty[s].fault = all[s].fault /\ empty[s].rows = <<>>
  <2>1. all[s] \in DraftType
    OBVIOUS
  <2> HIDE DEF empty
  <2> QED BY <1>2, <2>1 DEF DraftType
<1> HIDE DEF empty
<1>4. /\ calm \in [Rings -> DraftType] /\ d = [all[s] EXCEPT !.rows = <<>>]
      /\ \A t \in Rings : ~ calm[t].fault
      /\ d \in DraftType /\ d.last = all[s].last /\ d.rows = <<>> /\ ~ d.fault
  BY <1>2, <1>3, SettleIs
<1>5. \A t \in Rings \ {s} : calm[t] = SettleWrites(all)[t]
  BY <1>2 DEF SettleWrites
<1>6. ~ Trips(calm)
  BY <1>4 DEF Trips
<1>7. skip = 0
  <2> DEFINE l == Len(taken)
             b == l - W
  <2>0. l \in Nat /\ b \in Int /\ b <= 0
    BY <1>1
  <2>1. ~ (d.last >= p0)
    BY <1>1, <1>4
  <2>2. skip = Min({l, Max({0, b})})
    BY <2>1 DEF RingSkip
  <2> HIDE DEF l, b, skip
  <2>5. 0 \in Int /\ l \in Int
    BY <2>0
  <2>6. Max({0, b}) = (IF 0 >= b THEN 0 ELSE b) /\ Min({l, 0}) = (IF l <= 0 THEN l ELSE 0)
    BY <2>0, <2>5, TwoMin, Zenon
  <2>3. Max({0, b}) = 0
    BY <2>0, <2>6
  <2>4. Min({l, 0}) = 0
    BY <2>0, <2>6
  <2> QED BY <2>2, <2>3, <2>4
<1> HIDE DEF calm
<1>8. unwritten = taken /\ n = Len(taken) /\ first = p0
  BY <1>1, <1>7
<1> HIDE DEF skip
<1>9. WriteBacklog(all, s) =
        {[all |-> [calm EXCEPT ![s] = [Upto(n) EXCEPT !.last = newest]], err |-> FALSE]}
          \cup (IF spoilt = MaxSpoilt THEN {}
                ELSE {[all |-> [calm EXCEPT ![s] = [Spoil(Max(cuts), n) EXCEPT
                                  !.last = newest, !.fault = TRUE]], err |-> FALSE]}
                     \cup {[all |-> [calm EXCEPT ![s] = [Spoil(m, Min({n, m + ChunkRows})) EXCEPT
                                  !.writes = d.writes + m]], err |-> TRUE] : m \in cuts})
  <2>1. n # 0
    BY <1>1, <1>8
  <2> HIDE DEF n
  <2> QED BY <1>6, <2>1 DEF WriteBacklog, calm, empty, n, skip
<1> HIDE DEF d, unwritten, first
<1>10. ASSUME NEW m \in 0 .. n
       PROVE  Upto(m) \in DraftType /\ Upto(m).rows = <<>> /\ Upto(m).fault = FALSE
  <2> DEFINE cut == SubSeq(unwritten, 1, m)
             u == Put(d, first, cut)
  <2>1. cut \in Seq(RowValues) /\ Len(cut) = m /\ m <= W /\ first \in Nat
    BY <1>1, <1>8
  <2> HIDE DEF cut
  <2>2. u \in DraftType /\ u = [d EXCEPT !.ring = u.ring, !.writes = d.writes + Len(cut)]
    <3>1. Len(cut) <= RingRows
      BY <1>1, <2>1
    <3>2. d \in DraftType
      BY <1>4
    <3> QED BY <2>1, <3>1, <3>2, PutIs
  <2> HIDE DEF u
  <2>3. u.rows = <<>> /\ u.fault = d.fault
    BY <1>4, <2>2 DEF DraftType
  <2>4. d.fault = FALSE
    BY <1>4, DraftFields
  <2> QED BY <2>2, <2>3, <2>4 DEF u, cut
<1>11. ASSUME NEW m \in 0 .. n, NEW k \in m .. n
       PROVE  Spoil(m, k) \in DraftType /\ Spoil(m, k).rows = <<>>
  <2> DEFINE cut == Spoilt(SubSeq(unwritten, m + 1, k))
             v == Upto(m)
             u == Put(v, first + m, cut)
  <2>1. cut \in Seq(RowValues) /\ Len(cut) <= W
    <3> DEFINE z == SubSeq(unwritten, m + 1, k)
    <3>1. Len(z) = k - m /\ k - m \in 0 .. W /\ DOMAIN z = 1 .. (k - m)
      BY <1>1, <1>8
    <3> HIDE DEF z
    <3>2. Spoilt(z) = [j \in 1 .. (k - m) |-> Bad]
      BY <3>1 DEF Spoilt
    <3>3. Spoilt(z) \in Seq(RowValues) /\ Len(Spoilt(z)) = k - m
      BY <3>1, <3>2, RowValueIs
    <3> QED BY <3>1, <3>3 DEF z
  <2>2. v \in DraftType /\ v.rows = <<>>
    BY <1>10
  <2>3. first + m \in Nat
    BY <1>1, <1>8
  <2> HIDE DEF cut, v
  <2>4. u \in DraftType /\ u = [v EXCEPT !.ring = u.ring, !.writes = v.writes + Len(cut)]
    BY <2>1, <2>2, <2>3, PutIs
  <2> HIDE DEF u
  <2>5. u.rows = v.rows
    BY <2>2, <2>4 DEF DraftType
  <2> QED BY <2>2, <2>4, <2>5 DEF u, cut, v
<1>12. n \in Nat /\ newest \in Int /\ d.writes \in Nat
  BY <1>1, <1>4, <1>8, DraftFields
<1>13. Upto(n) = Put([all[s] EXCEPT !.rows = <<>>], p0, taken)
  <2>1. SubSeq(taken, 1, Len(taken)) = taken
    BY <1>1
  <2> QED BY <1>4, <1>8, <2>1
<1> HIDE DEF newest, n
<1>14. CASE o = [all |-> [calm EXCEPT ![s] = [Upto(n) EXCEPT !.last = newest]], err |-> FALSE]
  <2> DEFINE e == [Upto(n) EXCEPT !.last = newest]
  <2>1. e = Written(all[s])
    BY <1>13 DEF Written, newest
  <2>0. n \in 0 .. n
    BY <1>12
  <2> HIDE DEF Upto
  <2>2. Upto(n) \in DraftType /\ Upto(n).rows = <<>>
    BY <1>10, <2>0
  <2>3. e \in DraftType /\ e.rows = <<>>
    BY <1>12, <2>2 DEF DraftType
  <2> HIDE DEF e
  <2>4. o.all = [calm EXCEPT ![s] = e] /\ o.err = FALSE
    BY <1>14 DEF e
  <2>5. o.all \in [Rings -> DraftType] /\ o.all[s] = e /\ \A t \in Rings \ {s} : o.all[t] = calm[t]
    BY <1>4, <2>3, <2>4
  <2>6. o.err \in BOOLEAN
    BY <2>4
  <2> QED BY <1>5, <2>1, <2>3, <2>5, <2>6
<1>15. CASE o = [all |-> [calm EXCEPT ![s] = [Spoil(Max(cuts), n) EXCEPT
                                  !.last = newest, !.fault = TRUE]], err |-> FALSE]
  <2> DEFINE c == Max(cuts)
             v == Spoil(c, n)
             e == [v EXCEPT !.last = newest, !.fault = TRUE]
  <2>1. c \in 0 .. n
    <3>1. cuts \subseteq 0 .. n /\ 0 \in cuts
      <4>1. n > 0
        BY <1>1, <1>8 DEF n
      <4>2. 0 % ChunkRows = 0
        BY RingConstants
      <4> QED BY <1>12, <4>1, <4>2
    <3> HIDE DEF cuts
    <3> QED BY <1>12, <3>1, Greatest
  <2> HIDE DEF c
  <2>2. v \in DraftType /\ v.rows = <<>>
    <3>1. n \in c .. n
      BY <1>12, <2>1
    <3> QED BY <1>11, <2>1, <3>1
  <2> HIDE DEF v
  <2>3. e \in DraftType /\ e.rows = <<>> /\ e.fault
    <3>1. /\ e.ring = v.ring /\ e.writes = v.writes /\ e.rows = v.rows /\ e.last = newest
          /\ e.fault = TRUE /\ e.hidden = v.hidden /\ e.at = v.at
      BY <2>2 DEF DraftType
    <3>2. DOMAIN e = DOMAIN v /\ e = [i \in DOMAIN e |-> e[i]]
      OBVIOUS
    <3> HIDE DEF e
    <3>3. e.fault \in BOOLEAN
      BY <3>1
    <3>4. /\ e.ring \in [0 .. (RingRows - 1) -> [at : Int, row : RowValues]] /\ e.writes \in Nat
          /\ e.last \in Int /\ e.hidden \in Int /\ e.at \in Nat /\ e.rows \in Seq(RowValues)
      BY <1>12, <2>2, <3>1, DraftFields
    <3>5. e \in DraftType
      BY <2>2, <3>2, <3>3, <3>4, DraftIs
    <3> QED BY <2>2, <3>1, <3>5
  <2> HIDE DEF e
  <2>4. o.all = [calm EXCEPT ![s] = e] /\ o.err = FALSE
    BY <1>15 DEF e, v, c
  <2>5. o.all \in [Rings -> DraftType] /\ o.all[s] = e /\ \A t \in Rings \ {s} : o.all[t] = calm[t]
    BY <1>4, <2>3, <2>4
  <2>6. o.err \in BOOLEAN
    BY <2>4
  <2> QED BY <1>5, <2>3, <2>5, <2>6
<1>16. ASSUME NEW m \in cuts,
              o = [all |-> [calm EXCEPT ![s] = [Spoil(m, Min({n, m + ChunkRows})) EXCEPT
                                  !.writes = d.writes + m]], err |-> TRUE]
       PROVE  /\ o.all \in [Rings -> DraftType] /\ o.err
              /\ \A t \in Rings \ {s} : o.all[t] = calm[t]
              /\ o.all[s].rows = <<>>
  <2> DEFINE k == Min({n, m + ChunkRows})
             v == Spoil(m, k)
             e == [v EXCEPT !.writes = d.writes + m]
  <2>1. m \in 0 .. n /\ k \in m .. n
    <3>1. m \in 0 .. n /\ ChunkRows \in Nat
      BY <1>12, RingConstants
    <3>2. k = IF n <= m + ChunkRows THEN n ELSE m + ChunkRows
      BY <1>12, <3>1, TwoMin
    <3> HIDE DEF k
    <3> QED BY <1>12, <3>1, <3>2
  <2> HIDE DEF k
  <2>2. v \in DraftType /\ v.rows = <<>>
    BY <1>11, <2>1
  <2> HIDE DEF v
  <2>3. d.writes + m \in Nat
    BY <1>12, <2>1
  <2>4. e \in DraftType /\ e.rows = <<>>
    BY <2>2, <2>3 DEF DraftType
  <2> HIDE DEF e
  <2>5. o.all = [calm EXCEPT ![s] = e] /\ o.err = TRUE
    BY <1>16 DEF e, v, k
  <2>6. o.all \in [Rings -> DraftType] /\ o.all[s] = e /\ \A t \in Rings \ {s} : o.all[t] = calm[t]
    BY <1>4, <2>4, <2>5
  <2>7. o.err
    BY <2>5
  <2> QED BY <2>4, <2>6, <2>7
<1>17. CASE \E m \in cuts : o = [all |-> [calm EXCEPT ![s] = [Spoil(m, Min({n, m + ChunkRows})) EXCEPT
                                  !.writes = d.writes + m]], err |-> TRUE]
  <2> PICK m \in cuts : o = [all |-> [calm EXCEPT ![s] = [Spoil(m, Min({n, m + ChunkRows})) EXCEPT
                                  !.writes = d.writes + m]], err |-> TRUE]
    BY <1>17
  <2>1. /\ o.all \in [Rings -> DraftType] /\ o.err
        /\ \A t \in Rings \ {s} : o.all[t] = calm[t]
        /\ o.all[s].rows = <<>>
    BY <1>16
  <2>2. o.err \in BOOLEAN
    OBVIOUS
  <2> QED BY <1>5, <2>1, <2>2
<1>18. \/ o = [all |-> [calm EXCEPT ![s] = [Upto(n) EXCEPT !.last = newest]], err |-> FALSE]
       \/ o = [all |-> [calm EXCEPT ![s] = [Spoil(Max(cuts), n) EXCEPT
                                  !.last = newest, !.fault = TRUE]], err |-> FALSE]
       \/ \E m \in cuts : o = [all |-> [calm EXCEPT ![s] = [Spoil(m, Min({n, m + ChunkRows})) EXCEPT
                                  !.writes = d.writes + m]], err |-> TRUE]
  <2> HIDE DEF Upto, Spoil, cuts
  <2> QED BY <1>9, Zenon
<1> QED BY <1>14, <1>15, <1>17, <1>18

LEMMA FillIs ==
  ASSUME NEW all \in [Rings -> DraftType], NEW s \in Rings, NEW y \in FillRing(all, s),
         \A t \in Rings : ~ all[t].fault,
         all[s].rows # <<>> => Len(all[s].rows) <= RingRows /\ all[s].last < all[s].at
  PROVE  /\ y \in [Rings -> DraftType] /\ \A t \in Rings : ~ y[t].fault
         /\ \A t \in Rings \ {s} : y[t] = all[t]
         /\ \/ all[s].rows = <<>> /\ y[s] = all[s]
            \/ Restarted(y[s])
            \/ all[s].rows # <<>> /\ y[s] = Written(all[s])
<1>1. CASE all[s].rows = <<>>
  BY <1>1 DEF FillRing
<1>2. CASE all[s].rows # <<>>
  <2>1. PICK o \in WriteBacklog(all, s) :
          y = SettleWrites(IF o.err THEN [o.all EXCEPT ![s] = Reset(@)] ELSE o.all)
    BY <1>2 DEF FillRing
  <2>2. /\ o.all \in [Rings -> DraftType] /\ o.err \in BOOLEAN
        /\ \A t \in Rings \ {s} : o.all[t] = SettleWrites(all)[t]
        /\ o.err \/ o.all[s].fault \/ o.all[s] = Written(all[s])
    BY <1>2, WriteBacklogIs
  <2>3. \A t \in Rings \ {s} : o.all[t] = all[t]
    BY <2>2, SettleIs
  <2> DEFINE x == IF o.err THEN [o.all EXCEPT ![s] = Reset(@)] ELSE o.all
  <2>4. x \in [Rings -> DraftType] /\ \A t \in Rings \ {s} : x[t] = all[t]
    BY <2>2, <2>3, ResetIs
  <2>5. x[s] = IF o.err THEN Reset(o.all[s]) ELSE o.all[s]
    BY <2>2
  <2> HIDE DEF x
  <2>6. /\ y \in [Rings -> DraftType] /\ \A t \in Rings : ~ y[t].fault
        /\ \A t \in Rings : IF x[t].fault THEN Restarted(y[t]) ELSE y[t] = x[t]
    BY <2>1, <2>4, SettleIs DEF x
  <2>7. \A t \in Rings \ {s} : y[t] = all[t]
    BY <2>4, <2>6
  <2>8. Restarted(y[s]) \/ y[s] = Written(all[s])
    <3>1. CASE o.err
      <4>1. Restarted(x[s])
        BY <2>2, <2>5, <3>1, ResetIs DEF Restarted
      <4> QED BY <2>6, <4>1 DEF Restarted
    <3>2. CASE ~ o.err
      BY <2>2, <2>5, <2>6, <3>2
    <3> QED BY <3>1, <3>2
  <2> QED BY <1>2, <2>6, <2>7, <2>8
<1> QED BY <1>1, <1>2

(***************************************************************************)
(* The drafter's rings: a stream's memory through the calls                *)
(***************************************************************************)
LEMMA EntryType ==
  ASSUME NEW d \in DraftType, NEW q \in Nat
  PROVE  q % RingRows \in 0 .. (RingRows - 1) /\ Entry(d, q).at \in Int
<1>1. q % RingRows \in 0 .. (RingRows - 1)
  BY RingConstants, DivMod
<1> QED BY <1>1, DraftFields DEF Entry


\* The rows a step keeps join the backlog: it runs on to the stream's newest row.
Joined(e, h, ho, f, n) ==
  /\ e \in DraftType /\ ~ e.fault /\ BacklogGood(e, h) /\ RingGood(e, h, ho)
  /\ e.rows # <<>> /\ e.last < e.at
  /\ e.writes > 0 => ho \/ e.at = e.last + 1 \/ Len(e.rows) = RingRows
  /\ ho \/ Reach(e, f)
  /\ e.at + Len(e.rows) = n

LEMMA HoldGood ==
  ASSUME NEW d \in DraftType, NEW h, NEW ho \in BOOLEAN, NEW f \in Int, NEW told \in Nat,
         DraftGood(d, h, ho, f, told), ~ d.fault, NEW new, RunOf(new, h, told), new # <<>>
  PROVE  Joined(Hold(d, told, new), h, ho, f, told + Len(new))
<1> DEFINE e == Hold(d, told, new)
           runs == d.rows # <<>> /\ d.at + Len(d.rows) = told
           base == IF runs THEN d.at ELSE told
           W == RingRows
           l == Len(d.rows)
           k == Len(e.rows)
<1>0. HoldsOn(e, d, h, told, new) /\ BacklogGood(d, h)
  <2>1. BacklogGood(d, h)
    BY DEF DraftGood
  <2> QED BY <2>1, HoldIs
<1>1. /\ e \in DraftType
      /\ e.ring = d.ring /\ e.writes = d.writes /\ e.last = d.last /\ e.hidden = d.hidden
      /\ e.fault = d.fault
      /\ BacklogGood(e, h)
      /\ e.at + Len(e.rows) = told + Len(new) /\ e.at >= base
      /\ e.at = base \/ Len(e.rows) = RingRows
      /\ runs => Len(e.rows) >= Len(d.rows)
      /\ e.rows # <<>>
  BY <1>0 DEF HoldsOn
<1>2. RingGood(d, h, ho) /\ Meets(d, ho) /\ (ho \/ Reach(d, f)) /\ d.hidden < told
      /\ BacklogGood(d, h)
  BY DEF DraftGood
<1> HIDE DEF e
<1>3. RingGood(e, h, ho)
  <2>1. HeldWrites(e) = HeldWrites(d) /\ \A q : Entry(e, q) = Entry(d, q)
    BY <1>1 DEF HeldWrites, Entry
  <2> QED BY <1>1, <1>2, <2>1 DEF RingGood
<1>4. /\ W \in Nat \ {0} /\ d.at \in Nat /\ d.last \in Int /\ d.hidden \in Int /\ d.writes \in Nat
      /\ l \in Nat /\ k \in Nat /\ e.at \in Nat /\ l <= W
  <2>1. d.rows \in Seq(RowValues) /\ e.rows \in Seq(RowValues) /\ e.at \in Nat
    BY <1>1, DraftFields
  <2> QED BY <1>2, <2>1, RingConstants, DraftFields DEF BacklogGood
<1>5. k <= W
  BY <1>1 DEF BacklogGood
<1>6. d.rows = <<>> \/ (d.last < d.at /\ d.at + l - 1 = d.hidden /\ l > 0)
  <2>1. d.rows # <<>> => l > 0
    BY <1>4, DraftFields
  <2> QED BY <1>2, <2>1 DEF Meets
<1>7. d.rows = <<>> => (d.writes = 0 /\ d.hidden = NoRow) \/ (d.writes > 0 /\ d.last = d.hidden)
  BY <1>2, <1>4 DEF Meets
<1>8. d.writes = 0 => d.last = NoRow
  BY <1>2 DEF RingGood
<1>9. base \in Nat
  BY <1>4
<1>10. e.last < e.at
  <2>1. d.last < base
    <3>1. CASE d.rows = <<>>
      BY <1>4, <1>2, <1>7, <1>8, <3>1 DEF NoRow
    <3>2. CASE d.rows # <<>> /\ runs
      BY <1>6, <3>2
    <3>3. CASE d.rows # <<>> /\ ~ runs
      BY <1>2, <1>4, <1>6, <3>3
    <3> QED BY <3>1, <3>2, <3>3
  <2> HIDE DEF base
  <2> QED BY <1>1, <1>4, <1>9, <2>1
<1>11. ASSUME ~ ho
       PROVE  IF d.hidden = NoRow THEN f >= told ELSE d.hidden = told - 1
  BY <1>11 DEF DraftGood
<1>12. ASSUME ~ ho, d.rows # <<>> PROVE runs
  <2>1. d.hidden # NoRow
    BY <1>4, <1>6, <1>12 DEF NoRow
  <2>2. d.hidden = told - 1
    BY <1>11, <1>12, <2>1
  <2>3. d.at + l - 1 = d.hidden
    BY <1>6, <1>12
  <2>4. d.at + l = told
    <3> DEFINE a == d.at
               b == d.hidden
    <3>1. a \in Int /\ l \in Int /\ b = told - 1 /\ a + l - 1 = b
      BY <1>4, <2>2, <2>3
    <3> HIDE DEF l, a, b
    <3>2. a + l = told
      BY <3>1
    <3> QED BY <3>2 DEF a
  <2> QED BY <1>12, <2>4
<1>13. ASSUME ~ ho, e.writes > 0 PROVE e.at = e.last + 1 \/ k = W
  <2>1. CASE d.rows = <<>>
    <3>1. d.last = d.hidden /\ d.last \in Nat
      BY <1>1, <1>2, <1>4, <1>7, <1>13, <2>1 DEF RingGood
    <3>2. d.hidden = told - 1
      BY <1>11, <1>13, <3>1 DEF NoRow
    <3>3. base = told
      BY <2>1
    <3> QED BY <1>1, <1>4, <3>1, <3>2, <3>3
  <2>2. CASE d.rows # <<>>
    <3>1. runs
      BY <1>12, <1>13, <2>2
    <3>2. d.at = d.last + 1 \/ l = W
      BY <1>1, <1>2, <1>13, <2>2 DEF Meets
    <3>3. base = d.at /\ k >= l
      BY <1>1, <3>1
    <3> HIDE DEF base, runs
    <3> QED BY <1>1, <1>4, <1>5, <3>2, <3>3
  <2> QED BY <2>1, <2>2
<1>14. ASSUME ~ ho PROVE Reach(e, f)
  <2>1. Reach(d, f)
    BY <1>2, <1>14
  <2>2. CASE d.writes = 0 /\ d.rows = <<>>
    <3>1. base = told /\ f >= told
      BY <1>7, <1>11, <1>14, <2>2
    <3> QED BY <1>1, <1>4, <2>2, <3>1 DEF Reach
  <2>3. CASE d.writes = 0 /\ d.rows # <<>>
    <3>1. base = d.at /\ k >= l /\ (d.at <= f \/ l = W)
      BY <1>1, <1>12, <1>14, <2>1, <2>3 DEF Reach
    <3> HIDE DEF base
    <3>2. e.at <= f \/ k = W
      BY <1>1, <1>4, <1>5, <3>1
    <3> QED BY <1>1, <2>3, <3>2 DEF Reach
  <2>4. CASE d.writes # 0
    <3>1. l = W \/ d.writes >= W \/ d.last - d.writes + 1 <= f
      BY <2>1, <2>4 DEF Reach
    <3>2. l = W => k = W
      <4>1. l = W => d.rows # <<>>
        BY <1>4
      <4> QED BY <1>1, <1>4, <1>5, <1>12, <1>14, <4>1
    <3> QED BY <1>1, <2>4, <3>1, <3>2 DEF Reach
  <2> QED BY <2>2, <2>3, <2>4
<1>15. ~ e.fault
  BY <1>1
<1> QED BY <1>1, <1>3, <1>10, <1>13, <1>14, <1>15 DEF e, Joined

\* The hidden row of the next draft is the stream's newest.
Hiding(d, n) == [d EXCEPT !.hidden = n - 1]

LEMMA HiddenGood ==
  ASSUME NEW d \in DraftType, NEW h, NEW ho \in BOOLEAN, NEW f \in Int, NEW told \in Nat \ {0},
         \/ Joined(d, h, ho, f, told)
         \/ /\ BacklogGood(d, h) /\ RingGood(d, h, ho) /\ (ho \/ Reach(d, f))
            /\ d.rows = <<>> /\ d.writes > 0 /\ d.last = told - 1
  PROVE  /\ Hiding(d, told) \in DraftType /\ Hiding(d, told).fault = d.fault
         /\ Hiding(d, told).hidden = told - 1
         /\ DraftGood(Hiding(d, told), h, ho, f, told)
<1>0. /\ BacklogGood(d, h) /\ RingGood(d, h, ho) /\ (ho \/ Reach(d, f))
      /\ IF d.rows = <<>> THEN d.writes > 0 /\ d.last = told - 1
         ELSE /\ d.last < d.at /\ d.at + Len(d.rows) = told
              /\ d.writes > 0 => ho \/ d.at = d.last + 1 \/ Len(d.rows) = RingRows
  BY DEF Joined
<1> DEFINE x == Hiding(d, told)
<1>1. told - 1 \in Nat
  OBVIOUS
<1>2. /\ x \in DraftType /\ x.hidden = told - 1 /\ x.ring = d.ring /\ x.writes = d.writes
      /\ x.last = d.last /\ x.at = d.at /\ x.rows = d.rows /\ x.fault = d.fault
  BY <1>1 DEF DraftType, Hiding
<1> HIDE DEF x
<1>3. RingGood(x, h, ho)
  <2>1. HeldWrites(x) = HeldWrites(d) /\ \A q : Entry(x, q) = Entry(d, q)
    BY <1>2 DEF HeldWrites, Entry
  <2> QED BY <1>0, <1>2, <2>1 DEF RingGood
<1>4. BacklogGood(x, h)
  BY <1>0, <1>2 DEF BacklogGood
<1>5. ho \/ Reach(x, f)
  BY <1>0, <1>2 DEF Reach
<1>6. x.hidden # NoRow /\ x.hidden < told
  BY <1>1, <1>2 DEF NoRow
<1>7. Meets(x, ho)
  <2>1. CASE d.rows = <<>>
    BY <1>0, <1>2, <1>6, <2>1 DEF Meets
  <2>2. CASE d.rows # <<>>
    <3>1. d.at + Len(d.rows) - 1 = told - 1
      <4>1. Len(d.rows) \in Nat /\ d.at \in Nat
        BY DraftFields
      <4> QED BY <1>0, <2>2, <4>1
    <3> QED BY <1>0, <1>2, <1>6, <2>2, <3>1 DEF Meets
  <2> QED BY <2>1, <2>2
<1> QED BY <1>2, <1>3, <1>4, <1>5, <1>6, <1>7 DEF DraftGood, x

\* A backlog written whole before a draft.
LEMMA FilledGood ==
  ASSUME NEW d \in DraftType, NEW h, NEW ho \in BOOLEAN, NEW f \in Int, NEW told \in Nat,
         DraftGood(d, h, ho, f, told), ~ d.fault, d.rows # <<>>
  PROVE  LET e == Written(d)
         IN /\ e \in DraftType /\ e.fault = d.fault /\ e.hidden = d.hidden
            /\ e.rows = <<>> /\ DraftGood(e, h, ho, f, told)
<1> DEFINE e == Written(d)
<1>1. /\ BacklogGood(d, h) /\ RingGood(d, h, ho) /\ Meets(d, ho) /\ (ho \/ Reach(d, f))
      /\ d.hidden < told
  BY DEF DraftGood
<1>2. d.last < d.at /\ (d.writes > 0 => ho \/ d.at = d.last + 1 \/ Len(d.rows) = RingRows)
      /\ d.hidden = d.at + Len(d.rows) - 1 /\ d.hidden # NoRow
  BY <1>1 DEF Meets
<1>3. /\ e \in DraftType
      /\ e.rows = <<>> /\ e.writes > 0 /\ e.last = d.at + Len(d.rows) - 1
      /\ e.fault = d.fault /\ e.hidden = d.hidden
      /\ RingGood(e, h, ho) /\ (ho \/ Reach(e, f))
  BY <1>1, <1>2, WriteGood DEF Written
<1> HIDE DEF e
<1>4. BacklogGood(e, h)
  BY <1>3, RingConstants DEF BacklogGood
<1>5. Meets(e, ho)
  BY <1>2, <1>3 DEF Meets
<1>6. ho \/ d.fault \/ IF e.hidden = NoRow THEN f >= told ELSE e.hidden = told - 1
  BY <1>3 DEF DraftGood
<1>7. DraftGood(e, h, ho, f, told)
  BY <1>1, <1>3, <1>4, <1>5, <1>6 DEF DraftGood
<1> QED BY <1>3, <1>7 DEF e

LEMMA PutOne ==
  ASSUME NEW d \in DraftType, NEW p \in Nat, NEW row \in Seq(RowValues), Len(row) = 1
  PROVE  LET e == Put(d, p, row)
         IN /\ e \in DraftType /\ e = [d EXCEPT !.ring = e.ring, !.writes = d.writes + 1]
            /\ \A q \in HeldWrites(e) :
                 IF q >= d.writes
                 THEN Entry(e, q) = [at |-> p + (q - d.writes), row |-> row[q - d.writes + 1]]
                 ELSE Entry(e, q) = Entry(d, q) /\ q \in HeldWrites(d)
<1> DEFINE e == Put(d, p, row)
           nn == Len(row)
<1>1. nn <= RingRows /\ nn = 1
  BY RingConstants
<1>2. row \in Seq(RowValues)
  OBVIOUS
<1> HIDE DEF nn
<1>3. /\ e \in DraftType /\ e = [d EXCEPT !.ring = e.ring, !.writes = d.writes + nn]
      /\ \A q \in HeldWrites(e) :
           IF q >= d.writes
           THEN Entry(e, q) = [at |-> p + (q - d.writes), row |-> row[q - d.writes + 1]]
           ELSE Entry(e, q) = Entry(d, q) /\ q \in HeldWrites(d)
  BY <1>1, <1>2, PutIs DEF nn
<1> HIDE DEF e
<1> QED BY <1>1, <1>3 DEF e

\* A draft writes the row of the stream's newest position again, in its place.
LEMMA DraftedGood ==
  ASSUME NEW d \in DraftType, NEW h \in Nat, NEW ho \in BOOLEAN, NEW f \in Int, NEW told \in Nat,
         DraftGood(d, h, ho, f, told), ~ d.fault, d.rows = <<>>, NEW p \in Nat, d.hidden = p,
         NEW row \in Seq(RowValues), Len(row) = 1, row[1] = <<h, p>>
  PROVE  /\ d.last = p /\ d.writes > 0
         /\ LET after == Put([d EXCEPT !.writes = d.writes - 1], p, row)
                x == [after EXCEPT !.last = p]
            IN /\ x \in DraftType /\ x.fault = d.fault /\ x.rows = <<>> /\ x.hidden = p
               /\ x.writes = d.writes /\ x.ring = after.ring /\ x.last = p
               /\ DraftGood(x, h, ho, f, told)
<1> DEFINE w == d.writes
           c == [d EXCEPT !.writes = w - 1]
           after == Put(c, p, row)
           x == [after EXCEPT !.last = p]
<1>1. /\ BacklogGood(d, h) /\ RingGood(d, h, ho) /\ Meets(d, ho) /\ (ho \/ Reach(d, f))
      /\ d.hidden < told
  BY DEF DraftGood
<1>2. d.last = p /\ w > 0
  BY <1>1 DEF Meets, NoRow
<1>3. w \in Nat \ {0} /\ w - 1 \in Nat /\ Len(row) = 1 /\ row[1] = <<h, p>> /\ RingRows \in Nat \ {0}
  BY <1>2, RingConstants, DraftFields
<1>4. /\ c \in DraftType /\ c.ring = d.ring /\ c.writes = w - 1 /\ c.rows = <<>>
      /\ c.fault = d.fault /\ c.hidden = d.hidden /\ c.at = d.at
  BY <1>3 DEF DraftType
<1> HIDE DEF c
<1>5. /\ after \in DraftType /\ after = [c EXCEPT !.ring = after.ring, !.writes = c.writes + 1]
      /\ \A q \in HeldWrites(after) :
           IF q >= c.writes
           THEN Entry(after, q) = [at |-> p + (q - c.writes), row |-> row[q - c.writes + 1]]
           ELSE Entry(after, q) = Entry(c, q) /\ q \in HeldWrites(c)
  <2>1. c \in DraftType
    BY <1>4
  <2> QED BY <2>1, PutOne
<1> HIDE DEF after
<1>6. /\ after.writes = w /\ after.rows = <<>> /\ after.fault = d.fault /\ after.hidden = d.hidden
  <2>1. c.writes + 1 = w
    BY <1>3, <1>4
  <2> QED BY <1>4, <1>5, <2>1 DEF DraftType
<1>7. /\ x \in DraftType /\ x.last = p /\ x.ring = after.ring /\ x.writes = w /\ x.rows = <<>>
      /\ x.fault = d.fault /\ x.hidden = d.hidden
  <2>1. p \in Int
    OBVIOUS
  <2> QED BY <1>5, <1>6, <2>1 DEF DraftType
<1> HIDE DEF x
<1>8. HeldWrites(x) = HeldWrites(d) /\ HeldWrites(after) = HeldWrites(d)
  BY <1>6, <1>7 DEF HeldWrites
<1>9. ASSUME NEW q \in HeldWrites(d)
      PROVE  Entry(x, q).at = Entry(d, q).at /\ Entry(x, q).row = Entry(d, q).row
  <2>1. q \in Nat /\ q <= w - 1
    BY <1>3 DEF HeldWrites
  <2>2. Entry(x, q) = Entry(after, q) /\ Entry(c, q) = Entry(d, q)
    BY <1>4, <1>7 DEF Entry
  <2>3. CASE q = w - 1
    <3>1. Entry(after, q) = [at |-> p + (q - c.writes), row |-> row[q - c.writes + 1]]
      <4>1. q >= c.writes /\ q \in HeldWrites(after)
        BY <1>3, <1>4, <1>8, <2>3
      <4> QED BY <1>5, <4>1
    <3>2. p + (q - c.writes) = p /\ q - c.writes + 1 = 1
      BY <1>3, <1>4, <2>3
    <3>3. Entry(after, q) = [at |-> p, row |-> <<h, p>>]
      BY <1>3, <3>1, <3>2
    <3>4. Entry(d, q).at = p
      BY <1>1, <1>2, <2>3 DEF RingGood
    <3>5. Entry(d, q).row = <<h, p>>
      BY <1>1, <3>4 DEF RingGood
    <3> QED BY <2>2, <3>3, <3>4, <3>5
  <2>4. CASE q # w - 1
    <3>1. ~ (q >= c.writes)
      BY <1>3, <1>4, <2>1, <2>4
    <3> QED BY <1>5, <1>8, <2>2, <3>1
  <2> QED BY <2>3, <2>4
<1>10. RingGood(x, h, ho)
  <2>1. w - 1 \in HeldWrites(d)
    BY <1>3 DEF HeldWrites
  <2>2. x.writes > 0 => x.last \in Nat /\ Entry(x, x.writes - 1).at = x.last
    BY <1>1, <1>2, <1>7, <1>9, <2>1 DEF RingGood
  <2>3. x.writes # 0
    BY <1>3, <1>7
  <2>4. \A q \in HeldWrites(x) : Entry(x, q).row = <<h, Entry(x, q).at>>
    BY <1>1, <1>8, <1>9 DEF RingGood
  <2>5. \A q, r \in HeldWrites(x) : q < r => Entry(x, q).at < Entry(x, r).at
    BY <1>1, <1>8, <1>9 DEF RingGood
  <2>6. ho \/ \A q \in HeldWrites(x) : Entry(x, q).at = x.last - (x.writes - 1 - q)
    BY <1>1, <1>2, <1>7, <1>8, <1>9 DEF RingGood
  <2> QED BY <2>2, <2>3, <2>4, <2>5, <2>6 DEF RingGood
<1>11. BacklogGood(x, h)
  BY <1>7, RingConstants DEF BacklogGood
<1>12. Meets(x, ho)
  BY <1>2, <1>7 DEF Meets, NoRow
<1>13. ho \/ Reach(x, f)
  BY <1>1, <1>2, <1>7 DEF Reach
<1>14. ho \/ d.fault \/ IF x.hidden = NoRow THEN f >= told ELSE x.hidden = told - 1
  BY <1>7 DEF DraftGood
<1>15. DraftGood(x, h, ho, f, told)
  BY <1>1, <1>7, <1>10, <1>11, <1>12, <1>13, <1>14 DEF DraftGood
<1> QED BY <1>2, <1>7, <1>15 DEF x, after, c

\* What DraftsSeeNewestRows says of the rows w that a draft of the stream of n
\* rows attends to.
SeenGood(w, h, n, ho, f) ==
  LET at == {w[i].at : i \in DOMAIN w}
  IN /\ \A i \in DOMAIN w : w[i].row = <<h, w[i].at>>
     /\ Cardinality(at) = Cardinality(DOMAIN w)
     /\ Max(at) = n - 1
     /\ ho \/ (at = Min(at) .. Max(at) /\ Min(at) <= Max({f, n - RingRows}))

\* The ring has a place for each write it holds, and no other place is filled.
LEMMA PlacesHeld ==
  ASSUME NEW d \in DraftType, d.writes > 0
  PROVE  LET m == IF RingRows <= d.writes THEN RingRows ELSE d.writes
         IN /\ m \in Nat \ {0} /\ HeldWrites(d) = (d.writes - m) .. (d.writes - 1)
            /\ \A q \in HeldWrites(d) : q % RingRows \in 0 .. (m - 1)
            /\ \A i \in 0 .. (m - 1) : \E q \in HeldWrites(d) : q % RingRows = i
<1> DEFINE W == RingRows
           w == d.writes
           m == IF W <= w THEN W ELSE w
<1>1. W \in Nat \ {0} /\ w \in Nat \ {0}
  BY RingConstants, DraftFields
<1>2. HeldWrites(d) = {q \in 0 .. (w - 1) : q >= w - W}
  BY DEF HeldWrites
<1> HIDE DEF W, w
<1>3. m \in Nat \ {0} /\ HeldWrites(d) = (w - m) .. (w - 1)
  BY <1>1, <1>2
<1>4. ASSUME NEW q \in Nat, q < W PROVE q % W = q
  <2>1. q = W * 0 + q
    BY <1>1
  <2> QED BY <1>1, <1>4, <2>1, DivIs
<1>5. ASSUME NEW q \in HeldWrites(d)
      PROVE  q % W \in 0 .. (m - 1)
  <2>1. q \in Nat /\ q <= w - 1
    BY <1>1, <1>2
  <2>2. CASE W <= w
    BY <1>1, <2>1, <2>2, DivMod
  <2>3. CASE ~ (W <= w)
    BY <1>1, <1>4, <2>1, <2>3
  <2> QED BY <2>2, <2>3
<1>6. ASSUME NEW i \in 0 .. (m - 1)
      PROVE  \E q \in HeldWrites(d) : q % W = i
  <2>1. CASE ~ (W <= w)
    <3>1. i \in HeldWrites(d) /\ i \in Nat /\ i < W
      BY <1>1, <1>2, <2>1
    <3> QED BY <1>4, <3>1
  <2>2. CASE W <= w
    <3> DEFINE a == w - 1 - i
               p == a \div W
               y == a % W
               q == w - 1 - y
    <3>1. a \in Nat /\ i \in 0 .. (W - 1)
      BY <1>1, <2>2
    <3>2. p \in Nat /\ y \in 0 .. (W - 1) /\ a = W * p + y
      BY <1>1, <3>1, DivMod
    <3> HIDE DEF p, y
    <3>3. q \in HeldWrites(d)
      <4>1. y <= W - 1 /\ y \in Nat
        BY <1>1, <3>2
      <4> QED BY <1>1, <1>2, <2>2, <4>1
    <3>4. q % W = i
      <4>1. W * p \in Int
        BY <1>1, <3>2
      <4> DEFINE z == W * p
      <4>2. q = z + i
        <5> HIDE DEF z
        <5>1. a = z + y /\ z \in Int
          BY <3>2, <4>1 DEF z
        <5> QED BY <1>1, <3>1, <3>2, <5>1
      <4>3. q \in Nat
        BY <1>1, <1>2, <3>3
      <4> HIDE DEF q
      <4> QED BY <1>1, <3>1, <3>2, <4>2, <4>3, DivIs
    <3> HIDE DEF q
    <3> QED BY <3>3, <3>4
  <2> QED BY <2>1, <2>2
<1> QED BY <1>3, <1>5, <1>6 DEF W, w

\* A ring that is good, and whose last row is the newest one, shows a draft what
\* it should see.
LEMMA WindowSeen ==
  ASSUME NEW d \in DraftType, d.writes > 0, d.rows = <<>>, NEW h, NEW ho \in BOOLEAN,
         NEW f \in Int, RingGood(d, h, ho), ho \/ Reach(d, f), NEW n \in Int, d.last = n - 1,
         NEW m, m = IF RingRows <= d.writes THEN RingRows ELSE d.writes,
         NEW w, w = [i \in 0 .. (m - 1) |-> d.ring[i]]
  PROVE  SeenGood(w, h, n, ho, f) /\ w # NoWin
<1> DEFINE W == RingRows
           k == d.writes
           at == {w[i].at : i \in DOMAIN w}
           H == HeldWrites(d)
<1>1. W \in Nat \ {0} /\ k \in Nat \ {0} /\ d.last \in Nat
  BY RingConstants, DraftFields DEF RingGood
<1>2. /\ m \in Nat \ {0} /\ H = (k - m) .. (k - 1)
      /\ \A q \in H : q % W \in 0 .. (m - 1)
      /\ \A i \in 0 .. (m - 1) : \E q \in H : q % W = i
  BY PlacesHeld
<1>3. DOMAIN w = 0 .. (m - 1) /\ \A i \in 0 .. (m - 1) : w[i] = d.ring[i]
  OBVIOUS
<1>4. \A q \in H : q \in Nat /\ Entry(d, q).at \in Int /\ w[q % W] = Entry(d, q)
  <2>1. \A q \in H : q \in Nat
    BY <1>1 DEF HeldWrites
  <2>2. \A q \in H : w[q % W] = Entry(d, q)
    BY <1>2, <1>3 DEF Entry
  <2> QED BY <2>1, <2>2, EntryType
<1> HIDE DEF H
<1>5. at = {Entry(d, q).at : q \in H}
  <2>1. \A i \in 0 .. (m - 1) : \E q \in H : w[i].at = Entry(d, q).at
    BY <1>2, <1>4
  <2>2. \A q \in H : \E i \in 0 .. (m - 1) : w[i].at = Entry(d, q).at
    BY <1>2, <1>4
  <2> QED BY <1>3, <2>1, <2>2
<1>6. ASSUME NEW i \in DOMAIN w PROVE w[i].row = <<h, w[i].at>>
  <2>1. PICK q \in H : q % W = i
    BY <1>2, <1>3, <1>6
  <2>2. w[i] = Entry(d, q)
    BY <1>4, <2>1
  <2>3. Entry(d, q).row = <<h, Entry(d, q).at>>
    BY DEF RingGood, H
  <2> QED BY <2>2, <2>3
<1>7. \A q, r \in H : q < r => Entry(d, q).at < Entry(d, r).at
  BY DEF RingGood, H
<1>8. Cardinality(at) = Cardinality(DOMAIN w)
  <2> DEFINE g == [i \in DOMAIN w |-> w[i].at]
  <2>1. g \in Surjection(DOMAIN w, at)
    BY DEF Surjection
  <2>2. \A i, j \in DOMAIN w : g[i] = g[j] => i = j
    <3> SUFFICES ASSUME NEW i \in DOMAIN w, NEW j \in DOMAIN w, w[i].at = w[j].at
                 PROVE  i = j
      OBVIOUS
    <3>1. PICK q \in H : q % W = i
      BY <1>2, <1>3
    <3>2. PICK r \in H : r % W = j
      BY <1>2, <1>3
    <3>3. Entry(d, q).at = Entry(d, r).at
      BY <1>4, <3>1, <3>2
    <3> DEFINE x == Entry(d, q).at
               y == Entry(d, r).at
    <3>6. q \in Nat /\ r \in Nat /\ x \in Int /\ y \in Int
      BY <1>4
    <3>7. (q < r => x < y) /\ (r < q => y < x) /\ x = y
      BY <1>7, <3>3
    <3> HIDE DEF x, y
    <3>5. q = r
      BY <3>6, <3>7
    <3> QED BY <3>1, <3>2, <3>5
  <2>5. g \in [DOMAIN w -> at] /\ DOMAIN g = DOMAIN w
    OBVIOUS
  <2>3. g \in Injection(DOMAIN w, at)
    <3> HIDE DEF g, at
    <3> QED BY <2>2, <2>5 DEF Injection, IsInjective
  <2>4. IsFiniteSet(DOMAIN w)
    <3>1. 0 \in Int /\ m - 1 \in Int
      BY <1>2
    <3> QED BY <1>3, <3>1, FS_Interval
  <2> HIDE DEF at
  <2> QED BY <2>1, <2>3, <2>4, FS_Surjection
<1>9. k - 1 \in H /\ Entry(d, k - 1).at = n - 1
  BY <1>1, <1>2 DEF RingGood
<1>10. Max(at) = n - 1
  <2>1. at \subseteq Int /\ n - 1 \in at
    BY <1>4, <1>5, <1>9
  <2>2. ASSUME NEW q \in H PROVE Entry(d, q).at <= n - 1
    <3>1. CASE q = k - 1
      BY <1>9, <3>1
    <3>2. CASE q # k - 1
      <4>1. q < k - 1
        <5>1. q \in (k - m) .. (k - 1) /\ k \in Int /\ m \in Int
          BY <1>1, <1>2
        <5> HIDE DEF k
        <5> QED BY <3>2, <5>1
      <4>2. Entry(d, q).at < Entry(d, k - 1).at
        BY <1>7, <1>9, <4>1
      <4> DEFINE x == Entry(d, q).at
      <4>3. x \in Int /\ x < n - 1
        BY <1>4, <1>9, <4>2
      <4> HIDE DEF x
      <4>4. x <= n - 1
        BY <4>3
      <4> QED BY <4>4 DEF x
    <3> QED BY <3>1, <3>2
  <2>3. \A y \in at : y <= n - 1
    BY <1>5, <2>2
  <2> HIDE DEF at
  <2> QED BY <2>1, <2>3, MaxIs
<1>11. ASSUME ~ ho
       PROVE  at = Min(at) .. Max(at) /\ Min(at) <= Max({f, n - W})
  <2>1. \A q \in H : Entry(d, q).at = d.last - (k - 1 - q)
    BY <1>11 DEF RingGood, H
  <2>2. at = (n - m) .. (n - 1)
    <3>1. \A q \in H : Entry(d, q).at = (n - 1) - (k - 1 - q)
      BY <2>1
    <3>2. ASSUME NEW q \in H PROVE Entry(d, q).at \in (n - m) .. (n - 1)
      <4>1. q \in (k - m) .. (k - 1) /\ k \in Int /\ m \in Int
        BY <1>1, <1>2
      <4>2. Entry(d, q).at = (n - 1) - (k - 1 - q)
        BY <3>1
      <4> HIDE DEF k
      <4>3. (n - 1) - (k - 1 - q) \in (n - m) .. (n - 1)
        BY <4>1
      <4> QED BY <4>2, <4>3
    <3>3. ASSUME NEW x \in (n - m) .. (n - 1)
          PROVE  \E q \in H : Entry(d, q).at = x
      <4> DEFINE q == x - n + k
      <4>1. q \in (k - m) .. (k - 1) /\ (n - 1) - (k - 1 - q) = x
        BY <1>1, <1>2
      <4> HIDE DEF q
      <4> QED BY <1>2, <3>1, <4>1
    <3> HIDE DEF at
    <3> QED BY <1>5, <3>2, <3>3
  <2> HIDE DEF at
  <2>3. Min(at) = n - m
    <3>1. at \subseteq Int /\ n - m \in at /\ \A y \in at : y >= n - m
      BY <1>2, <2>2
    <3> QED BY <3>1, MinIs
  <2>4. n - m <= f \/ n - m <= n - W
    <3>1. Reach(d, f)
      BY <1>11
    <3>2. d.rows = <<>> => Len(d.rows) # W
      BY <1>1
    <3>3. k >= W \/ d.last - k + 1 <= f
      BY <1>1, <3>1, <3>2 DEF Reach
    <3> QED BY <1>1, <3>3
  <2>5. n - m <= Max({f, n - W})
    <3> DEFINE b == n - W
               a == n - m
    <3>1. b \in Int /\ a \in Int /\ (a <= f \/ a <= b)
      BY <1>1, <1>2, <2>4
    <3> HIDE DEF a, b
    <3>2. Max({f, b}) = IF f >= b THEN f ELSE b
      BY <3>1, TwoMin, Zenon
    <3>3. a <= Max({f, b})
      BY <3>1, <3>2
    <3> QED BY <3>3 DEF a, b
  <2> QED BY <1>10, <2>2, <2>3, <2>5
<1>12. w # NoWin
  <2>1. 0 \in DOMAIN w
    BY <1>2, <1>3
  <2>2. DOMAIN NoWin = {}
    BY DEF NoWin
  <2> QED BY <2>1, <2>2
<1> QED BY <1>6, <1>8, <1>10, <1>11, <1>12 DEF SeenGood

(***************************************************************************)
(* The drafter's rings: a ring nobody touches                              *)
(***************************************************************************)
\* The first row a ring can hold, once restarted, is the stream's next one (n).
LEMMA FromGood ==
  ASSUME NEW d \in DraftType, NEW h, NEW ho \in BOOLEAN, NEW f \in Int, NEW told \in Nat,
         DraftGood(d, h, ho, f, told), NEW n \in Nat, told <= n
  PROVE  DraftGood(d, h, ho, IF d.hidden = NoRow THEN n ELSE f, told)
<1>1. CASE d.hidden = NoRow
  <2>1. d.fault \/ Reach(d, n)
    BY <1>1 DEF DraftGood, Meets, Reach
  <2>2. ho \/ d.fault \/ n >= told
    OBVIOUS
  <2>3. d.fault \/ (RingGood(d, h, ho) /\ Meets(d, ho))
    BY DEF DraftGood
  <2>4. BacklogGood(d, h) /\ d.hidden < told
    BY DEF DraftGood
  <2>5. d.fault \/ (RingGood(d, h, ho) /\ Meets(d, ho) /\ (ho \/ Reach(d, n)))
    BY <2>1, <2>3
  <2>6. DraftGood(d, h, ho, n, told)
    BY <1>1, <2>2, <2>4, <2>5 DEF DraftGood
  <2> QED BY <1>1, <2>6
<1>2. CASE d.hidden # NoRow
  BY <1>2
<1> QED BY <1>1, <1>2

\* Settling restarts the ring if a write of it failed, and else leaves it.
LEMMA SettleGood ==
  ASSUME NEW all \in [Rings -> DraftType], NEW t \in Rings, NEW h, NEW ho \in BOOLEAN,
         NEW f \in Int, NEW told \in Nat, DraftGood(all[t], h, ho, f, told),
         NEW n \in Nat, told <= n
  PROVE  DraftGood(SettleWrites(all)[t], h, ho,
                   IF SettleWrites(all)[t].hidden = NoRow THEN n ELSE f, told)
<1> DEFINE e == SettleWrites(all)[t]
           d == all[t]
<1>1. e \in DraftType /\ d \in DraftType /\ IF d.fault THEN Restarted(e) ELSE e = d
  BY SettleIs
<1> HIDE DEF e, d
<1>2. CASE d.fault
  <2>1. e.hidden = NoRow /\ Restarted(e)
    BY <1>1, <1>2 DEF Restarted
  <2>2. DraftGood(e, h, ho, n, told)
    BY <1>1, <2>1, RestartGood
  <2> QED BY <2>1, <2>2 DEF e
<1>3. CASE ~ d.fault
  <2>1. e = d /\ DraftGood(d, h, ho, f, told)
    BY <1>1, <1>3 DEF d
  <2>2. DraftGood(d, h, ho, IF d.hidden = NoRow THEN n ELSE f, told)
    BY <1>1, <2>1, FromGood
  <2> QED BY <2>1, <2>2 DEF e
<1> QED BY <1>2, <1>3

\* A failed readback: rows of the stream that the drafter is never told.
LEMMA MissedGood ==
  ASSUME NEW d \in DraftType, NEW h, NEW ho \in BOOLEAN, NEW f \in Int, NEW told \in Nat,
         DraftGood(d, h, ho, f, told), NEW n \in Nat, told <= n
  PROVE  DraftGood(d, h, TRUE, f, n)
<1>1. RingGood(d, h, ho) => RingGood(d, h, TRUE)
  BY DEF RingGood
<1>2. Meets(d, ho) => Meets(d, TRUE)
  BY DEF Meets
<1>3. d.hidden < n
  BY DraftFields DEF DraftGood
<1> QED BY <1>1, <1>2, <1>3 DEF DraftGood

\* fill writes the whole backlog, or restarts the ring.
LEMMA FillGood ==
  ASSUME NEW all \in [Rings -> DraftType], NEW s \in Rings, NEW y \in FillRing(all, s),
         \A t \in Rings : ~ all[t].fault, NEW h, NEW ho \in BOOLEAN, NEW f \in Int,
         NEW told \in Nat, DraftGood(all[s], h, ho, f, told)
  PROVE  /\ y \in [Rings -> DraftType] /\ \A t \in Rings : ~ y[t].fault
         /\ \A t \in Rings \ {s} : y[t] = all[t]
         /\ y[s].rows = <<>>
         /\ DraftGood(y[s], h, ho, IF y[s].hidden = NoRow THEN told ELSE f, told)
<1> DEFINE d == all[s]
           e == y[s]
<1>1. d \in DraftType /\ ~ d.fault /\ DraftGood(d, h, ho, f, told)
  OBVIOUS
<1>2. d.rows # <<>> => Len(d.rows) <= RingRows /\ d.last < d.at
  BY <1>1 DEF DraftGood, BacklogGood, Meets
<1>3. /\ y \in [Rings -> DraftType] /\ \A t \in Rings : ~ y[t].fault
      /\ \A t \in Rings \ {s} : y[t] = all[t]
      /\ \/ d.rows = <<>> /\ e = d
         \/ Restarted(e)
         \/ d.rows # <<>> /\ e = Written(d)
  BY <1>2, FillIs
<1>4. e \in DraftType
  BY <1>3
<1> HIDE DEF d, e
<1>5. e.rows = <<>> /\ DraftGood(e, h, ho, IF e.hidden = NoRow THEN told ELSE f, told)
  <2>0. told <= told
    OBVIOUS
  <2>1. CASE d.rows = <<>> /\ e = d
    <3>1. DraftGood(d, h, ho, IF d.hidden = NoRow THEN told ELSE f, told)
      BY <1>1, <2>0, FromGood
    <3> QED BY <2>1, <3>1
  <2>2. CASE Restarted(e)
    <3>1. e.hidden = NoRow /\ e.rows = <<>>
      BY <2>2 DEF Restarted
    <3>2. DraftGood(e, h, ho, told, told)
      BY <1>4, <2>2, RestartGood
    <3> QED BY <3>1, <3>2
  <2>3. CASE d.rows # <<>> /\ e = Written(d)
    <3>1. e.rows = <<>> /\ DraftGood(e, h, ho, f, told)
      BY <1>1, <2>3, FilledGood
    <3> QED BY <1>4, <3>1, FromGood
  <2> QED BY <1>3, <2>1, <2>2, <2>3
<1> QED BY <1>3, <1>5 DEF e

LEMMA NoFaultTrips ==
  ASSUME NEW all \in [Rings -> DraftType], \A t \in Rings : ~ all[t].fault
  PROVE  ~ Trips(all) /\ Cleared(all) = all
<1>1. \A t \in Rings : [all[t] EXCEPT !.fault = FALSE] = all[t]
  <2> SUFFICES ASSUME NEW t \in Rings PROVE [all[t] EXCEPT !.fault = FALSE] = all[t]
    OBVIOUS
  <2>1. all[t] \in DraftType /\ all[t].fault = FALSE
    BY DraftFields
  <2> QED BY <2>1 DEF DraftType
<1> QED BY <1>1 DEF Trips, Cleared

(***************************************************************************)
(* The drafter's rings: the steps, and the theorem                         *)
(***************************************************************************)
LEMMA FreshIs == Fresh \in DraftType
<1>1. [i \in 0 .. (RingRows - 1) |-> [at |-> NoRow, row |-> Bad]]
        \in [0 .. (RingRows - 1) -> [at : Int, row : RowValues]]
  BY RowValueIs DEF NoRow
<1>2. <<>> \in Seq(RowValues) /\ NoRow \in Int /\ FALSE \in BOOLEAN
  BY DEF NoRow
<1> QED BY <1>1, <1>2 DEF Fresh, DraftType

LEMMA RingInitInv ==
  ASSUME RingInit PROVE RingInv
<1>1. RingTypes
  BY FreshIs DEF RingInit, RingTypes
<1>2. StageInv
  BY DEF RingInit, StageInv
<1>3. DraftsSeeNewestRows
  BY DEF RingInit, DraftsSeeNewestRows
<1>4. Streaming = {}
  BY DEF RingInit, Streaming
<1> QED BY <1>1, <1>2, <1>3, <1>4 DEF RingInv

\* What every step starts from.
LEMMA RingFacts ==
  ASSUME RingInv
  PROVE  /\ kv \in [Rings -> Nat] /\ heir \in [Rings -> Nat] /\ kept \in [Rings -> Nat]
         /\ start \in [Rings -> Int] /\ hole \in [Rings -> BOOLEAN]
         /\ sd \in [Rings -> DraftType] /\ turn \subseteq Rings
         /\ attended = [s \in Rings |-> attended[s]]
         /\ \A s \in Streaming : /\ s \in Rings /\ kv[s] > 0 /\ kv[s] - kept[s] \in Nat \ {0}
                                 /\ kv[s] - kept[s] <= kv[s]
                                 /\ DraftGood(sd[s], heir[s], hole[s], start[s], kv[s] - kept[s])
         /\ \A s \in Rings : attended[s] # NoWin =>
              SeenGood(attended[s], heir[s], kv[s], hole[s], start[s])
<1>1. RingTypes /\ StageInv
  BY DEF RingInv
<1>2. ASSUME NEW s \in Streaming
      PROVE  /\ s \in Rings /\ kv[s] > 0 /\ kv[s] - kept[s] \in Nat \ {0} /\ kv[s] - kept[s] <= kv[s]
  BY <1>1 DEF RingTypes, StageInv, Streaming
<1>3. \A s \in Rings : attended[s] # NoWin =>
        SeenGood(attended[s], heir[s], kv[s], hole[s], start[s])
  BY DEF RingInv, DraftsSeeNewestRows, SeenGood
<1>4. \A s \in Streaming : DraftGood(sd[s], heir[s], hole[s], start[s], kv[s] - kept[s])
  BY DEF RingInv
<1> QED BY <1>1, <1>2, <1>3, <1>4 DEF RingTypes

LEMMA VacateInv ==
  ASSUME RingInv, NEW s \in Rings, Vacate(s) PROVE RingInv'
<1>1. /\ pc = "top" /\ kv' = [kv EXCEPT ![s] = 0]
      /\ UNCHANGED <<heir, sd, multiEver, pc, turn, writing, kept, attended, start, hole, spoilt>>
  BY DEF Vacate
<1>2. RingTypes'
  BY <1>1 DEF RingInv, RingTypes
<1>3. \A t \in Rings : kept[t] = 0 /\ attended[t] = NoWin
  BY <1>1 DEF RingInv, StageInv
<1>4. turn = {}
  BY <1>1 DEF RingInv, StageInv
<1>5. StageInv'
  BY <1>1, <1>3, <1>4, RingFacts DEF StageInv
<1>6. DraftsSeeNewestRows'
  BY <1>1, <1>3 DEF DraftsSeeNewestRows
<1>7. \A t \in Streaming' : DraftGood(sd[t], heir[t], hole[t], start[t], kv'[t] - kept[t])
  <2> SUFFICES ASSUME NEW t \in Streaming'
               PROVE  DraftGood(sd[t], heir[t], hole[t], start[t], kv'[t] - kept[t])
    OBVIOUS
  <2>1. t \in Streaming /\ kv'[t] = kv[t]
    BY <1>1, RingFacts DEF Streaming
  <2> QED BY <2>1, RingFacts
<1> QED BY <1>1, <1>2, <1>5, <1>6, <1>7 DEF RingInv

\* What From leaves of the first position, where a ring was not restarted.
LEMMA FromIs ==
  ASSUME RingInv, NEW all
  PROVE  /\ From(all) \in [Rings -> Int]
         /\ \A t \in Rings : From(all)[t] = IF all[t].hidden = NoRow THEN kv[t] ELSE start[t]
BY RingFacts DEF From

LEMMA BeginInv ==
  ASSUME RingInv, NEW spec \in 1 .. MaxSpec, NEW mode, NEW who, Begin(spec, mode, who)
  PROVE  RingInv'
<1>1. /\ pc = "top" /\ pc' = "draft" /\ who \subseteq Streaming /\ turn' = who
      /\ sd' = SettleWrites(sd) /\ start' = From(sd')
      /\ UNCHANGED <<kv, heir, kept, attended, hole, spoilt>>
  BY DEF Begin
<1>2. /\ sd' \in [Rings -> DraftType] /\ \A t \in Rings : ~ sd'[t].fault
  BY <1>1, RingFacts, SettleIs
<1>3. /\ start' \in [Rings -> Int]
      /\ \A t \in Rings : start'[t] = IF sd'[t].hidden = NoRow THEN kv[t] ELSE start[t]
  BY <1>1, FromIs
<1>4. \A t \in Rings : kept[t] = 0 /\ attended[t] = NoWin
  BY <1>1 DEF RingInv, StageInv
<1>5. RingTypes'
  BY <1>1, <1>2, <1>3, RingFacts DEF RingTypes, Streaming
<1>6. StageInv'
  BY <1>1, <1>2, <1>4, RingFacts DEF StageInv, Streaming
<1>7. DraftsSeeNewestRows'
  BY <1>1, <1>4 DEF DraftsSeeNewestRows
<1>8. \A t \in Streaming : DraftGood(sd'[t], heir[t], hole[t], start'[t], kv[t] - kept[t])
  <2> SUFFICES ASSUME NEW t \in Streaming
               PROVE  DraftGood(sd'[t], heir[t], hole[t], start'[t], kv[t] - kept[t])
    OBVIOUS
  <2> DEFINE told == kv[t] - kept[t]
             n == kv[t]
  <2>1. /\ t \in Rings /\ told \in Nat /\ n \in Nat /\ told <= n
        /\ DraftGood(sd[t], heir[t], hole[t], start[t], told)
        /\ hole[t] \in BOOLEAN /\ start[t] \in Int /\ sd \in [Rings -> DraftType]
    BY RingFacts
  <2> HIDE DEF told, n
  <2>2. DraftGood(SettleWrites(sd)[t], heir[t], hole[t],
                  IF SettleWrites(sd)[t].hidden = NoRow THEN n ELSE start[t], told)
    BY <2>1, SettleGood
  <2> QED BY <1>1, <1>3, <2>1, <2>2 DEF told, n
<1>9. Streaming' = Streaming
  BY <1>1 DEF Streaming
<1> QED BY <1>1, <1>5, <1>6, <1>7, <1>8, <1>9 DEF RingInv

LEMMA ForwardInv ==
  ASSUME RingInv, NEW keep \in [Rings -> 0 .. Block + 1], NEW ended, NEW readable \in BOOLEAN,
         Forward(keep, ended, readable)
  PROVE  RingInv'
<1> DEFINE stay == Streaming \ ended
<1>1. /\ pc = "draft"
      /\ \A s \in Rings : keep[s] \in (IF s \notin Streaming THEN {0}
                                       ELSE IF attended[s] = NoWin THEN {1} ELSE 1 .. Block + 1)
      /\ kv' = [s \in Rings |-> IF s \in stay THEN kv[s] + keep[s] ELSE 0]
      /\ turn' = (IF readable THEN stay ELSE {})
      /\ hole' = [s \in Rings |-> hole[s] \/ (s \in stay /\ ~ readable)]
      /\ kept' = [s \in Rings |-> IF s \in turn' THEN keep[s] ELSE 0]
      /\ pc' = (IF turn' = {} THEN "top" ELSE "keep")
      /\ attended' = [s \in Rings |-> NoWin]
      /\ UNCHANGED <<heir, sd, multiEver, start>>
  BY DEF Forward
<1>2. \A s \in Rings : keep[s] \in Nat /\ (s \in Streaming => keep[s] > 0)
  BY <1>1, RingConstants
<1>3. stay \subseteq Streaming /\ stay \subseteq Rings /\ turn' \subseteq stay
  BY <1>1 DEF Streaming
<1>4. \A s \in Rings : ~ sd[s].fault /\ kept[s] = 0
  BY <1>1 DEF RingInv, StageInv
<1> HIDE DEF stay
<1>5. \A s \in Rings : /\ kv'[s] = (IF s \in stay THEN kv[s] + keep[s] ELSE 0)
                       /\ kept'[s] = (IF s \in turn' THEN keep[s] ELSE 0)
                       /\ hole'[s] = (hole[s] \/ (s \in stay /\ ~ readable))
                       /\ attended'[s] = NoWin
  BY <1>1
<1>6. RingTypes'
  <2>1. kv' \in [Rings -> Nat] /\ kept' \in [Rings -> Nat] /\ hole' \in [Rings -> BOOLEAN]
    BY <1>1, <1>2, RingFacts
  <2> QED BY <1>1, <1>3, <2>1, RingFacts DEF RingTypes
<1>7. \A s \in stay : kv'[s] \in Nat /\ kv'[s] > keep[s] /\ keep[s] > 0
  BY <1>2, <1>3, <1>5, RingFacts
<1>8. StageInv'
  <2>1. pc' # "draft" /\ (pc' = "top" => turn' = {})
    BY <1>1
  <2>2. \A s \in Rings \ turn' : kept'[s] = 0
    BY <1>5
  <2>3. \A s \in turn' : ~ sd'[s].fault /\ kept'[s] > 0
    BY <1>1, <1>3, <1>4, <1>5, <1>7
  <2>4. turn' \subseteq Streaming'
    BY <1>3, <1>7 DEF Streaming
  <2>5. \A s \in Rings : kept'[s] < kv'[s] \/ (kv'[s] = 0 /\ kept'[s] = 0)
    BY <1>3, <1>5, <1>7
  <2> QED BY <1>5, <2>1, <2>2, <2>3, <2>4, <2>5 DEF StageInv
<1>9. DraftsSeeNewestRows'
  BY <1>5 DEF DraftsSeeNewestRows
<1>10. \A t \in Streaming' : DraftGood(sd[t], heir[t], hole'[t], start[t], kv'[t] - kept'[t])
  <2> SUFFICES ASSUME NEW t \in Streaming'
               PROVE  DraftGood(sd[t], heir[t], hole'[t], start[t], kv'[t] - kept'[t])
    OBVIOUS
  <2>1. t \in stay /\ t \in Rings /\ t \in Streaming
    BY <1>3, <1>5 DEF Streaming
  <2> DEFINE n == kv[t] + keep[t]
  <2>2. /\ kv[t] \in Nat /\ kept[t] = 0 /\ keep[t] \in Nat /\ sd[t] \in DraftType
        /\ hole[t] \in BOOLEAN /\ start[t] \in Int
        /\ DraftGood(sd[t], heir[t], hole[t], start[t], kv[t] - kept[t])
    BY <1>2, <1>4, <2>1, RingFacts
  <2>3. kv[t] - kept[t] = kv[t] /\ n \in Nat /\ kv[t] <= n
    BY <2>2
  <2>4. CASE readable
    <3>1. kv'[t] - kept'[t] = kv[t] /\ hole'[t] = hole[t]
      BY <1>1, <1>5, <2>1, <2>2, <2>4
    <3> QED BY <2>2, <2>3, <3>1
  <2>5. CASE ~ readable
    <3>1. kv'[t] = n /\ kept'[t] = 0 /\ hole'[t] = TRUE
      BY <1>1, <1>5, <2>1, <2>2, <2>5
    <3>2. DraftGood(sd[t], heir[t], hole[t], start[t], kv[t])
      BY <2>2, <2>3
    <3> HIDE DEF n
    <3>3. DraftGood(sd[t], heir[t], TRUE, start[t], n)
      BY <2>2, <2>3, <3>2, MissedGood
    <3>4. kv'[t] - kept'[t] = n
      BY <2>3, <3>1
    <3> QED BY <3>1, <3>3, <3>4
  <2> QED BY <2>4, <2>5
<1> QED BY <1>1, <1>6, <1>8, <1>9, <1>10 DEF RingInv

\* The rows a stream keeps are values a backlog can hold.
RowRun(g, p, n) == [j \in 1 .. n |-> <<g, p + j - 1>>]

LEMMA RowsAre ==
  ASSUME NEW g \in Nat, NEW p \in Nat, NEW n \in Nat
  PROVE  RunOf(RowRun(g, p, n), g, p) /\ Len(RowRun(g, p, n)) = n
<1> DEFINE r == RowRun(g, p, n)
<1>1. \A j \in 1 .. n : p + j - 1 \in Nat
  OBVIOUS
<1>2. \A j \in 1 .. n : <<g, p + j - 1>> \in RowValues
  BY <1>1, RowValueIs
<1>3. r \in [1 .. n -> RowValues] /\ DOMAIN r = 1 .. n
      /\ \A j \in 1 .. n : r[j] = <<g, p + j - 1>>
  BY <1>2 DEF RowRun
<1> HIDE DEF r
<1>4. r \in Seq(RowValues) /\ Len(r) = n
  BY <1>3
<1> QED BY <1>3, <1>4 DEF r, RunOf

\* What a prefill leaves of the stream's memory.
LEMMA SeededGood ==
  ASSUME NEW d \in DraftType, Restarted(d), NEW g \in Nat, NEW n \in Nat \ {0}, NEW c \in 0 .. n,
         NEW ho \in BOOLEAN
  PROVE  LET run == Min({c, RingRows})
             e == IF c = 0 THEN d
                  ELSE [Hold(d, n - run, RowRun(g, n - run, run)) EXCEPT !.hidden = n - 1]
         IN /\ n - run \in Int /\ e \in DraftType /\ ~ e.fault
            /\ DraftGood(e, g, ho, n - run, n)
<1> DEFINE run == Min({c, RingRows})
           p == n - run
           rows == RowRun(g, p, run)
           x == Hold(d, p, rows)
           e == IF c = 0 THEN d ELSE [x EXCEPT !.hidden = n - 1]
<1>1. run \in Nat /\ run <= n /\ (c = 0 <=> run = 0)
  <2>1. run = IF c <= RingRows THEN c ELSE RingRows
    <3>1. c \in Int /\ RingRows \in Int
      BY RingConstants
    <3> QED BY <3>1, TwoMin, Zenon
  <2> HIDE DEF run
  <2> QED BY <2>1, RingConstants
<1> HIDE DEF run
<1>2. p \in Nat /\ p \in Int /\ p + run = n /\ p <= n /\ p >= p /\ n \in Nat
  BY <1>1
<1>0. ~ d.fault
  BY DEF Restarted
<1> HIDE DEF p
<1>3. CASE c = 0
  <2>1. p = n /\ n >= n /\ n \in Int
    BY <1>1, <1>2, <1>3
  <2>2. DraftGood(d, g, ho, n, n)
    BY <1>2, <2>1, RestartGood
  <2>3. e = d
    BY <1>3
  <2> HIDE DEF e
  <2> QED BY <1>0, <1>2, <2>1, <2>2, <2>3 DEF e, x, rows, p, run
<1>4. CASE c # 0
  <2>1. run # 0
    BY <1>1, <1>4
  <2>3. RunOf(rows, g, p) /\ Len(rows) = run
    BY <1>1, <1>2, RowsAre
  <2> HIDE DEF rows
  <2>4. rows # <<>>
    BY <2>1, <2>3
  <2>5. DraftGood(d, g, ho, p, p)
    BY <1>2, RestartGood
  <2>6. Joined(x, g, ho, p, p + Len(rows))
    BY <1>0, <1>2, <2>3, <2>4, <2>5, HoldGood
  <2> HIDE DEF x
  <2>7. x \in DraftType /\ ~ x.fault /\ Joined(x, g, ho, p, n)
    BY <1>2, <2>3, <2>6 DEF Joined
  <2>8. /\ Hiding(x, n) \in DraftType /\ Hiding(x, n).fault = x.fault
        /\ DraftGood(Hiding(x, n), g, ho, p, n)
    <3>1. x \in DraftType /\ p \in Int /\ n \in Nat \ {0} /\ ho \in BOOLEAN
      BY <1>2, <2>7
    <3>2. \/ Joined(x, g, ho, p, n)
          \/ /\ BacklogGood(x, g) /\ RingGood(x, g, ho) /\ (ho \/ Reach(x, p))
             /\ x.rows = <<>> /\ x.writes > 0 /\ x.last = n - 1
      BY <2>7
    <3> QED BY <3>1, <3>2, HiddenGood
  <2>9. e = Hiding(x, n)
    BY <1>4 DEF Hiding
  <2> HIDE DEF e
  <2> QED BY <1>2, <2>7, <2>8, <2>9 DEF e, x, rows, p, run
<1> QED BY <1>3, <1>4

LEMMA SeedInv ==
  ASSUME RingInv, NEW s \in Rings, NEW n \in Prompts, NEW c \in 0 .. n, Seed(s, n, c)
  PROVE  RingInv'
<1> DEFINE run == Min({c, RingRows})
           g == heir[s] + 1
           d == Reset(SettleWrites(sd)[s])
           e == IF c = 0 THEN d
                ELSE [Hold(d, n - run, RowRun(g, n - run, run)) EXCEPT !.hidden = n - 1]
<1>1. /\ pc = "top" /\ kv[s] = 0
      /\ kv' = [kv EXCEPT ![s] = n] /\ heir' = [heir EXCEPT ![s] = @ + 1]
      /\ start' = [From(SettleWrites(sd)) EXCEPT ![s] = n - run]
      /\ hole' = [hole EXCEPT ![s] = FALSE]
      /\ UNCHANGED <<multiEver, pc, turn, writing, kept, attended, spoilt>>
  BY DEF Seed
<1>2. g \in Nat /\ heir'[s] = g /\ n \in Nat \ {0}
  BY <1>1, RingFacts, RingConstants
<1>3. sd' = [SettleWrites(sd) EXCEPT ![s] = e]
  <2>1. sd' = [SettleWrites(sd) EXCEPT
                 ![s] = IF c = 0 THEN d
                        ELSE [Hold(d, n - run, RowRun(heir'[s], n - run, run)) EXCEPT !.hidden = n - 1]]
    BY DEF Seed, RowRun
  <2> HIDE DEF d, run, g
  <2> QED BY <1>2, <2>1
<1>4. d \in DraftType /\ Restarted(d) /\ SettleWrites(sd) \in [Rings -> DraftType]
  BY RingFacts, SettleIs, ResetIs DEF Restarted
<1>5. n - run \in Int /\ e \in DraftType /\ ~ e.fault /\ DraftGood(e, g, hole'[s], n - run, n)
  <2>1. hole'[s] \in BOOLEAN
    BY <1>1, RingFacts
  <2> HIDE DEF g, d
  <2> QED BY <1>2, <1>4, <2>1, SeededGood
<1> HIDE DEF e, run
<1>6. sd' \in [Rings -> DraftType] /\ sd'[s] = e /\ \A t \in Rings \ {s} : sd'[t] = SettleWrites(sd)[t]
  BY <1>3, <1>4, <1>5
<1>7. /\ From(SettleWrites(sd)) \in [Rings -> Int]
      /\ \A t \in Rings : From(SettleWrites(sd))[t]
                            = IF SettleWrites(sd)[t].hidden = NoRow THEN kv[t] ELSE start[t]
  BY FromIs
<1>8. /\ start' \in [Rings -> Int] /\ start'[s] = n - run
      /\ \A t \in Rings \ {s} :
           start'[t] = IF SettleWrites(sd)[t].hidden = NoRow THEN kv[t] ELSE start[t]
  BY <1>1, <1>5, <1>7
<1>9. \A t \in Rings : kept[t] = 0 /\ attended[t] = NoWin
  BY <1>1 DEF RingInv, StageInv
<1>10. /\ kv' \in [Rings -> Nat] /\ heir' \in [Rings -> Nat] /\ hole' \in [Rings -> BOOLEAN]
       /\ kv'[s] = n /\ hole'[s] = FALSE
       /\ \A t \in Rings \ {s} : kv'[t] = kv[t] /\ heir'[t] = heir[t] /\ hole'[t] = hole[t]
  BY <1>1, <1>2, RingFacts
<1>11. RingTypes'
  BY <1>1, <1>6, <1>8, <1>10, RingFacts DEF RingTypes
<1>12. StageInv'
  <2>1. turn = {} /\ turn' = {}
    BY <1>1 DEF RingInv, StageInv
  <2>2. \A t \in Rings : kv'[t] \in Nat
    BY <1>10
  <2> QED BY <1>1, <1>9, <2>1, <2>2 DEF StageInv
<1>13. DraftsSeeNewestRows'
  BY <1>1, <1>9 DEF DraftsSeeNewestRows
<1>14. ASSUME NEW t \in Streaming'
       PROVE  DraftGood(sd'[t], heir'[t], hole'[t], start'[t], kv'[t] - kept'[t])
  <2>1. t \in Rings /\ kept'[t] = 0
    BY <1>1, <1>9 DEF Streaming
  <2>2. CASE t = s
    <3>1. kv'[t] - kept'[t] = n
      BY <1>2, <1>10, <2>1, <2>2
    <3> QED BY <1>2, <1>5, <1>6, <1>8, <1>10, <2>2, <3>1
  <2>3. CASE t # s
    <3>1. t \in Streaming /\ kept[t] = kept'[t] /\ t \in Rings \ {s}
      BY <1>1, <1>10, <2>1, <2>3 DEF Streaming
    <3> DEFINE told == kv[t] - kept[t]
               m == kv[t]
    <3>2. /\ told \in Nat /\ m \in Nat /\ told <= m
          /\ DraftGood(sd[t], heir[t], hole[t], start[t], told)
          /\ hole[t] \in BOOLEAN /\ start[t] \in Int /\ sd \in [Rings -> DraftType]
      BY <3>1, RingFacts
    <3> HIDE DEF told, m
    <3>3. DraftGood(SettleWrites(sd)[t], heir[t], hole[t],
                    IF SettleWrites(sd)[t].hidden = NoRow THEN m ELSE start[t], told)
      BY <2>1, <3>2, SettleGood
    <3> QED BY <1>6, <1>8, <1>10, <3>1, <3>3 DEF told, m
  <2> QED BY <2>2, <2>3
<1> QED BY <1>11, <1>12, <1>13, <1>14 DEF RingInv

\* What draft leaves of the stream's memory, and what it attended to.
Again(d, n) == d.writes - (IF d.last = n - 1 /\ d.writes > 0 THEN 1 ELSE 0)
Forwarded(d, n, row) == Put([d EXCEPT !.writes = Again(d, n)], n - 1, row)
Drafted(d, n, row) == [Forwarded(d, n, row) EXCEPT !.last = n - 1]
Sees(d, n, row) ==
  [i \in 0 .. Min({RingRows, Again(d, n) + 1}) - 1 |-> Forwarded(d, n, row).ring[i]]

LEMMA DraftedSees ==
  ASSUME NEW d \in DraftType, ~ d.fault, d.rows = <<>>, NEW h \in Nat, NEW ho \in BOOLEAN,
         NEW f \in Int, NEW n \in Nat \ {0}, DraftGood(d, h, ho, f, n), d.hidden = n - 1
  PROVE  LET row == RowRun(h, n - 1, 1)
         IN /\ Drafted(d, n, row) \in DraftType /\ ~ Drafted(d, n, row).fault
            /\ Drafted(d, n, row).hidden = n - 1
            /\ DraftGood(Drafted(d, n, row), h, ho, f, n)
            /\ SeenGood(Sees(d, n, row), h, n, ho, f)
<1> DEFINE p == n - 1
           row == RowRun(h, p, 1)
           m == IF RingRows <= d.writes THEN RingRows ELSE d.writes
           after == Forwarded(d, n, row)
           x == Drafted(d, n, row)
           w == Sees(d, n, row)
<1>1. p \in Nat /\ d.hidden = p
  OBVIOUS
<1> HIDE DEF p
<1>2. row \in Seq(RowValues) /\ Len(row) = 1 /\ row[1] = <<h, p>>
  <2>0. 1 \in Nat
    OBVIOUS
  <2>1. RunOf(row, h, p) /\ Len(row) = 1
    BY <1>1, <2>0, RowsAre, Zenon
  <2> HIDE DEF row
  <2>2. row[1] = <<h, p + 1 - 1>> /\ p + 1 - 1 = p
    BY <1>1, <2>1 DEF RunOf
  <2> QED BY <2>1, <2>2 DEF RunOf
<1> HIDE DEF row
<1>3. d.last = p /\ d.writes > 0 /\ d.writes \in Nat
  BY <1>1, DraftFields DEF DraftGood, Meets, NoRow
<1>4. Again(d, n) = d.writes - 1 /\ d.writes \in Nat \ {0}
  BY <1>3 DEF p, Again
<1>5. after = Put([d EXCEPT !.writes = d.writes - 1], p, row) /\ x = [after EXCEPT !.last = p]
  BY <1>4 DEF p, Forwarded, Drafted
<1>6. /\ x \in DraftType /\ x.fault = d.fault /\ x.rows = <<>> /\ x.hidden = p
      /\ x.writes = d.writes /\ x.ring = after.ring /\ x.last = p
      /\ DraftGood(x, h, ho, f, n)
  <2>1. n \in Nat
    OBVIOUS
  <2> HIDE DEF after, x
  <2>2. row \in Seq(RowValues) /\ Len(row) = 1 /\ row[1] = <<h, p>> /\ p \in Nat /\ d.hidden = p
    BY <1>1, <1>2
  <2>3. LET a == Put([d EXCEPT !.writes = d.writes - 1], p, row)
            y == [a EXCEPT !.last = p]
        IN /\ y \in DraftType /\ y.fault = d.fault /\ y.rows = <<>> /\ y.hidden = p
           /\ y.writes = d.writes /\ y.ring = a.ring /\ y.last = p
           /\ DraftGood(y, h, ho, f, n)
    BY <2>1, <2>2, DraftedGood
  <2> QED BY <1>5, <2>3
<1>8. Min({RingRows, Again(d, n) + 1}) = m
  <2> DEFINE k == Again(d, n) + 1
  <2>1. k \in Int /\ RingRows \in Int /\ k = d.writes
    BY <1>4, RingConstants
  <2> HIDE DEF k
  <2>2. Min({RingRows, k}) = IF RingRows <= k THEN RingRows ELSE k
    BY <2>1, TwoMin, Zenon
  <2> QED BY <2>1, <2>2 DEF k
<1>9. w = [i \in 0 .. (m - 1) |-> x.ring[i]]
  BY <1>6, <1>8 DEF Sees
<1> HIDE DEF after, x, w
<1>10. m = IF RingRows <= x.writes THEN RingRows ELSE x.writes
  BY <1>6
<1>11. RingGood(x, h, ho) /\ (ho \/ Reach(x, f))
  BY <1>6 DEF DraftGood
<1>12. x.writes > 0 /\ x.last = n - 1 /\ n \in Int
  BY <1>3, <1>6 DEF p
<1> HIDE DEF m
<1>13. SeenGood(w, h, n, ho, f)
  BY <1>6, <1>9, <1>10, <1>11, <1>12, WindowSeen
<1> QED BY <1>6, <1>13 DEF p, row, x, w

LEMMA DraftInv ==
  ASSUME RingInv, NEW s \in Rings, Draft(s) PROVE RingInv'
<1>1. /\ pc = "draft" /\ turn # {} /\ s = Min(turn) /\ turn' = turn \ {s}
      /\ start' = From(sd')
      /\ UNCHANGED <<kv, heir, multiEver, pc, writing, kept, hole>>
  BY DEF Draft
<1>2. s \in turn
  <2>1. turn \subseteq Nat
    BY RingFacts, RingConstants DEF Rings
  <2>2. PICK x \in turn : \A y \in turn : x <= y
    BY <1>1, <2>1, Least
  <2>3. turn \subseteq Int /\ \A y \in turn : y >= x
    BY <2>1, <2>2
  <2>4. Min(turn) = x
    BY <2>3, MinIs
  <2> QED BY <1>1, <2>4
<1>3. s \in Streaming /\ turn \subseteq Streaming /\ attended[s] = NoWin
  BY <1>2 DEF RingInv, StageInv
<1>4. \A t \in Rings : ~ sd[t].fault /\ kept[t] = 0
  BY <1>1 DEF RingInv, StageInv
<1> DEFINE n == kv[s]
           h == heir[s]
           ho == hole[s]
           f == start[s]
           Since(e) == IF e.hidden = NoRow THEN n ELSE f
<1>5. /\ n \in Nat \ {0} /\ h \in Nat /\ ho \in BOOLEAN /\ f \in Int
      /\ sd \in [Rings -> DraftType] /\ DraftGood(sd[s], h, ho, f, n)
  BY <1>3, <1>4, RingFacts
<1>6. PICK all \in FillRing(sd, s) :
       LET d == all[s]
           tip == kv[s] - 1
           count == d.writes - (IF d.last = tip /\ d.writes > 0 THEN 1 ELSE 0)
           after == Put([d EXCEPT !.writes = count], tip, KeptRows(s, tip, 1))
       IN \/ /\ d.hidden # tip \/ tip = 0
             /\ sd' = all /\ UNCHANGED attended
          \/ /\ d.hidden = tip /\ tip > 0 /\ ~Trips(all)
             /\ sd' = [all EXCEPT ![s] = [after EXCEPT !.last = tip]]
             /\ attended' = [attended EXCEPT ![s] =
                               [i \in 0 .. Min({RingRows, count + 1}) - 1 |-> after.ring[i]]]
          \/ /\ d.hidden = tip /\ tip > 0 /\ (spoilt < MaxSpoilt \/ Trips(all))
             /\ sd' = [Cleared(all) EXCEPT ![s] = Reset(@)]
             /\ UNCHANGED attended
  BY DEF Draft
<1> DEFINE d == all[s]
<1> HIDE DEF n, h, ho, f
<1>7. /\ all \in [Rings -> DraftType] /\ \A t \in Rings : ~ all[t].fault
      /\ \A t \in Rings \ {s} : all[t] = sd[t]
      /\ d.rows = <<>>
      /\ DraftGood(d, h, ho, Since(d), n)
  BY <1>4, <1>5, FillGood
<1>8. ~ Trips(all) /\ Cleared(all) = all
  BY <1>7, NoFaultTrips
\* the stream's own ring and what it attended to
<1>9. PICK e, w :
         /\ sd' = [all EXCEPT ![s] = e] /\ attended' = [attended EXCEPT ![s] = w]
         /\ e \in DraftType /\ ~ e.fault /\ DraftGood(e, h, ho, Since(e), n)
         /\ w # NoWin => SeenGood(w, h, n, ho, Since(e)) /\ e.hidden # NoRow
  <2> DEFINE row == RowRun(h, n - 1, 1)
             x == Drafted(d, n, row)
             view == Sees(d, n, row)
  <2>1. d \in DraftType /\ ~ d.fault /\ attended = [attended EXCEPT ![s] = NoWin]
        /\ all = [all EXCEPT ![s] = d]
    BY <1>3, <1>7, RingFacts
  <2>2. CASE sd' = all /\ UNCHANGED attended
    <3>1. sd' = [all EXCEPT ![s] = d] /\ attended' = [attended EXCEPT ![s] = NoWin]
      BY <2>1, <2>2
    <3> WITNESS d, NoWin
    <3> HIDE DEF d
    <3> QED BY <1>7, <2>1, <3>1
  <2>3. CASE /\ d.hidden = n - 1 /\ n - 1 > 0
             /\ sd' = [all EXCEPT ![s] = x] /\ attended' = [attended EXCEPT ![s] = view]
    <3>1. d.hidden = n - 1 /\ n - 1 # NoRow /\ Since(d) = f
      BY <1>5, <2>3 DEF NoRow
    <3>3. DraftGood(d, h, ho, f, n) /\ d.rows = <<>>
      BY <1>7, <3>1
    <3>4. /\ x \in DraftType /\ ~ x.fault /\ x.hidden = n - 1 /\ DraftGood(x, h, ho, f, n)
          /\ SeenGood(view, h, n, ho, f)
      <4> HIDE DEF d
      <4> QED BY <1>5, <2>1, <3>1, <3>3, DraftedSees
    <3> HIDE DEF x, view
    <3>5. Since(x) = f
      BY <3>1, <3>4
    <3>6. sd' = [all EXCEPT ![s] = x] /\ attended' = [attended EXCEPT ![s] = view]
      BY <2>3
    <3> WITNESS x, view
    <3> QED BY <3>1, <3>4, <3>5, <3>6
  <2>4. CASE sd' = [Cleared(all) EXCEPT ![s] = Reset(@)] /\ UNCHANGED attended
    <3> DEFINE r == Reset(d)
    <3>1. r \in DraftType /\ Restarted(r)
      BY <2>1, ResetIs DEF Restarted
    <3>2. sd' = [all EXCEPT ![s] = r] /\ attended' = [attended EXCEPT ![s] = NoWin]
      BY <1>8, <2>1, <2>4
    <3> HIDE DEF r
    <3>3. r.hidden = NoRow /\ ~ r.fault
      BY <3>1 DEF Restarted
    <3>4. DraftGood(r, h, ho, n, n)
      BY <1>5, <3>1, RestartGood
    <3> WITNESS r, NoWin
    <3> QED BY <3>1, <3>2, <3>3, <3>4
  <2>5. \/ sd' = all /\ UNCHANGED attended
        \/ /\ d.hidden = n - 1 /\ n - 1 > 0
           /\ sd' = [all EXCEPT ![s] = x] /\ attended' = [attended EXCEPT ![s] = view]
        \/ sd' = [Cleared(all) EXCEPT ![s] = Reset(@)] /\ UNCHANGED attended
    BY <1>6 DEF n, h, KeptRows, RowRun, Drafted, Sees, Forwarded, Again
  <2> HIDE DEF d, x, view
  <2> QED BY <2>2, <2>3, <2>4, <2>5
<1> HIDE DEF d
<1>10. /\ sd' \in [Rings -> DraftType] /\ sd'[s] = e /\ \A t \in Rings \ {s} : sd'[t] = sd[t]
       /\ \A t \in Rings : ~ sd'[t].fault
  <2>1. sd' \in [Rings -> DraftType] /\ sd'[s] = e /\ \A t \in Rings \ {s} : sd'[t] = all[t]
    BY <1>7, <1>9
  <2> QED BY <1>4, <1>7, <1>9, <2>1
<1>11. /\ attended' = [t \in Rings |-> attended'[t]] /\ attended'[s] = w
       /\ \A t \in Rings \ {s} : attended'[t] = attended[t]
  BY <1>9, RingFacts
<1>12. /\ start' \in [Rings -> Int]
       /\ \A t \in Rings : start'[t] = IF sd'[t].hidden = NoRow THEN kv[t] ELSE start[t]
  BY <1>1, FromIs
<1>13. start'[s] = Since(e)
  BY <1>10, <1>12 DEF n, f
<1>14. \A t \in Rings \ {s} : attended[t] # NoWin => sd[t].hidden # NoRow
  BY DEF RingInv, StageInv
<1>15. RingTypes'
  BY <1>1, <1>10, <1>11, <1>12, RingFacts DEF RingTypes
<1>16. StageInv'
  <2>1. turn' \subseteq Streaming' /\ pc' = "draft" /\ \A t \in Rings : kept'[t] = 0
    BY <1>1, <1>3, <1>4 DEF Streaming
  <2>2. \A t \in Rings : attended'[t] # NoWin => sd'[t].hidden # NoRow
    BY <1>9, <1>10, <1>11, <1>14
  <2>3. \A t \in turn' : attended'[t] = NoWin
    BY <1>1, <1>11, RingFacts DEF RingInv, StageInv
  <2>4. \A t \in Rings : kept'[t] < kv'[t] \/ (kv'[t] = 0 /\ kept'[t] = 0)
    BY <1>1 DEF RingInv, StageInv
  <2> QED BY <1>10, <2>1, <2>2, <2>3, <2>4 DEF StageInv
<1>17. DraftsSeeNewestRows'
  <2>1. ASSUME NEW t \in Rings, attended'[t] # NoWin
        PROVE  SeenGood(attended'[t], heir'[t], kv'[t], hole'[t], start'[t])
    <3>1. CASE t = s
      BY <1>1, <1>9, <1>11, <1>13, <2>1, <3>1 DEF n, h, ho
    <3>2. CASE t # s
      <4>1. attended[t] # NoWin /\ sd'[t] = sd[t] /\ attended'[t] = attended[t]
        BY <1>10, <1>11, <2>1, <3>2
      <4>2. start'[t] = start[t]
        BY <1>12, <1>14, <3>2, <4>1
      <4> QED BY <1>1, <4>1, <4>2, RingFacts
    <3> QED BY <3>1, <3>2
  <2> QED BY <2>1 DEF DraftsSeeNewestRows, SeenGood
<1>18. ASSUME NEW t \in Streaming
       PROVE  DraftGood(sd'[t], heir[t], hole[t], start'[t], kv[t] - kept[t])
  <2>1. t \in Rings /\ kv[t] \in Nat /\ kv[t] - kept[t] = kv[t] /\ hole[t] \in BOOLEAN
        /\ start[t] \in Int /\ sd[t] \in DraftType
        /\ DraftGood(sd[t], heir[t], hole[t], start[t], kv[t] - kept[t])
    BY <1>4, RingFacts DEF Streaming
  <2>2. CASE t = s
    BY <1>9, <1>10, <1>13, <2>1, <2>2 DEF n, h, ho
  <2>3. CASE t # s
    <3> DEFINE k == kv[t]
    <3>1. DraftGood(sd[t], heir[t], hole[t], start[t], k) /\ k \in Nat /\ k <= k
      BY <2>1
    <3> HIDE DEF k
    <3>2. DraftGood(sd[t], heir[t], hole[t], IF sd[t].hidden = NoRow THEN k ELSE start[t], k)
      BY <2>1, <3>1, FromGood
    <3> QED BY <1>10, <1>12, <2>1, <2>3, <3>2 DEF k
  <2> QED BY <2>2, <2>3
<1>19. Streaming' = Streaming
  BY <1>1 DEF Streaming
<1> QED BY <1>1, <1>15, <1>16, <1>17, <1>18, <1>19 DEF RingInv

\* What keep_rows leaves of the stream's memory when it writes the backlog.
KeptRing(o, s, n) == IF o.err THEN Reset(o.all[s]) ELSE Hiding(o.all[s], n)

LEMMA KeptGood ==
  ASSUME NEW all \in [Rings -> DraftType], NEW s \in Rings, NEW h, NEW ho \in BOOLEAN,
         NEW f \in Int, NEW n \in Nat \ {0}, Joined(all[s], h, ho, f, n),
         NEW o, o = [all |-> all, err |-> FALSE] \/ o \in WriteBacklog(all, s)
  PROVE  LET e == KeptRing(o, s, n)
         IN e \in DraftType /\ DraftGood(e, h, ho, IF e.hidden = NoRow THEN n ELSE f, n)
<1> DEFINE d == all[s]
           c == o.all[s]
           e == KeptRing(o, s, n)
<1>1. Joined(d, h, ho, f, n)
  OBVIOUS
<1>0. /\ d \in DraftType /\ ~ d.fault /\ d.rows # <<>> /\ BacklogGood(d, h)
      /\ RingGood(d, h, ho) /\ (ho \/ Reach(d, f)) /\ d.last < d.at /\ d.at + Len(d.rows) = n
      /\ d.writes > 0 => ho \/ d.at = d.last + 1 \/ Len(d.rows) = RingRows
  BY <1>1 DEF Joined
<1>2. \/ ~ o.err /\ c = d
      \/ /\ c \in DraftType /\ c.rows = <<>>
         /\ o.err \/ c.fault \/ c = Written(d)
  <2>1. CASE o = [all |-> all, err |-> FALSE]
    BY <2>1
  <2>2. CASE o \in WriteBacklog(all, s)
    <3>1. Len(d.rows) <= RingRows
      BY <1>0 DEF BacklogGood
    <3>2. /\ o.all \in [Rings -> DraftType]
          /\ o.all[s].rows = <<>>
          /\ o.err \/ o.all[s].fault \/ o.all[s] = Written(all[s])
      BY <1>0, <2>2, <3>1, WriteBacklogIs
    <3> QED BY <3>2
  <2> QED BY <2>1, <2>2
<1>3. n - 1 \in Int /\ n - 1 # NoRow /\ n - 1 < n /\ n \in Int /\ n \in Nat /\ n >= n
  BY DEF NoRow
<1>4. e = (IF o.err THEN Reset(c) ELSE Hiding(c, n))
  BY DEF KeptRing
<1> HIDE DEF d, c, e
<1>5. CASE ~ o.err /\ c = d
  <2>1. \/ Joined(d, h, ho, f, n)
        \/ /\ BacklogGood(d, h) /\ RingGood(d, h, ho) /\ (ho \/ Reach(d, f))
           /\ d.rows = <<>> /\ d.writes > 0 /\ d.last = n - 1
    BY <1>1
  <2>2. Hiding(d, n) \in DraftType /\ Hiding(d, n).hidden = n - 1 /\ DraftGood(Hiding(d, n), h, ho, f, n)
    BY <1>0, <2>1, HiddenGood
  <2>3. e = Hiding(d, n)
    BY <1>4, <1>5
  <2>4. e.hidden # NoRow
    BY <1>3, <2>2, <2>3
  <2> QED BY <2>2, <2>3, <2>4 DEF e
<1>6. CASE c \in DraftType /\ o.err
  <2>1. e \in DraftType /\ Restarted(e)
    BY <1>4, <1>6, ResetIs DEF Restarted
  <2>2. DraftGood(e, h, ho, n, n)
    BY <1>3, <2>1, RestartGood
  <2>3. e.hidden = NoRow
    BY <2>1 DEF Restarted
  <2> QED BY <2>1, <2>2, <2>3 DEF e
<1>7. CASE c \in DraftType /\ ~ o.err /\ c.fault /\ c.rows = <<>>
  <2>1. e \in DraftType /\ e.hidden = n - 1 /\ e.fault /\ e.rows = <<>>
    BY <1>3, <1>4, <1>7 DEF DraftType, Hiding
  <2>2. BacklogGood(e, h)
    BY <2>1, RingConstants DEF BacklogGood
  <2>3. DraftGood(e, h, ho, f, n)
    BY <1>3, <2>1, <2>2 DEF DraftGood
  <2>4. e.hidden # NoRow
    BY <1>3, <2>1
  <2> QED BY <2>1, <2>3, <2>4 DEF e
<1>8. CASE ~ o.err /\ c = Written(d)
  <2>1. /\ c \in DraftType /\ c.rows = <<>> /\ c.writes > 0 /\ c.last = d.at + Len(d.rows) - 1
        /\ RingGood(c, h, ho) /\ (ho \/ Reach(c, f))
    BY <1>0, <1>8, WriteGood DEF Written
  <2>2. BacklogGood(c, h)
    BY <2>1, RingConstants DEF BacklogGood
  <2>3. c.last = n - 1
    <3> DEFINE a == d.at
               k == Len(d.rows)
    <3>1. a \in Nat /\ k \in Nat /\ a + k = n /\ c.last = a + k - 1
      BY <1>0, <2>1, DraftFields
    <3> HIDE DEF a, k
    <3> QED BY <3>1
  <2>4. \/ Joined(c, h, ho, f, n)
        \/ /\ BacklogGood(c, h) /\ RingGood(c, h, ho) /\ (ho \/ Reach(c, f))
           /\ c.rows = <<>> /\ c.writes > 0 /\ c.last = n - 1
    BY <2>1, <2>2, <2>3
  <2>5. Hiding(c, n) \in DraftType /\ Hiding(c, n).hidden = n - 1 /\ DraftGood(Hiding(c, n), h, ho, f, n)
    BY <2>1, <2>4, HiddenGood
  <2>6. e = Hiding(c, n)
    BY <1>4, <1>8
  <2>7. e.hidden # NoRow
    BY <1>3, <2>5, <2>6
  <2> QED BY <2>5, <2>6, <2>7 DEF e
<1> QED BY <1>2, <1>5, <1>6, <1>7, <1>8

LEMMA KeepInv ==
  ASSUME RingInv, NEW s \in Rings, Keep(s) PROVE RingInv'
<1> DEFINE n == kv[s]
           h == heir[s]
           ho == hole[s]
           f == start[s]
           k == kept[s]
           p == n - k
           new == KeptRows(s, p, k)
           x == Hold(sd[s], p, new)
           sdHeld == [sd EXCEPT ![s] = x]
           write == writing /\ Len(sdHeld[s].rows) <= Block + 1
<1>1. /\ pc = "keep" /\ turn # {} /\ s = Min(turn)
      /\ start' = From(sd')
      /\ turn' = turn \ {s}
      /\ kept' = [kept EXCEPT ![s] = 0]
      /\ pc' = (IF turn' = {} THEN "top" ELSE "keep")
      /\ UNCHANGED <<kv, heir, multiEver, attended, hole>>
  BY DEF Keep
<1>2. s \in turn
  <2>1. turn \subseteq Nat
    BY RingFacts, RingConstants DEF Rings
  <2>2. PICK y \in turn : \A z \in turn : y <= z
    BY <1>1, <2>1, Least
  <2>3. turn \subseteq Int /\ \A z \in turn : z >= y
    BY <2>1, <2>2
  <2>4. Min(turn) = y
    BY <2>3, MinIs
  <2> QED BY <1>1, <2>4
<1>3. /\ s \in Streaming /\ turn \subseteq Streaming /\ ~ sd[s].fault /\ k > 0
      /\ \A t \in Rings : attended[t] = NoWin
      /\ \A t \in turn : ~ sd[t].fault /\ kept[t] > 0
      /\ \A t \in Rings \ turn : kept[t] = 0
  BY <1>1, <1>2 DEF RingInv, StageInv
<1>4. /\ n \in Nat \ {0} /\ h \in Nat /\ ho \in BOOLEAN /\ f \in Int /\ k \in Nat \ {0}
      /\ p \in Nat \ {0} /\ p + k = n
      /\ sd \in [Rings -> DraftType] /\ sd[s] \in DraftType /\ DraftGood(sd[s], h, ho, f, p)
  <2>1. /\ n \in Nat \ {0} /\ h \in Nat /\ ho \in BOOLEAN /\ f \in Int /\ k \in Nat \ {0}
        /\ p \in Nat \ {0}
        /\ sd \in [Rings -> DraftType] /\ DraftGood(sd[s], h, ho, f, p)
    BY <1>3, RingFacts
  <2>2. p + k = n
    BY <2>1
  <2> QED BY <2>1, <2>2
<1>5. PICK o \in WriteBacklog(sdHeld, s) \cup {[all |-> sdHeld, err |-> FALSE]} :
        /\ o \in (IF write THEN WriteBacklog(sdHeld, s) ELSE {[all |-> sdHeld, err |-> FALSE]})
        /\ sd' = [o.all EXCEPT ![s] = IF o.err THEN Reset(@) ELSE [@ EXCEPT !.hidden = kv[s] - 1]]
  <2>1. \E o \in (IF write THEN WriteBacklog(sdHeld, s) ELSE {[all |-> sdHeld, err |-> FALSE]}) :
          sd' = [o.all EXCEPT ![s] = IF o.err THEN Reset(@) ELSE [@ EXCEPT !.hidden = kv[s] - 1]]
    BY DEF Keep
  <2> HIDE DEF write, sdHeld
  <2> QED BY <2>1
<1>6. new = RowRun(h, p, k)
  BY DEF KeptRows, RowRun
<1> HIDE DEF n, h, ho, f, k, p, new
<1>7. RunOf(new, h, p) /\ Len(new) = k /\ new # <<>>
  <2>1. RunOf(new, h, p) /\ Len(new) = k
    BY <1>4, <1>6, RowsAre
  <2> QED BY <1>4, <2>1
<1>8. Joined(x, h, ho, f, n)
  <2>1. ~ sd[s].fault /\ p \in Nat /\ p + Len(new) = n
    BY <1>3, <1>4, <1>7
  <2>2. Joined(x, h, ho, f, p + Len(new))
    BY <1>4, <1>7, <2>1, HoldGood
  <2> QED BY <2>1, <2>2
<1>9. /\ x \in DraftType /\ ~ x.fault /\ BacklogGood(x, h) /\ x.rows # <<>> /\ x.last < x.at
  BY <1>8 DEF Joined
<1> HIDE DEF x
<1>10. sdHeld \in [Rings -> DraftType] /\ sdHeld[s] = x /\ \A t \in Rings \ {s} : sdHeld[t] = sd[t]
  BY <1>4, <1>9
<1> HIDE DEF sdHeld
<1> DEFINE e == KeptRing(o, s, n)
<1>11. e \in DraftType /\ DraftGood(e, h, ho, IF e.hidden = NoRow THEN n ELSE f, n)
  <2>1. Joined(sdHeld[s], h, ho, f, n)
    BY <1>8, <1>10
  <2>2. o = [all |-> sdHeld, err |-> FALSE] \/ o \in WriteBacklog(sdHeld, s)
    OBVIOUS
  <2>3. n \in Nat \ {0} /\ ho \in BOOLEAN /\ f \in Int /\ sdHeld \in [Rings -> DraftType]
    BY <1>4, <1>10
  <2> QED BY <2>1, <2>2, <2>3, KeptGood
\* another stream's ring is settled or left
<1>12. /\ o.all \in [Rings -> DraftType]
       /\ \/ \A t \in Rings \ {s} : o.all[t] = SettleWrites(sd)[t]
          \/ \A t \in Rings \ {s} : o.all[t] = sd[t]
  <2>1. CASE o = [all |-> sdHeld, err |-> FALSE]
    BY <1>10, <2>1
  <2>2. CASE o \in WriteBacklog(sdHeld, s)
    <3>1. Len(x.rows) <= RingRows
      BY <1>9 DEF BacklogGood
    <3>2. o.all \in [Rings -> DraftType] /\ \A t \in Rings \ {s} : o.all[t] = SettleWrites(sdHeld)[t]
      BY <1>9, <1>10, <2>2, <3>1, WriteBacklogIs
    <3>3. \A t \in Rings \ {s} : SettleWrites(sdHeld)[t] = SettleWrites(sd)[t]
      BY <1>10 DEF SettleWrites
    <3> QED BY <3>2, <3>3
  <2> QED BY <2>1, <2>2
<1>13. sd' = [o.all EXCEPT ![s] = e]
  BY <1>5 DEF n, KeptRing, Hiding
<1> HIDE DEF e
<1>14. /\ sd' \in [Rings -> DraftType] /\ sd'[s] = e
       /\ \/ \A t \in Rings \ {s} : sd'[t] = SettleWrites(sd)[t]
          \/ \A t \in Rings \ {s} : sd'[t] = sd[t]
  BY <1>11, <1>12, <1>13
<1>15. /\ start' \in [Rings -> Int]
       /\ \A t \in Rings : start'[t] = IF sd'[t].hidden = NoRow THEN kv[t] ELSE start[t]
  BY <1>1, FromIs
<1>16. kept' \in [Rings -> Nat] /\ kept'[s] = 0 /\ \A t \in Rings \ {s} : kept'[t] = kept[t]
  BY <1>1, RingFacts
<1>17. RingTypes'
  BY <1>1, <1>14, <1>15, <1>16, RingFacts DEF RingTypes
<1>18. StageInv'
  <2>1. \A t \in turn' : ~ sd'[t].fault /\ kept'[t] > 0
    <3> SUFFICES ASSUME NEW t \in turn' PROVE ~ sd'[t].fault /\ kept'[t] > 0
      OBVIOUS
    <3>1. t \in turn /\ t \in Rings \ {s} /\ ~ sd[t].fault /\ kept[t] > 0
      BY <1>1, <1>3, RingFacts
    <3>2. ~ SettleWrites(sd)[t].fault
      BY <1>4, <3>1, SettleIs
    <3> QED BY <1>14, <1>16, <3>1, <3>2
  <2>2. \A t \in Rings \ turn' : kept'[t] = 0
    BY <1>1, <1>3, <1>16
  <2>3. pc' # "draft" /\ (pc' = "top" => turn' = {})
    BY <1>1
  <2>4. turn' \subseteq Streaming'
    BY <1>1, <1>3 DEF Streaming
  <2>5. \A t \in Rings : kept'[t] < kv'[t] \/ (kv'[t] = 0 /\ kept'[t] = 0)
    <3>1. \A t \in Rings : kept[t] < kv[t] \/ (kv[t] = 0 /\ kept[t] = 0)
      BY DEF RingInv, StageInv
    <3>2. kv[s] > 0
      BY <1>4 DEF n
    <3> QED BY <1>1, <1>16, <3>1, <3>2
  <2>6. \A t \in Rings : attended'[t] = NoWin
    BY <1>1, <1>3
  <2> QED BY <2>1, <2>2, <2>3, <2>4, <2>5, <2>6 DEF StageInv
<1>19. DraftsSeeNewestRows'
  BY <1>1, <1>3 DEF DraftsSeeNewestRows
<1>20. ASSUME NEW t \in Streaming
       PROVE  DraftGood(sd'[t], heir[t], hole[t], start'[t], kv[t] - kept'[t])
  <2>1. CASE t = s
    <3>1. kv[t] - kept'[t] = n
      BY <1>4, <1>16, <2>1 DEF n
    <3>2. start'[t] = IF e.hidden = NoRow THEN n ELSE f
      BY <1>3, <1>14, <1>15, <2>1, RingFacts DEF n, f
    <3> QED BY <1>11, <1>14, <2>1, <3>1, <3>2 DEF h, ho
  <2>2. CASE t # s
    <3> DEFINE told == kv[t] - kept[t]
               m == kv[t]
    <3>1. /\ told \in Nat /\ m \in Nat /\ told <= m /\ t \in Rings /\ t \in Rings \ {s}
          /\ DraftGood(sd[t], heir[t], hole[t], start[t], told)
          /\ hole[t] \in BOOLEAN /\ start[t] \in Int /\ sd \in [Rings -> DraftType]
          /\ sd[t] \in DraftType
      BY <2>2, RingFacts
    <3> HIDE DEF told, m
    <3>2. DraftGood(SettleWrites(sd)[t], heir[t], hole[t],
                    IF SettleWrites(sd)[t].hidden = NoRow THEN m ELSE start[t], told)
      BY <3>1, SettleGood
    <3>3. DraftGood(sd[t], heir[t], hole[t], IF sd[t].hidden = NoRow THEN m ELSE start[t], told)
      BY <3>1, FromGood
    <3>4. DraftGood(sd'[t], heir[t], hole[t], IF sd'[t].hidden = NoRow THEN m ELSE start[t], told)
      BY <1>14, <3>1, <3>2, <3>3
    <3> QED BY <1>15, <1>16, <3>1, <3>4 DEF told, m
  <2> QED BY <2>1, <2>2
<1>21. Streaming' = Streaming
  BY <1>1 DEF Streaming
<1> QED BY <1>1, <1>17, <1>18, <1>19, <1>20, <1>21 DEF RingInv

LEMMA RingStepInv ==
  ASSUME RingInv, [RingNext]_ringVars PROVE RingInv'
<1>1. ASSUME NEW s \in Rings, NEW n \in Prompts, NEW c \in 0 .. n, Seed(s, n, c) PROVE RingInv'
  BY <1>1, SeedInv
<1>2. ASSUME NEW s \in Rings, Vacate(s) PROVE RingInv'
  BY <1>2, VacateInv
<1>3. ASSUME NEW s \in Rings, Draft(s) PROVE RingInv'
  BY <1>3, DraftInv
<1>4. ASSUME NEW s \in Rings, Keep(s) PROVE RingInv'
  BY <1>4, KeepInv
<1>5. ASSUME NEW spec \in 1 .. MaxSpec, NEW mode \in RingModes, NEW who \in SUBSET Rings,
             Begin(spec, mode, who)
      PROVE  RingInv'
  BY <1>5, BeginInv
<1>6. ASSUME NEW keep \in [Rings -> 0 .. Block + 1], NEW ended \in SUBSET Rings,
             NEW readable \in BOOLEAN, Forward(keep, ended, readable)
      PROVE  RingInv'
  BY <1>6, ForwardInv
<1>7. CASE UNCHANGED ringVars
  <2>1. UNCHANGED <<kv, heir, sd, pc, turn, kept, attended, start, hole>>
    BY <1>7 DEF ringVars
  <2>2. RingTypes'
    BY <2>1 DEF RingInv, RingTypes
  <2>3. Streaming' = Streaming
    BY <2>1 DEF Streaming
  <2>4. StageInv'
    BY <2>1, <2>3 DEF RingInv, StageInv
  <2>5. DraftsSeeNewestRows'
    <3>1. \A s \in Rings : attended'[s] # NoWin =>
            SeenGood(attended'[s], heir'[s], kv'[s], hole'[s], start'[s])
      BY <2>1, RingFacts
    <3> QED BY <3>1 DEF DraftsSeeNewestRows, SeenGood
  <2> QED BY <2>1, <2>2, <2>3, <2>4, <2>5 DEF RingInv
<1> QED BY <1>1, <1>2, <1>3, <1>4, <1>5, <1>6, <1>7 DEF RingNext

\* What a draft attends to are rows of its own stream, each once and roped for its
\* own position, up to the stream's newest one; unless a readback of the stream has
\* failed they have no hole and reach back a window or to where the ring restarted
\* (ms_dspark.rs draft, keep_rows and settle_writes), whatever the window, the chunk
\* and the block are, and however many streams share the drafter.
THEOREM DraftsReadNewestRows == RingSpec => []DraftsSeeNewestRows
<1>1. RingInv => DraftsSeeNewestRows
  BY DEF RingInv
<1> QED BY <1>1, RingInitInv, RingStepInv, PTL DEF RingSpec

=============================================================================
