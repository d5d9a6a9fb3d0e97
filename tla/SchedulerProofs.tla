--------------------------- MODULE SchedulerProofs ---------------------------
(***************************************************************************)
(* Proofs about Scheduler, for any clients, prompts, arena and knobs, and  *)
(* for all faults: nobody is lost or answered twice, and nothing leaks.    *)
(***************************************************************************)
EXTENDS Scheduler, ProofFacts

(***************************************************************************)
(* The inductive invariants                                                *)
(***************************************************************************)
TypeOK ==
  /\ inbox \in Seq(Reqs) /\ queue \in Seq(Reqs) /\ deferred \in Seq(Reqs)
  /\ prefills \in Seq(Reqs) /\ streams \in Seq(Reqs) /\ order \in Seq(Reqs)
  /\ rr \in Nat

Members ==
  ToSet(inbox) \cup ToSet(queue) \cup ToSet(deferred) \cup ToSet(prefills) \cup ToSet(streams)

\* No list repeats a request, and no two share one.
Apart ==
  /\ IsInjective(inbox) /\ IsInjective(queue) /\ IsInjective(deferred)
  /\ IsInjective(prefills) /\ IsInjective(streams)
  /\ ToSet(inbox) \cap (ToSet(queue) \cup ToSet(deferred) \cup ToSet(prefills) \cup ToSet(streams)) = {}
  /\ ToSet(queue) \cap (ToSet(deferred) \cup ToSet(prefills) \cup ToSet(streams)) = {}
  /\ ToSet(deferred) \cap (ToSet(prefills) \cup ToSet(streams)) = {}
  /\ ToSet(prefills) \cap ToSet(streams) = {}

\* A prefill tick has a job, and an open window is the window of one.
JobThere ==
  /\ pc = "prefill" => prefills # <<>>
  /\ window # NoJob => window \in ToSet(prefills)

\* Who is in the scheduler has not been told; who is not was told once, or gave up.
Told ==
  /\ answers \in [Reqs -> {0, 1}]
  /\ \A r \in Members : answers[r] = 0
  /\ \A r \in Reqs \ Members : answers[r] = 1 \/ r \in cancel
  /\ ToSet(order) \subseteq Members

LostInv == TypeOK /\ Apart /\ JobThere /\ Told

Counts ==
  /\ cap \in [Reqs -> Nat] /\ pos \in [Reqs -> Nat] /\ tokens \in [Reqs -> Nat]
  /\ spare \in Nat
  /\ pc = "scan" => spare > 0
\* A prefill's reservation holds its prompt.
PromptFits == \A r \in ToSet(prefills) : Prompt[r] <= cap[r]
LeakInv == LostInv /\ Counts /\ PromptFits /\ NothingLeaks

(***************************************************************************)
(* Where the requests are                                                  *)
(***************************************************************************)
\* InSystem, as membership.
LEMMA MembersAre ==
  ASSUME TypeOK, NEW r
  PROVE  InSystem(r) <=> r \in Members
<1>1. ASSUME NEW s \in Seq(Reqs)
      PROVE  Contains(s, r) <=> r \in ToSet(s)
  BY DEF Contains, ToSet
<1> QED BY <1>1 DEF TypeOK, InSystem, Members

\* A prefill tick works on a prefill in flight.
LEMMA JobInFlight ==
  ASSUME TypeOK, JobThere, prefills # <<>>
  PROVE  TheJob \in ToSet(prefills) /\ TheJob \in Reqs
<1>1. Len(prefills) \in Nat \ {0}
  BY DEF TypeOK
<1>2. JobAt \in 1 .. Len(prefills)
  <2>1. CASE window # NoJob
    <3>1. \E i \in DOMAIN prefills : prefills[i] = window
      BY <2>1 DEF JobThere, ToSet
    <3>2. (CHOOSE i \in DOMAIN prefills : prefills[i] = window) \in DOMAIN prefills
      BY <3>1
    <3>3. DOMAIN prefills = 1 .. Len(prefills)
      BY DEF TypeOK
    <3> QED BY <2>1, <3>2, <3>3 DEF JobAt
  <2>2. CASE window = NoJob
    <3>1. rr \in Nat
      BY DEF TypeOK
    <3>2. rr % Len(prefills) \in 0 .. Len(prefills) - 1
      BY <1>1, <3>1
    <3>3. JobAt = (rr % Len(prefills)) + 1
      BY <2>2 DEF JobAt
    <3> QED BY <1>1, <3>2, <3>3
  <2> QED BY <2>1, <2>2
<1>3. prefills \in Seq(Reqs)
  BY DEF TypeOK
<1> QED BY <1>2, <1>3 DEF TheJob, ToSet

LEMMA TurnNat ==
  ASSUME TypeOK, Turn
  PROVE  rr' \in Nat
<1>1. RrPeriod \in {1, 2, 6}
  <2>1. NScratch \in 1 .. 3
    BY SchedulerAssumption
  <2>2. NScratch \in {1, 2, 3}
    BY <2>1
  <2> QED BY <2>2 DEF RrPeriod
<1>2. rr \in Nat
  BY DEF TypeOK
<1>3. PICK m \in Nat \ {0} : m = RrPeriod
  BY <1>1
<1>4. (rr + 1) % m \in Nat
  BY <1>2
<1> QED BY <1>2, <1>3, <1>4 DEF Turn

\* Who leaves is told, or gave up: the books stay right.
LEMMA ToldAfter ==
  ASSUME Told, NEW D, NEW R, R \subseteq D, D \subseteq Members, D \ R \subseteq cancel,
         Members \subseteq Reqs, Members' = Members \ D, cancel \subseteq cancel',
         answers' = [r \in Reqs |-> IF r \in R THEN answers[r] + 1 ELSE answers[r]],
         ToSet(order') \subseteq Members \ D
  PROVE  Told'
<1>1. answers \in [Reqs -> {0, 1}] /\ \A r \in R : r \in Reqs /\ answers[r] = 0
  BY DEF Told
<1>2. ASSUME NEW r \in Reqs
      PROVE  answers'[r] = IF r \in R THEN 1 ELSE answers[r]
  BY <1>1
<1>3. answers' \in [Reqs -> {0, 1}]
  BY <1>1, <1>2
<1>4. ASSUME NEW r \in Members'
      PROVE  answers'[r] = 0
  BY <1>2 DEF Told
<1>5. ASSUME NEW r \in Reqs \ Members'
      PROVE  answers'[r] = 1 \/ r \in cancel'
  BY <1>2 DEF Told
<1>6. ToSet(order') \subseteq Members'
  OBVIOUS
<1> QED BY <1>3, <1>4, <1>5, <1>6 DEF Told

\* Nobody leaves: the same requests are in the scheduler as before.
LEMMA ToldStays ==
  ASSUME Told, Members' = Members, cancel \subseteq cancel', answers' = answers,
         ToSet(order') \subseteq Members
  PROVE  Told'
BY DEF Told

\* One request, as a sequence.
LEMMA Single ==
  ASSUME NEW S, NEW r \in S
  PROVE  <<r>> \in Seq(S) /\ ToSet(<<r>>) = {r} /\ IsInjective(<<r>>)
BY DEF ToSet, IsInjective

\* A step that moves nobody.
LEMMA SameLists ==
  ASSUME LostInv, UNCHANGED <<inbox, queue, deferred, prefills, streams, order, answers>>,
         cancel \subseteq cancel', pc' = "prefill" => prefills # <<>>,
         rr' \in Nat, window' = NoJob \/ window' \in ToSet(prefills)
  PROVE  LostInv'
<1>1. TypeOK' /\ Apart' /\ JobThere'
  BY DEF LostInv, TypeOK, Apart, JobThere
<1>2. Members' = Members
  BY DEF Members
<1>3. Told' 
  <2>1. ToSet(order') \subseteq Members
    BY DEF LostInv, Told
  <2> QED BY <1>2, <2>1, ToldStays DEF LostInv
<1> QED BY <1>1, <1>3 DEF LostInv

\* The requests that leave: they are in none of the lists afterwards.
LEMMA Leaving ==
  ASSUME LostInv, TypeOK', Apart', JobThere', NEW D, NEW R,
         R \subseteq D, D \subseteq Members, D \ R \subseteq cancel, Members' = Members \ D,
         Leave(D), Answer(R)
  PROVE  LostInv'
<1>1. order' = Without(order, D) /\ cancel' = cancel
  BY DEF Leave
<1>2. Members \subseteq Reqs
  BY ToSetFinite DEF LostInv, TypeOK, Members
<1>3. ToSet(order') \subseteq Members \ D
  <2>1. ToSet(order') = ToSet(order) \ D
    BY <1>1, WithoutKeeps DEF LostInv, TypeOK
  <2> QED BY <2>1 DEF LostInv, Told
<1>4. Told'
  BY <1>1, <1>2, <1>3, ToldAfter DEF Answer, LostInv
<1> QED BY <1>4 DEF LostInv

LEMMA SendKeeps ==
  ASSUME LostInv, NEW r \in Reqs, Send(r)
  PROVE  LostInv'
<1> USE DEF LostInv
<1>1. r \notin Members
  BY MembersAre DEF Send
<1>2. /\ inbox' = Append(inbox, r) /\ cancel' = cancel \ {r}
      /\ answers' = [answers EXCEPT ![r] = 0]
      /\ UNCHANGED <<queue, deferred, prefills, streams, order, rr, window, pc>>
  BY DEF Send, jobs
<1>3. /\ inbox' \in Seq(Reqs) /\ ToSet(inbox') = ToSet(inbox) \cup {r}
      /\ IsInjective(inbox')
  BY <1>1, <1>2, ToSetAppend, InjectiveAppend DEF TypeOK, Apart, Members
<1>4. TypeOK' /\ JobThere'
  BY <1>2, <1>3 DEF TypeOK, JobThere
<1>5. Apart'
  BY <1>1, <1>2, <1>3 DEF Apart, Members
<1>6. Members' = Members \cup {r}
  BY <1>2, <1>3 DEF Members
<1>7. Told'
  BY <1>2, <1>6 DEF Told
<1> QED BY <1>4, <1>5, <1>7

LEMMA IntakeKeeps ==
  ASSUME LostInv, Intake
  PROVE  LostInv'
<1>1. CASE inbox = <<>>
  BY <1>1, SameLists DEF Intake, LostInv, TypeOK, JobThere, jobs
<1>2. CASE inbox # <<>>
  <2> USE DEF LostInv
  <2>1. PICK r : r = Head(inbox)
    OBVIOUS
  <2>2. /\ inbox' = Tail(inbox) /\ queue' = Append(queue, r) /\ order' = Append(order, r)
        /\ UNCHANGED <<deferred, prefills, streams, cancel, answers, rr, window>>
        /\ pc' = "purge"
    BY <1>2, <2>1 DEF Intake, jobs
  <2>3. /\ r \in Reqs /\ inbox' \in Seq(Reqs) /\ IsInjective(inbox')
        /\ ToSet(inbox) = ToSet(inbox') \cup {r} /\ r \notin ToSet(inbox')
    BY <1>2, <2>1, <2>2, TailFacts DEF TypeOK, Apart
  <2>4. r \notin ToSet(queue)
    BY <2>3 DEF Apart
  <2>5. /\ queue' \in Seq(Reqs) /\ ToSet(queue') = ToSet(queue) \cup {r}
        /\ IsInjective(queue')
    BY <2>2, <2>3, <2>4, ToSetAppend, InjectiveAppend DEF TypeOK, Apart
  <2>6. order' \in Seq(Reqs) /\ ToSet(order') = ToSet(order) \cup {r}
    BY <2>2, <2>3, ToSetAppend DEF TypeOK
  <2>7. TypeOK' /\ JobThere'
    BY <2>2, <2>3, <2>5, <2>6 DEF TypeOK, JobThere
  <2>8. Apart'
    BY <2>2, <2>3, <2>5 DEF Apart
  <2>9. Members' = Members /\ r \in Members
    BY <2>2, <2>3, <2>5 DEF Members
  <2>10. Told'
    BY <2>2, <2>6, <2>9, ToldStays DEF Told
  <2> QED BY <2>7, <2>8, <2>10
<1> QED BY <1>1, <1>2

LEMMA PurgeKeeps ==
  ASSUME LostInv, Purge
  PROVE  LostInv'
<1> DEFINE D == ToSet(streams) \cap cancel
<1>1. /\ streams' = Without(streams, D) /\ Leave(D) /\ answers' = answers /\ pc' = "pick"
      /\ UNCHANGED <<inbox, queue, deferred, prefills, rr, window>>
  BY DEF Purge, Leave, jobs
<1> HIDE DEF D
<1>2. /\ streams' \in Seq(Reqs) /\ IsInjective(streams')
      /\ ToSet(streams') = ToSet(streams) \ D
  BY <1>1, WithoutKeeps DEF LostInv, TypeOK, Apart
<1>3. order' \in Seq(Reqs)
  BY <1>1, WithoutKeeps DEF LostInv, TypeOK, Leave
<1>4. TypeOK' /\ JobThere'
  BY <1>1, <1>2, <1>3 DEF LostInv, TypeOK, JobThere
<1>5. Apart'
  BY <1>1, <1>2 DEF LostInv, Apart
<1>6. D \subseteq ToSet(streams) /\ D \subseteq cancel
  BY DEF D
<1>7. Members' = Members \ D /\ D \subseteq Members
  BY <1>1, <1>2, <1>6 DEF LostInv, Apart, Members
<1>8. Answer({})
  BY <1>1 DEF Answer, LostInv, Told
<1>9. {} \subseteq D /\ D \ {} \subseteq cancel
  BY <1>6
<1> QED BY <1>1, <1>4, <1>5, <1>7, <1>8, <1>9, Leaving

LEMMA PickKeeps ==
  ASSUME LostInv, Pick
  PROVE  LostInv'
<1>1. CASE ~ (spare > 0 /\ queue # <<>>)
  BY <1>1, SameLists DEF Pick, LostInv, TypeOK, JobThere, jobs, clients
<1>2. CASE spare > 0 /\ queue # <<>>
  <2>1. PICK r \in ToSet(queue) : queue' = <<r>> \o Without(queue, {r})
    BY <1>2 DEF Pick
  <2>2. r \in Reqs
    BY ToSetFinite DEF LostInv, TypeOK
  <2>3. <<r>> \in Seq(Reqs) /\ ToSet(<<r>>) = {r} /\ IsInjective(<<r>>)
    BY <2>2, Single
  <2>4. PICK w : w = Without(queue, {r})
    OBVIOUS
  <2>5. w \in Seq(Reqs) /\ IsInjective(w) /\ ToSet(w) = ToSet(queue) \ {r}
    BY <2>4, WithoutKeeps DEF LostInv, TypeOK, Apart
  <2>6. ToSet(<<r>>) \cap ToSet(w) = {}
    BY <2>3, <2>5
  <2>7. queue' \in Seq(Reqs) /\ IsInjective(queue') /\ ToSet(queue') = ToSet(queue)
    <3>1. queue' = <<r>> \o w
      BY <2>1, <2>4
    <3>2. PICK u \in Seq(Reqs) : u = <<r>>
      BY <2>3
    <3>3. ToSet(u) = {r} /\ IsInjective(u) /\ ToSet(u) \cap ToSet(w) = {}
      BY <3>2, <2>3, <2>6
    <3>4. u \o w \in Seq(Reqs) /\ ToSet(u \o w) = ToSet(u) \cup ToSet(w)
      BY <2>5, ToSetConcat
    <3>5. IsInjective(u \o w)
      BY <3>3, <2>5, InjectiveConcat
    <3>6. queue' = u \o w
      BY <3>1, <3>2
    <3> QED BY <3>3, <3>4, <3>5, <3>6, <2>5
  <2>8. /\ UNCHANGED <<inbox, deferred, prefills, streams, order, cancel, answers, rr, window>>
        /\ pc' = "scan"
    BY <1>2 DEF Pick, clients, jobs
  <2>9. TypeOK' /\ JobThere' /\ Apart' /\ Members' = Members
    BY <2>7, <2>8 DEF LostInv, TypeOK, JobThere, Apart, Members
  <2>10. Told'
    BY <2>8, <2>9, ToldStays DEF LostInv, Told
  <2> QED BY <2>9, <2>10 DEF LostInv
<1> QED BY <1>1, <1>2

\* The head of the queue moves elsewhere, or leaves.
LEMMA FirstGone ==
  ASSUME LostInv, Scanning, queue' = Tail(queue)
  PROVE  /\ First \in Reqs /\ First \in ToSet(queue)
         /\ queue' \in Seq(Reqs) /\ IsInjective(queue')
         /\ ToSet(queue') = ToSet(queue) \ {First}
<1>1. queue \in Seq(Reqs) /\ queue # <<>> /\ IsInjective(queue)
  BY DEF LostInv, TypeOK, Apart, Scanning
<1>2. /\ First \in Reqs /\ queue' \in Seq(Reqs) /\ IsInjective(queue')
      /\ ToSet(queue) = ToSet(queue') \cup {First} /\ First \notin ToSet(queue')
  BY <1>1, TailFacts DEF First
<1> QED BY <1>2

LEMMA FirstLeaves ==
  ASSUME LostInv, Scanning, queue' = Tail(queue), Leave({First}), NEW R, Answer(R),
         R = {First} \/ (R = {} /\ First \in cancel),
         UNCHANGED <<inbox, deferred, prefills, streams, rr, window, pc>>
  PROVE  LostInv'
<1>1. PICK r : r = First
  OBVIOUS
<1>2. /\ r \in Reqs /\ r \in ToSet(queue) /\ queue' \in Seq(Reqs) /\ IsInjective(queue')
      /\ ToSet(queue') = ToSet(queue) \ {r}
  BY <1>1, FirstGone
<1>3. order' \in Seq(Reqs)
  BY WithoutKeeps DEF LostInv, TypeOK, Leave
<1>4. TypeOK' /\ JobThere'
  BY <1>2, <1>3 DEF LostInv, TypeOK, JobThere
<1>5. Apart'
  BY <1>2 DEF LostInv, Apart
<1>6. Members' = Members \ {r} /\ {r} \subseteq Members
  BY <1>2 DEF LostInv, Apart, Members
<1>7. R \subseteq {r} /\ {r} \ R \subseteq cancel /\ Leave({r})
  BY <1>1
<1> QED BY <1>4, <1>5, <1>6, <1>7, Leaving

LEMMA ScanKeeps ==
  ASSUME LostInv, ScanEnds \/ ScanCancelled \/ ScanRefuse \/ ScanDefer \/ ScanHold
  PROVE  LostInv'
<1>1. CASE ScanEnds
  BY <1>1, SameLists DEF ScanEnds, LostInv, TypeOK, JobThere, jobs, clients
<1>2. CASE ScanCancelled
  <2>1. PICK R : R = {}
    OBVIOUS
  <2>2. /\ Scanning /\ First \in cancel /\ queue' = Tail(queue) /\ Leave({First})
        /\ UNCHANGED <<answers, inbox, deferred, prefills, streams, rr, window, pc>>
    BY <1>2 DEF ScanCancelled, jobs, Leave
  <2>3. Answer(R)
    BY <2>1, <2>2 DEF Answer, LostInv, Told
  <2> QED BY <2>1, <2>2, <2>3, FirstLeaves
<1>3. CASE ScanRefuse
  <2>1. PICK R : R = {First}
    OBVIOUS
  <2>2. /\ Scanning /\ queue' = Tail(queue) /\ Leave({First}) /\ Answer(R)
        /\ UNCHANGED <<inbox, deferred, prefills, streams, rr, window, pc>>
    BY <1>3, <2>1 DEF ScanRefuse, Candidate, jobs, Leave
  <2>3. R = {First} \/ (R = {} /\ First \in cancel)
    BY <2>1
  <2> QED BY <2>2, <2>3, FirstLeaves
<1>4. CASE ScanDefer
  <2>1. /\ Scanning /\ queue' = Tail(queue) /\ deferred' = Append(deferred, First)
        /\ UNCHANGED <<inbox, prefills, streams, order, cancel, answers, rr, window, pc>>
    BY <1>4 DEF ScanDefer, NoRoom, Candidate, clients, jobs
  <2>2. PICK r : r = First
    OBVIOUS
  <2>3. /\ r \in Reqs /\ r \in ToSet(queue) /\ queue' \in Seq(Reqs) /\ IsInjective(queue')
        /\ ToSet(queue') = ToSet(queue) \ {r}
    BY <2>1, <2>2, FirstGone
  <2>4. r \notin ToSet(deferred)
    BY <2>3 DEF LostInv, Apart
  <2>5. /\ deferred' \in Seq(Reqs) /\ IsInjective(deferred')
        /\ ToSet(deferred') = ToSet(deferred) \cup {r}
    BY <2>1, <2>2, <2>3, <2>4, ToSetAppend, InjectiveAppend DEF LostInv, TypeOK, Apart
  <2>6. TypeOK' /\ JobThere'
    BY <2>1, <2>3, <2>5 DEF LostInv, TypeOK, JobThere
  <2>7. Apart'
    BY <2>1, <2>3, <2>5 DEF LostInv, Apart
  <2>8. Members' = Members
    BY <2>1, <2>3, <2>5 DEF Members
  <2>9. Told'
    BY <2>1, <2>8, ToldStays DEF LostInv, Told
  <2> QED BY <2>6, <2>7, <2>9 DEF LostInv
<1>5. CASE ScanHold
  BY <1>5, SameLists DEF ScanHold, LostInv, TypeOK, JobThere, jobs, clients
<1> QED BY <1>1, <1>2, <1>3, <1>4, <1>5

LEMMA ScanStartKeeps ==
  ASSUME LostInv, NEW n, ScanStart(n)
  PROVE  LostInv'
<1>1. /\ Scanning /\ queue' = Tail(queue) /\ prefills' = Append(prefills, First)
      /\ UNCHANGED <<inbox, deferred, streams, order, cancel, answers, rr, window>>
      /\ pc' = "pick"
  BY DEF ScanStart, Candidate, clients
<1>2. PICK r : r = First
  OBVIOUS
<1>3. /\ r \in Reqs /\ r \in ToSet(queue) /\ queue' \in Seq(Reqs) /\ IsInjective(queue')
      /\ ToSet(queue') = ToSet(queue) \ {r}
  BY <1>1, <1>2, FirstGone
<1>4. r \notin ToSet(prefills)
  BY <1>3 DEF LostInv, Apart
<1>5. /\ prefills' \in Seq(Reqs) /\ IsInjective(prefills')
      /\ ToSet(prefills') = ToSet(prefills) \cup {r}
  BY <1>1, <1>2, <1>3, <1>4, ToSetAppend, InjectiveAppend DEF LostInv, TypeOK, Apart
<1>6. TypeOK' /\ JobThere'
  BY <1>1, <1>3, <1>5 DEF LostInv, TypeOK, JobThere
<1>7. Apart'
  BY <1>1, <1>3, <1>5 DEF LostInv, Apart
<1>8. Members' = Members
  BY <1>1, <1>3, <1>5 DEF Members
<1>9. Told'
  BY <1>1, <1>8, ToldStays DEF LostInv, Told
<1> QED BY <1>6, <1>7, <1>9 DEF LostInv

LEMMA MergeKeeps ==
  ASSUME LostInv, ScanFails \/ Merge
  PROVE  LostInv'
<1>1. /\ queue' = deferred \o queue /\ deferred' = <<>> /\ pc' \in {"abort", "phase"}
      /\ UNCHANGED <<inbox, prefills, streams, order, cancel, answers, rr, window>>
  BY DEF ScanFails, Merge, clients, jobs
<1>2. /\ queue' \in Seq(Reqs) /\ IsInjective(queue')
      /\ ToSet(queue') = ToSet(deferred) \cup ToSet(queue)
  <2>1. ToSet(deferred) \cap ToSet(queue) = {}
    BY DEF LostInv, Apart
  <2> QED BY <1>1, <2>1, ToSetConcat, InjectiveConcat DEF LostInv, TypeOK, Apart
<1>3. ToSet(deferred') = {} /\ IsInjective(deferred') /\ deferred' \in Seq(Reqs)
  BY <1>1, EmptyFacts
<1>4. TypeOK' /\ JobThere'
  BY <1>1, <1>2, <1>3 DEF LostInv, TypeOK, JobThere
<1>5. Apart'
  BY <1>1, <1>2, <1>3 DEF LostInv, Apart
<1>6. Members' = Members
  BY <1>1, <1>2, <1>3 DEF Members
<1>7. Told'
  BY <1>1, <1>6, ToldStays DEF LostInv, Told
<1> QED BY <1>4, <1>5, <1>7 DEF LostInv

\* A job that ends frees its place among the prefills.
LEMMA JobGone ==
  ASSUME LostInv, prefills # <<>>, JobLeaves
  PROVE  /\ TheJob \in Reqs /\ TheJob \in ToSet(prefills)
         /\ prefills' \in Seq(Reqs) /\ IsInjective(prefills')
         /\ ToSet(prefills') = ToSet(prefills) \ {TheJob}
<1>1. TheJob \in ToSet(prefills) /\ TheJob \in Reqs
  BY JobInFlight DEF LostInv
<1> QED BY <1>1, WithoutKeeps DEF LostInv, TypeOK, Apart, JobLeaves

LEMMA JobDroppedKeeps ==
  ASSUME LostInv, JobDropped
  PROVE  LostInv'
<1>1. /\ prefills # <<>> /\ JobLeaves /\ Leave({TheJob}) /\ pc' = "top" /\ rr' \in Nat
      /\ window' = NoJob /\ UNCHANGED <<inbox, queue, deferred, streams>>
  BY TurnNat DEF JobDropped, LostInv, JobThere, CloseWindow, Leave
<1>2. PICK r : r = TheJob
  OBVIOUS
<1>3. PICK R : Answer(R) /\ (R = {r} \/ (R = {} /\ r \in cancel))
  <2>1. CASE TheJob \in cancel /\ UNCHANGED answers
    <3>1. Answer({})
      BY <2>1 DEF Answer, LostInv, Told
    <3> QED BY <2>1, <3>1, <1>2
  <2>2. CASE Answer({TheJob})
    BY <2>2, <1>2
  <2> QED BY <2>1, <2>2 DEF JobDropped
<1>4. /\ r \in ToSet(prefills) /\ prefills' \in Seq(Reqs) /\ IsInjective(prefills')
      /\ ToSet(prefills') = ToSet(prefills) \ {r}
  BY <1>1, <1>2, JobGone
<1>5. order' \in Seq(Reqs)
  BY <1>1, WithoutKeeps DEF LostInv, TypeOK, Leave
<1>6. TypeOK' /\ JobThere'
  BY <1>1, <1>4, <1>5 DEF LostInv, TypeOK, JobThere
<1>7. Apart'
  BY <1>1, <1>4 DEF LostInv, Apart
<1>8. Members' = Members \ {r} /\ {r} \subseteq Members
  BY <1>1, <1>4 DEF LostInv, Apart, Members
<1>9. R \subseteq {r} /\ {r} \ R \subseteq cancel /\ Leave({r})
  BY <1>1, <1>2, <1>3
<1> QED BY <1>3, <1>6, <1>7, <1>8, <1>9, Leaving

LEMMA JobAdmittedKeeps ==
  ASSUME LostInv, JobAdmitted
  PROVE  LostInv'
<1>1. /\ prefills # <<>> /\ JobLeaves /\ pc' = "top" /\ rr' \in Nat
      /\ window' = NoJob /\ UNCHANGED <<inbox, queue, deferred>>
  <2>1. Turn /\ prefills # <<>>
    BY DEF JobAdmitted, LostInv, JobThere
  <2>2. rr' \in Nat
    BY <2>1, TurnNat DEF LostInv
  <2>3. inbox' = inbox
    BY DEF JobAdmitted, Leave, clients
  <2> QED BY <2>1, <2>2, <2>3 DEF JobAdmitted, CloseWindow
<1>2. PICK r : r = TheJob
  OBVIOUS
<1>3. /\ r \in Reqs /\ r \in ToSet(prefills)
      /\ prefills' \in Seq(Reqs) /\ IsInjective(prefills')
      /\ ToSet(prefills') = ToSet(prefills) \ {r}
  BY <1>1, <1>2, JobGone
<1>4. CASE Answer({r}) /\ Leave({r}) /\ UNCHANGED streams
  <2>1. order' \in Seq(Reqs)
    BY <1>4, WithoutKeeps DEF LostInv, TypeOK, Leave
  <2>2. TypeOK' /\ JobThere'
    BY <1>1, <1>3, <1>4, <2>1 DEF LostInv, TypeOK, JobThere
  <2>3. Apart'
    BY <1>1, <1>3, <1>4 DEF LostInv, Apart
  <2>4. Members' = Members \ {r} /\ {r} \subseteq Members
    BY <1>1, <1>3, <1>4 DEF LostInv, Apart, Members
  <2>5. {r} \subseteq {r} /\ {r} \ {r} \subseteq cancel
    OBVIOUS
  <2> QED BY <1>4, <2>2, <2>3, <2>4, <2>5, Leaving
<1>5. CASE streams' = Append(streams, r) /\ UNCHANGED clients
  <2>1. r \notin ToSet(streams)
    BY <1>3 DEF LostInv, Apart
  <2>2. /\ streams' \in Seq(Reqs) /\ IsInjective(streams')
        /\ ToSet(streams') = ToSet(streams) \cup {r}
    BY <1>3, <1>5, <2>1, ToSetAppend, InjectiveAppend DEF LostInv, TypeOK, Apart
  <2>3. UNCHANGED <<order, cancel, answers>>
    BY <1>5 DEF clients
  <2>4. TypeOK' /\ JobThere'
    BY <1>1, <1>3, <2>2, <2>3 DEF LostInv, TypeOK, JobThere
  <2>5. Apart'
    BY <1>1, <1>3, <2>2 DEF LostInv, Apart
  <2>6. Members' = Members
    BY <1>1, <1>3, <2>2 DEF Members
  <2>7. Told'
    BY <2>3, <2>6, ToldStays DEF LostInv, Told
  <2> QED BY <2>4, <2>5, <2>7 DEF LostInv
<1> QED BY <1>2, <1>4, <1>5 DEF JobAdmitted

LEMMA RunnableFacts ==
  ASSUME LostInv
  PROVE  /\ Runnable \in Seq(Reqs) /\ Blocked \in Seq(Reqs)
         /\ IsInjective(Runnable) /\ IsInjective(Blocked)
         /\ ToSet(Runnable) = {r \in ToSet(streams) : CanStep(r)}
         /\ ToSet(Blocked) = {r \in ToSet(streams) : ~ CanStep(r)}
<1>1. ToSet(streams) \subseteq Reqs
  BY ToSetFinite DEF LostInv, TypeOK
<1>2. PICK S : S = {r \in Reqs : CanStep(r)}
  OBVIOUS
<1>3. PICK N : N = {r \in Reqs : ~ CanStep(r)}
  OBVIOUS
<1>4. Runnable = Without(streams, N) /\ Blocked = Without(streams, S)
  BY <1>2, <1>3 DEF Runnable, Blocked
<1>5. /\ Runnable \in Seq(Reqs) /\ Blocked \in Seq(Reqs)
      /\ IsInjective(Runnable) /\ IsInjective(Blocked)
      /\ ToSet(Runnable) = ToSet(streams) \ N /\ ToSet(Blocked) = ToSet(streams) \ S
  BY <1>4, WithoutKeeps DEF LostInv, TypeOK, Apart
<1> QED BY <1>1, <1>2, <1>3, <1>5

LEMMA NoneRunnable ==
  ASSUME LostInv, Runnable = <<>>
  PROVE  ToSet(Blocked) = ToSet(streams)
<1>1. {r \in ToSet(streams) : CanStep(r)} = {}
  BY RunnableFacts, EmptyFacts
<1> QED BY <1>1, RunnableFacts

\* Streams that end within a decode tick; those that go on are in streams'.
LEMMA StreamsEnd ==
  ASSUME LostInv, NEW D, D \subseteq ToSet(streams), Answer(D), Leave(D),
         streams' \in Seq(Reqs), IsInjective(streams'), ToSet(streams') = ToSet(streams) \ D,
         UNCHANGED <<inbox, queue, deferred, jobs>>, pc' \in {"top", pc}
  PROVE  LostInv'
<1>1. order' \in Seq(Reqs)
  BY WithoutKeeps DEF LostInv, TypeOK, Leave
<1>2. TypeOK' /\ JobThere'
  BY <1>1 DEF LostInv, TypeOK, JobThere, jobs
<1>3. Apart'
  BY DEF LostInv, Apart, jobs
<1>4. Members' = Members \ D /\ D \subseteq Members
  BY DEF LostInv, Apart, Members, jobs
<1>5. D \subseteq D /\ D \ D \subseteq cancel
  OBVIOUS
<1> QED BY <1>2, <1>3, <1>4, <1>5, Leaving

LEMMA DecodeKeeps ==
  ASSUME LostInv, NEW kept, NEW eos, ForceEnd \/ NothingRuns \/ Step(kept, eos)
  PROVE  LostInv'
<1>1. CASE ForceEnd
  <2>1. PICK r \in ToSet(Blocked) :
          streams' = Without(Blocked, {r}) /\ Answer({r}) /\ Leave({r})
    BY <1>1 DEF ForceEnd
  <2>2. PICK D : D = {r}
    OBVIOUS
  <2>3. PICK w : w = Blocked
    OBVIOUS
  <2>4. w \in Seq(Reqs) /\ IsInjective(w) /\ ToSet(w) = ToSet(streams)
    BY <1>1, <2>3, RunnableFacts, NoneRunnable DEF ForceEnd
  <2>5. streams' = Without(w, D)
    BY <2>1, <2>2, <2>3
  <2>6. streams' \in Seq(Reqs) /\ IsInjective(streams') /\ ToSet(streams') = ToSet(streams) \ D
    BY <2>4, <2>5, WithoutKeeps
  <2>7. D \subseteq ToSet(streams) /\ Answer(D) /\ Leave(D)
    BY <2>1, <2>2, <2>3, <2>4
  <2>8. UNCHANGED <<inbox, queue, deferred, jobs>> /\ pc' \in {"top", pc}
    BY <1>1, <2>1 DEF ForceEnd, Leave
  <2> QED BY <2>6, <2>7, <2>8, StreamsEnd
<1>2. CASE NothingRuns
  <2>1. /\ streams' = Blocked /\ pc' = "top"
        /\ UNCHANGED <<clients, queue, deferred, jobs>> /\ Runnable = <<>>
    BY <1>2 DEF NothingRuns
  <2>2. streams' \in Seq(Reqs) /\ IsInjective(streams') /\ ToSet(streams') = ToSet(streams)
    BY <2>1, RunnableFacts, NoneRunnable
  <2>3. UNCHANGED <<inbox, order, cancel, answers, prefills, rr, window>>
    BY <2>1 DEF clients, jobs
  <2>4. TypeOK' /\ JobThere' /\ Apart' /\ Members' = Members
    BY <2>1, <2>2, <2>3 DEF LostInv, TypeOK, JobThere, Apart, Members
  <2>5. Told'
    BY <2>3, <2>4, ToldStays DEF LostInv, Told
  <2> QED BY <2>4, <2>5 DEF LostInv
<1>3. CASE Step(kept, eos)
  <2>1. PICK run : run = ToSet(Runnable)
    OBVIOUS
  <2>2. PICK D : D = eos \cup {r \in run : tokens[r] + kept[r] >= MaxNew[r]}
    OBVIOUS
  <2>3. /\ eos \subseteq run /\ streams' = Without(Runnable, D) \o Blocked
        /\ Answer(D) /\ Leave(D) /\ UNCHANGED <<queue, deferred, jobs>> /\ pc' = "top"
    BY <1>3, <2>1, <2>2 DEF Step
  <2>4. PICK q, w : q = Without(Runnable, D) /\ w = Blocked
    OBVIOUS
  <2>5. /\ q \in Seq(Reqs) /\ w \in Seq(Reqs) /\ IsInjective(q) /\ IsInjective(w)
        /\ ToSet(q) = ToSet(Runnable) \ D
        /\ ToSet(w) = {r \in ToSet(streams) : ~ CanStep(r)}
        /\ ToSet(Runnable) = {r \in ToSet(streams) : CanStep(r)}
    BY <2>4, RunnableFacts, WithoutKeeps
  <2>6. ToSet(q) \cap ToSet(w) = {}
    BY <2>5
  <2>7. streams' = q \o w
    BY <2>3, <2>4
  <2>8. /\ streams' \in Seq(Reqs) /\ IsInjective(streams')
        /\ ToSet(streams') = ToSet(q) \cup ToSet(w)
    BY <2>5, <2>6, <2>7, ToSetConcat, InjectiveConcat
  <2>9. D \subseteq ToSet(Runnable)
    BY <2>1, <2>2, <2>3
  <2>10. ToSet(streams') = ToSet(streams) \ D /\ D \subseteq ToSet(streams)
    BY <2>5, <2>8, <2>9
  <2>11. UNCHANGED <<inbox, queue, deferred, jobs>> /\ pc' \in {"top", pc}
    BY <2>3 DEF Leave
  <2> QED BY <2>3, <2>8, <2>10, <2>11, StreamsEnd
<1> QED BY <1>1, <1>2, <1>3

LEMMA AbortKeeps ==
  ASSUME LostInv, Abort
  PROVE  LostInv'
<1>1. PICK D : D = ToSet(streams) \cup ToSet(prefills) \cup ToSet(queue)
  OBVIOUS
<1>2. /\ Answer(D) /\ Leave(D) /\ streams' = <<>> /\ prefills' = <<>> /\ queue' = <<>>
      /\ window' = NoJob /\ pc' = "top" /\ UNCHANGED <<inbox, deferred, rr>>
  BY <1>1 DEF Abort, CloseWindow, Leave
<1>3. ToSet(<<>>) = {} /\ IsInjective(<<>>) /\ <<>> \in Seq(Reqs)
  BY EmptyFacts
<1>4. order' \in Seq(Reqs)
  BY <1>2, WithoutKeeps DEF LostInv, TypeOK, Leave
<1>5. TypeOK' /\ JobThere'
  BY <1>2, <1>3, <1>4 DEF LostInv, TypeOK, JobThere
<1>6. Apart'
  BY <1>2, <1>3 DEF LostInv, Apart
<1>7. Members' = Members \ D /\ D \subseteq Members
  BY <1>1, <1>2, <1>3 DEF LostInv, Apart, Members
<1>8. D \subseteq D /\ D \ D \subseteq cancel
  OBVIOUS
<1> QED BY <1>2, <1>5, <1>6, <1>7, <1>8, Leaving

\* The steps that leave the lists alone.
LEMMA OthersKeep ==
  ASSUME LostInv, NEW r \in Reqs,
         Cancel(r) \/ GrowOlder(r) \/ BudgetSpent \/ ChoosePhase \/ JobChunk \/ DecodeFails
  PROVE  LostInv'
<1> USE DEF LostInv, TypeOK, JobThere, jobs, clients
<1>1. CASE Cancel(r) \/ GrowOlder(r) \/ BudgetSpent \/ DecodeFails
  BY <1>1, SameLists DEF Cancel, GrowOlder, BudgetSpent, DecodeFails
<1>2. CASE ChoosePhase
  <2>2. pc' = "prefill" => prefills # <<>>
    BY <1>2 DEF ChoosePhase, NextPhase
  <2> QED BY <1>2, <2>2, SameLists DEF ChoosePhase
<1>3. CASE JobChunk
  <2>1. rr' \in Nat /\ TheJob \in ToSet(prefills)
    BY <1>3, TurnNat, JobInFlight DEF JobChunk
  <2>2. window' = NoJob \/ window' \in ToSet(prefills)
    BY <1>3, <2>1 DEF JobChunk, CloseWindow
  <2> QED BY <1>3, <2>1, <2>2, SameLists DEF JobChunk
<1> QED BY <1>1, <1>2, <1>3

LEMMA LostNext ==
  ASSUME LostInv, [Next]_vars
  PROVE  LostInv'
<1>1. CASE UNCHANGED vars
  <2>1. UNCHANGED <<inbox, queue, deferred, prefills, streams, order, answers, cancel, pc, rr, window>>
    BY <1>1 DEF vars, clients, jobs
  <2> QED BY <2>1, SameLists DEF LostInv, TypeOK, JobThere
<1>2. CASE \E r \in Reqs : Send(r) \/ Cancel(r) \/ GrowOlder(r)
  BY <1>2, SendKeeps, OthersKeep
<1>3. CASE BudgetSpent
  <2>1. UNCHANGED <<inbox, queue, deferred, prefills, streams, order, answers, cancel, pc, rr, window>>
    BY <1>3 DEF BudgetSpent, clients, jobs
  <2> QED BY <2>1, SameLists DEF LostInv, TypeOK, JobThere
<1>4. CASE SchedStep
  <2>1. CASE Intake \/ Purge \/ Pick
    BY <2>1, IntakeKeeps, PurgeKeeps, PickKeeps
  <2>2. CASE ScanEnds \/ ScanCancelled \/ ScanRefuse \/ ScanDefer \/ ScanHold
    BY <2>2, ScanKeeps
  <2>3. CASE \E n \in 1 .. MaxChunks : ScanStart(n)
    BY <2>3, ScanStartKeeps
  <2>4. CASE ScanFails \/ Merge
    BY <2>4, MergeKeeps
  <2>5. CASE ChoosePhase \/ DecodeFails
    <3>1. UNCHANGED <<inbox, queue, deferred, prefills, streams, order, answers, cancel, rr, window>>
      BY <2>5 DEF ChoosePhase, DecodeFails, clients, jobs
    <3>2. pc' = "prefill" => prefills # <<>>
      BY <2>5 DEF ChoosePhase, DecodeFails, NextPhase
    <3> QED BY <3>1, <3>2, SameLists DEF LostInv, TypeOK, JobThere
  <2>6. CASE JobDropped \/ JobAdmitted
    BY <2>6, JobDroppedKeeps, JobAdmittedKeeps
  <2>7. CASE JobChunk
    <3>1. prefills # <<>>
      BY <2>7 DEF JobChunk, LostInv, JobThere
    <3>2. TheJob \in Reqs
      BY <3>1, JobInFlight DEF LostInv
    <3> QED BY <2>7, <3>2, OthersKeep
  <2>8. CASE ForceEnd \/ NothingRuns
    BY <2>8, DecodeKeeps
  <2>9. CASE \E kept \in [Reqs -> 1 .. MaxRun], eos \in SUBSET Reqs : Step(kept, eos)
    BY <2>9, DecodeKeeps
  <2>10. CASE Abort
    BY <2>10, AbortKeeps
  <2> QED BY <1>4, <2>1, <2>2, <2>3, <2>4, <2>5, <2>6, <2>7, <2>8, <2>9, <2>10 DEF SchedStep
<1> QED BY <1>1, <1>2, <1>3, <1>4 DEF Next

LEMMA LostInit ==
  ASSUME Init
  PROVE  LostInv
<1>1. ToSet(<<>>) = {} /\ IsInjective(<<>>) /\ <<>> \in Seq(Reqs)
  BY EmptyFacts
<1>2. Members = {}
  BY <1>1 DEF Init, Members
<1> QED BY <1>1, <1>2 DEF Init, LostInv, TypeOK, Apart, JobThere, Told

LEMMA LostInvariant == Spec => []LostInv
BY LostInit, LostNext, PTL DEF Spec

\* A list without repeats fits into 1 .. Cardinality(Reqs).
LEMMA ShortList ==
  ASSUME NEW s \in Seq(Reqs), IsInjective(s)
  PROVE  Len(s) \in Nat /\ Len(s) <= Cardinality(Reqs) /\ Cardinality(Reqs) \in Nat
<1>1. IsFiniteSet(ToSet(s)) /\ Cardinality(ToSet(s)) = Len(s) /\ ToSet(s) \subseteq Reqs
  BY InjectiveLength, ToSetFinite
<1>2. IsFiniteSet(Reqs)
  BY SchedulerAssumption
<1>3. Cardinality(ToSet(s)) <= Cardinality(Reqs) /\ Cardinality(Reqs) \in Nat
  BY <1>1, <1>2, FS_Subset, FS_CardinalityType
<1> QED BY <1>1, <1>3

\* The lists, by their number.
LEMMA ListsAre ==
  ASSUME LostInv, NEW k \in 1 .. 5
  PROVE  /\ Lists[k] \in Seq(Reqs) /\ IsInjective(Lists[k]) /\ ToSet(Lists[k]) \subseteq Members
         /\ \A l \in 1 .. 5 : l # k => ToSet(Lists[k]) \cap ToSet(Lists[l]) = {}
<1>1. /\ Lists[1] = inbox /\ Lists[2] = queue /\ Lists[3] = deferred
      /\ Lists[4] = prefills /\ Lists[5] = streams
  BY DEF Lists
<1>2. k \in {1, 2, 3, 4, 5} /\ 1 .. 5 = {1, 2, 3, 4, 5}
  OBVIOUS
<1>3. Lists[k] \in Seq(Reqs) /\ IsInjective(Lists[k]) /\ ToSet(Lists[k]) \subseteq Members
  BY <1>1, <1>2 DEF LostInv, TypeOK, Apart, Members
<1>4. \A l \in {1, 2, 3, 4, 5} : l # k => ToSet(Lists[k]) \cap ToSet(Lists[l]) = {}
  <2>1. CASE k = 1
    BY <1>1, <2>1 DEF LostInv, Apart
  <2>2. CASE k = 2
    BY <1>1, <2>2 DEF LostInv, Apart
  <2>3. CASE k = 3
    BY <1>1, <2>3 DEF LostInv, Apart
  <2>4. CASE k = 4
    BY <1>1, <2>4 DEF LostInv, Apart
  <2>5. CASE k = 5
    BY <1>1, <2>5 DEF LostInv, Apart
  <2> QED BY <1>2, <2>1, <2>2, <2>3, <2>4, <2>5
<1> QED BY <1>2, <1>3, <1>4

\* A request in the scheduler has one place, any other none.
LEMMA PlaceCount ==
  ASSUME LostInv, NEW r \in Reqs
  PROVE  Places(r) = IF r \in Members THEN 1 ELSE 0
<1> DEFINE All == (1 .. 5) \X (1 .. Cardinality(Reqs))
           At(p) == p[2] <= Len(Lists[p[1]]) /\ Lists[p[1]][p[2]] = r
           P == {p \in All : At(p)}
<1>1. Places(r) = Cardinality(P)
  BY DEF Places
<1>2. ASSUME NEW p \in P
      PROVE  /\ p[1] \in 1 .. 5 /\ p[2] \in 1 .. Len(Lists[p[1]]) /\ p = <<p[1], p[2]>>
             /\ Lists[p[1]][p[2]] = r /\ r \in ToSet(Lists[p[1]])
  <2>1. p[1] \in 1 .. 5 /\ p[2] \in 1 .. Cardinality(Reqs) /\ p = <<p[1], p[2]>> /\ At(p)
    OBVIOUS
  <2>2. PICK s \in Seq(Reqs) : s = Lists[p[1]] /\ IsInjective(s)
    BY <2>1, ListsAre
  <2>3. Len(s) \in Nat /\ Cardinality(Reqs) \in Nat
    BY <2>2, ShortList
  <2>4. p[2] \in 1 .. Len(s)
    BY <2>1, <2>2, <2>3
  <2>5. r \in ToSet(s)
    BY <2>1, <2>2, <2>4 DEF ToSet
  <2> QED BY <2>1, <2>2, <2>4, <2>5
<1> HIDE DEF P
<1>3. CASE r \notin Members
  <2>1. P = {}
    <3>1. ASSUME NEW p \in P PROVE FALSE
      BY <1>2, <1>3, ListsAre
    <3> QED BY <3>1
  <2> QED BY <1>1, <1>3, <2>1, FS_EmptySet
<1>4. CASE r \in Members
  <2>1. PICK k \in 1 .. 5 : r \in ToSet(Lists[k])
    <3>1. /\ Lists[1] = inbox /\ Lists[2] = queue /\ Lists[3] = deferred
          /\ Lists[4] = prefills /\ Lists[5] = streams
      BY DEF Lists
    <3>2. 1 \in 1 .. 5 /\ 2 \in 1 .. 5 /\ 3 \in 1 .. 5 /\ 4 \in 1 .. 5 /\ 5 \in 1 .. 5
      OBVIOUS
    <3> QED BY <1>4, <3>1, <3>2 DEF Members
  <2>2. PICK s \in Seq(Reqs) : s = Lists[k] /\ IsInjective(s)
    BY ListsAre
  <2>3. Len(s) \in Nat /\ Len(s) <= Cardinality(Reqs) /\ Cardinality(Reqs) \in Nat
    BY <2>2, ShortList
  <2>4. PICK i \in 1 .. Len(s) : s[i] = r
    BY <2>1, <2>2, <2>3 DEF ToSet
  <2>5. <<k, i>> \in P
    <3>1. i \in 1 .. Cardinality(Reqs) /\ i <= Len(s)
      BY <2>3, <2>4
    <3> QED BY <2>2, <2>4, <3>1 DEF P
  <2>6. ASSUME NEW p \in P
        PROVE  p = <<k, i>>
    <3>1. /\ p[1] \in 1 .. 5 /\ p[2] \in 1 .. Len(Lists[p[1]]) /\ p = <<p[1], p[2]>>
          /\ Lists[p[1]][p[2]] = r /\ r \in ToSet(Lists[p[1]])
      BY <1>2
    <3>2. p[1] = k
      BY <2>1, <3>1, ListsAre
    <3>3. p[2] = i
      BY <2>2, <2>3, <2>4, <3>1, <3>2 DEF IsInjective
    <3> QED BY <3>1, <3>2, <3>3
  <2>7. P = {<<k, i>>}
    BY <2>5, <2>6
  <2> QED BY <1>1, <1>4, <2>7, FS_Singleton
<1> QED BY <1>3, <1>4

\* Every request is in one place until it has its terminal event, and gets no
\* second one, whatever is cancelled, fails or steps aside, and in whatever order:
\* a leaving request is taken from the one list that holds it, and told at once.
THEOREM OneTerminalEvent == Spec => []NobodyLost
<1>1. ASSUME LostInv
      PROVE  NobodyLost
  <2> SUFFICES ASSUME NEW r \in Reqs
               PROVE  /\ Places(r) <= 1 /\ answers[r] <= 1
                      /\ Places(r) = 1 => answers[r] = 0
                      /\ Places(r) = 0 => answers[r] = 1 \/ r \in cancel
                      /\ r \in ToSet(order) => InSystem(r)
    BY DEF NobodyLost
  <2>1. Places(r) = IF r \in Members THEN 1 ELSE 0
    BY <1>1, PlaceCount
  <2>2. answers[r] \in {0, 1}
    BY <1>1 DEF LostInv, Told
  <2>3. r \in ToSet(order) => InSystem(r)
    BY <1>1, MembersAre DEF LostInv, Told
  <2> QED BY <1>1, <2>1, <2>2, <2>3 DEF LostInv, Told
<1> QED BY <1>1, LostInvariant, PTL

(***************************************************************************)
(* What is reserved                                                        *)
(***************************************************************************)
\* A sum grows with its summands.
LEMMA SumMono ==
  ASSUME NEW S, IsFiniteSet(S), NEW w, NEW v,
         \A x \in S : w[x] \in Nat /\ v[x] \in Nat /\ v[x] <= w[x]
  PROVE  SumFunctionOnSet(v, S) <= SumFunctionOnSet(w, S)
<1> DEFINE T == {X \in SUBSET S : SumFunctionOnSet(v, X) <= SumFunctionOnSet(w, X)}
<1>1. {} \in T
  BY SumEmpty
<1>2. ASSUME NEW X \in SUBSET S, NEW x \in S \ X, X \in T
      PROVE  X \cup {x} \in T
  <2>1. /\ IsFiniteSet(X) /\ (\A y \in X : w[y] \in Nat) /\ w[x] \in Nat
        /\ (\A y \in X : v[y] \in Nat) /\ v[x] \in Nat /\ x \notin X
    BY FS_Subset
  <2>2. SumFunctionOnSet(v, X \cup {x}) = v[x] + SumFunctionOnSet(v, X)
    BY <2>1, SumAdd
  <2>3. SumFunctionOnSet(w, X \cup {x}) = w[x] + SumFunctionOnSet(w, X)
    BY <2>1, SumAdd
  <2>4. SumFunctionOnSet(v, X) \in Nat /\ SumFunctionOnSet(w, X) \in Nat
    BY <2>1, SumNat
  <2>5. SumFunctionOnSet(v, X) <= SumFunctionOnSet(w, X)
    BY <1>2
  <2>6. SumFunctionOnSet(v, X \cup {x}) <= SumFunctionOnSet(w, X \cup {x})
    <3> DEFINE a == SumFunctionOnSet(v, X)
               b == SumFunctionOnSet(w, X)
    <3>1. a \in Nat /\ b \in Nat /\ a <= b /\ v[x] \in Nat /\ w[x] \in Nat /\ v[x] <= w[x]
      BY <2>1, <2>4, <2>5
    <3>2. SumFunctionOnSet(v, X \cup {x}) = v[x] + a
      BY <2>2
    <3>3. SumFunctionOnSet(w, X \cup {x}) = w[x] + b
      BY <2>3
    <3> HIDE DEF a, b
    <3> QED BY <3>1, <3>2, <3>3
  <2> QED BY <2>6
<1>3. \A X \in SUBSET S : X \in T
  <2> HIDE DEF T
  <2> QED BY <1>1, <1>2, SetInduct
<1> QED BY <1>3

LEMMA UsedNat ==
  ASSUME NEW c \in [Reqs -> Nat]
  PROVE  Used(c) \in Nat
BY SumNat, SchedulerAssumption DEF Used

\* What is used after one reservation changed.
LEMMA UsedOne ==
  ASSUME NEW c \in [Reqs -> Nat], NEW d \in [Reqs -> Nat], NEW r \in Reqs,
         \A x \in Reqs \ {r} : d[x] = c[x]
  PROVE  Used(d) + c[r] = Used(c) + d[r]
<1>2. PICK O : O = Reqs \ {r}
  OBVIOUS
<1>3. IsFiniteSet(Reqs) /\ IsFiniteSet(O)
  BY <1>2, SchedulerAssumption, FS_Subset
<1>4. SumFunctionOnSet(c, Reqs) = c[r] + SumFunctionOnSet(c, O)
  BY <1>2, <1>3, SumRemove
<1>5. SumFunctionOnSet(d, Reqs) = d[r] + SumFunctionOnSet(d, O)
  BY <1>2, <1>3, SumRemove
<1>6. SumFunctionOnSet(d, O) = SumFunctionOnSet(c, O)
  <2>1. \A x \in O : c[x] \in Nat /\ d[x] = c[x]
    BY <1>2
  <2> QED BY <1>3, <2>1, SumSame
<1>7. SumFunctionOnSet(c, O) \in Nat
  BY <1>2, <1>3, SumNat
<1> QED BY <1>4, <1>5, <1>6, <1>7 DEF Used

\* Giving reservations back frees room.
LEMMA ZeroFacts ==
  ASSUME NEW c \in [Reqs -> Nat], NEW D
  PROVE  /\ Zero(c, D) \in [Reqs -> Nat]
         /\ \A r \in Reqs : Zero(c, D)[r] = IF r \in D THEN 0 ELSE c[r]
         /\ Used(Zero(c, D)) <= Used(c)
<1>1. PICK z : z = Zero(c, D)
  OBVIOUS
<1>2. z \in [Reqs -> Nat] /\ \A r \in Reqs : z[r] = IF r \in D THEN 0 ELSE c[r]
  BY <1>1 DEF Zero
<1>3. \A r \in Reqs : c[r] \in Nat /\ z[r] \in Nat /\ z[r] <= c[r]
  BY <1>2
<1>4. SumFunctionOnSet(z, Reqs) <= SumFunctionOnSet(c, Reqs)
  BY <1>3, SchedulerAssumption, SumMono
<1> QED BY <1>1, <1>2, <1>4 DEF Used

LEMMA Sizes ==
  ASSUME NEW r \in Reqs
  PROVE  /\ Prompt[r] \in Nat \ {0} /\ MaxNew[r] \in Nat \ {0}
         /\ Reservation(r) \in Nat /\ Prompt[r] < Reservation(r)
         /\ CtxFull(r) \in Nat /\ SpareNow \in Nat
<1>1. /\ Prompt[r] \in Nat \ {0} /\ MaxNew[r] \in Nat \ {0}
      /\ Headroom \in Nat /\ Spare \in Nat
  BY SchedulerAssumption
<1>2. LeastOf(MaxNew[r], Headroom) \in Nat
  BY <1>1 DEF LeastOf
<1>3. PICK m \in Nat : m = IF Headroom = 0 THEN MaxNew[r] ELSE LeastOf(MaxNew[r], Headroom)
  BY <1>1, <1>2
<1>4. Reservation(r) = Prompt[r] + (IF r \in Marker THEN 1 ELSE 0) + 2 + m
  BY <1>3 DEF Reservation
<1>5. Reservation(r) \in Nat /\ Prompt[r] < Reservation(r)
  BY <1>1, <1>4
<1>6. CtxFull(r) \in Nat /\ SpareNow \in Nat
  BY <1>1 DEF CtxFull, SpareNow
<1> QED BY <1>1, <1>5, <1>6

\* One growth adds at most what is free.
LEMMA GrowOne ==
  ASSUME NEW c \in [Reqs -> Nat], NEW r \in Reqs, Used(c) <= Room
  PROVE  /\ Grow1(c, r) \in [Reqs -> Nat] /\ Used(Grow1(c, r)) <= Room
         /\ Grow1(c, r)[r] >= c[r]
         /\ \A q \in Reqs \ {r} : Grow1(c, r)[q] = c[q]
<1>1. PICK want : want = LeastOf(c[r] + GrowStep, CtxFull(r))
  OBVIOUS
<1>2. CASE Grow1(c, r) = c
  BY <1>2
<1>3. CASE Grow1(c, r) # c
  <2>1. /\ ~ (c[r] >= CtxFull(r)) /\ ~ (Used(c) + (want - c[r]) > Room)
        /\ Grow1(c, r) = [c EXCEPT ![r] = want]
    BY <1>1, <1>3 DEF Grow1
  <2>2. c[r] \in Nat /\ CtxFull(r) \in Nat /\ GrowStep \in Nat \ {0} /\ Room \in Nat
    BY Sizes, SchedulerAssumption
  <2>3. want \in Nat /\ want > c[r]
    BY <1>1, <2>1, <2>2 DEF LeastOf
  <2>5. PICK d \in [Reqs -> Nat] : d = [c EXCEPT ![r] = want]
    BY <2>3
  <2>6. Used(d) \in Nat /\ Used(c) \in Nat
    BY UsedNat
  <2>7. Used(d) + c[r] = Used(c) + want
    <3>1. d[r] = want /\ \A x \in Reqs \ {r} : d[x] = c[x]
      BY <2>5
    <3> QED BY <3>1, UsedOne
  <2>8. Used(d) <= Room
    BY <2>1, <2>2, <2>3, <2>6, <2>7
  <2> QED BY <2>1, <2>2, <2>3, <2>5, <2>8
<1> QED BY <1>2, <1>3

\* After take_stalled: streams have grown, within the room there is.
LEMMA GrownFacts ==
  ASSUME cap \in [Reqs -> Nat], streams \in Seq(Reqs), Used(cap) <= Room
  PROVE  /\ Grown \in [Reqs -> Nat] /\ Used(Grown) <= Room
         /\ \A r \in Reqs : Grown[r] >= cap[r]
         /\ \A r \in Reqs \ ToSet(streams) : Grown[r] = cap[r]
<1> DEFINE n == Len(streams)
           V == {c \in [Reqs -> Nat] :
                   /\ Used(c) <= Room /\ \A r \in Reqs : c[r] >= cap[r]
                   /\ \A r \in Reqs \ ToSet(streams) : c[r] = cap[r]}
           step == [i \in 1 .. n |-> [v \in V |-> Grow1(v, streams[i])]]
<1>1. n \in Nat /\ cap \in V
  OBVIOUS
<1>2. ASSUME NEW i \in 1 .. n, NEW v \in V
      PROVE  step[i][v] \in V /\ step[i][v] = Grow1(v, streams[i])
  <2>1. PICK q \in Reqs : q = streams[i] /\ q \in ToSet(streams)
    BY DEF ToSet
  <2>2. v \in [Reqs -> Nat] /\ Used(v) <= Room
    OBVIOUS
  <2>3. PICK g : g = Grow1(v, q)
    OBVIOUS
  <2>4. /\ g \in [Reqs -> Nat] /\ Used(g) <= Room /\ g[q] >= v[q]
        /\ \A x \in Reqs \ {q} : g[x] = v[x]
    BY <2>2, <2>3, GrowOne
  <2>5. ASSUME NEW x \in Reqs PROVE g[x] >= cap[x]
    <3>1. v[x] >= cap[x] /\ v[x] \in Nat /\ g[x] \in Nat /\ cap[x] \in Nat
      BY <2>4
    <3>2. g[x] >= v[x]
      <4>1. CASE x = q
        BY <2>4, <4>1
      <4>2. CASE x # q
        <5>1. g[x] = v[x]
          BY <2>4, <4>2
        <5> QED BY <3>1, <5>1
      <4> QED BY <4>1, <4>2
    <3> QED BY <3>1, <3>2
  <2>6. ASSUME NEW x \in Reqs \ ToSet(streams) PROVE g[x] = cap[x]
    BY <2>1, <2>4
  <2>7. g \in V
    BY <2>4, <2>5, <2>6
  <2>8. step[i][v] = g
    BY <2>1, <2>3
  <2> HIDE DEF V, step
  <2> QED BY <2>1, <2>3, <2>7, <2>8
<1>3. PICK g \in [0 .. n -> V] : UpTo(g, n, cap, step)
  <2> HIDE DEF n, V, step
  <2> QED BY <1>1, <1>2, Recursion
<1> HIDE DEF V
<1>4. g = [i \in 0 .. n |-> IF i = 0 THEN cap ELSE Grow1(g[i - 1], streams[i])]
  <2>1. ASSUME NEW i \in 0 .. n
        PROVE  g[i] = IF i = 0 THEN cap ELSE Grow1(g[i - 1], streams[i])
    <3>1. g[i] = IF i = 0 THEN cap ELSE step[i][g[i - 1]]
      <4> HIDE DEF step, n
      <4> QED BY <1>3 DEF UpTo
    <3>2. CASE i = 0
      BY <3>1, <3>2
    <3>3. CASE i # 0
      <4>1. i \in 1 .. n /\ g[i - 1] \in V
        <5>1. i - 1 \in 0 .. n /\ i \in 1 .. n
          BY <1>1, <3>3
        <5> HIDE DEF n
        <5> QED BY <5>1
      <4>2. step[i][g[i - 1]] = Grow1(g[i - 1], streams[i])
        BY <4>1, <1>2
      <4> HIDE DEF step, n
      <4> QED BY <3>1, <3>3, <4>2
    <3> QED BY <3>2, <3>3
  <2> HIDE DEF n
  <2> QED BY <1>1, <2>1
<1>5. Grown \in V
  <2> DEFINE it == CHOOSE f : f = [i \in 0 .. n |-> IF i = 0 THEN cap
                                                   ELSE Grow1(f[i - 1], streams[i])]
  <2>1. Grown = it[n]
    BY DEF Grown
  <2>2. it = [i \in 0 .. n |-> IF i = 0 THEN cap ELSE Grow1(it[i - 1], streams[i])]
    <3> HIDE DEF n
    <3> QED BY <1>4
  <2>3. n \in 0 .. n
    BY <1>1
  <2> DEFINE P == {i \in Nat : i <= n => it[i] = g[i]}
  <2> HIDE DEF it
  <2>4. 0 \in P
    BY <1>1, <1>4, <2>2
  <2>5. \A i \in Nat : i \in P => i + 1 \in P
    <3> SUFFICES ASSUME NEW i \in Nat, i \in P, i + 1 <= n
                 PROVE  it[i + 1] = g[i + 1]
      OBVIOUS
    <3>1. i + 1 \in 0 .. n /\ i + 1 # 0 /\ (i + 1) - 1 = i /\ it[i] = g[i]
      BY <1>1
    <3>2. it[i + 1] = Grow1(it[i], streams[i + 1])
      <4> HIDE DEF n, P
      <4> QED BY <2>2, <3>1
    <3>3. g[i + 1] = Grow1(g[i], streams[i + 1])
      <4> HIDE DEF n, P
      <4> QED BY <1>4, <3>1
    <3> HIDE DEF P
    <3> QED BY <3>1, <3>2, <3>3
  <2>6. n \in P
    <3> HIDE DEF P, n
    <3> QED BY <1>1, <2>4, <2>5, NatInduct
  <2>7. it[n] = g[n] /\ g[n] \in V
    BY <1>1, <2>3, <2>6
  <2> HIDE DEF n
  <2> QED BY <2>1, <2>7
<1> QED BY <1>5 DEF V

\* A step that touches neither reservations nor those that hold them.
LEMMA SameRoom ==
  ASSUME LeakInv, LostInv', UNCHANGED <<cap, pos, tokens, spare, prefills, streams>>,
         pc' = "scan" => spare > 0
  PROVE  LeakInv'
<1>1. Counts' /\ PromptFits'
  BY DEF LeakInv, Counts, PromptFits
<1>2. NothingLeaks'
  BY DEF LeakInv, NothingLeaks, Owners, Used
<1> QED BY <1>1, <1>2 DEF LeakInv

\* Those in D give back what they hold; the others may have grown before.
LEMMA GiveBack ==
  ASSUME LeakInv, LostInv', NEW D, NEW c \in [Reqs -> Nat], NEW p \in [Reqs -> Nat],
         NEW t \in [Reqs -> Nat], cap' = Zero(c, D), pos' = Zero(p, D), tokens' = Zero(t, D),
         Used(c) <= Room, \A r \in Reqs : c[r] >= cap[r],
         \A r \in Reqs \ ToSet(streams) : c[r] = cap[r],
         \A r \in ToSet(streams) \ D : p[r] <= c[r],
         ToSet(prefills') = ToSet(prefills) \ D, ToSet(streams') = ToSet(streams) \ D,
         spare' \in Nat, spare' + Len(prefills') = NScratch, pc' # "scan"
  PROVE  LeakInv'
<1>1. /\ cap' \in [Reqs -> Nat] /\ Used(cap') <= Used(c)
      /\ \A r \in Reqs : cap'[r] = IF r \in D THEN 0 ELSE c[r]
  <2>1. cap' \in [Reqs -> Nat] /\ \A r \in Reqs : cap'[r] = IF r \in D THEN 0 ELSE c[r]
    BY DEF Zero
  <2>2. Used(Zero(c, D)) <= Used(c)
    BY ZeroFacts
  <2>3. Used(cap') = Used(Zero(c, D))
    OBVIOUS
  <2> QED BY <2>1, <2>2, <2>3
<1>2. /\ pos' \in [Reqs -> Nat] /\ tokens' \in [Reqs -> Nat]
      /\ \A r \in Reqs : pos'[r] = IF r \in D THEN 0 ELSE p[r]
  BY DEF Zero
<1>3. Counts'
  BY <1>1, <1>2 DEF Counts
<1>4. ToSet(prefills) \subseteq Reqs /\ ToSet(streams) \subseteq Reqs
  BY ToSetFinite DEF LeakInv, LostInv, TypeOK
<1>5. \A r \in Reqs : cap[r] \in Nat /\ c[r] \in Nat /\ Prompt[r] \in Nat
  BY SchedulerAssumption DEF LeakInv, Counts
<1>6. PromptFits'
  <2> SUFFICES ASSUME NEW r \in ToSet(prefills) \ D
               PROVE  Prompt[r] <= cap'[r]
    BY DEF PromptFits
  <2>1. r \in Reqs /\ Prompt[r] <= cap[r] /\ cap'[r] = c[r] /\ c[r] >= cap[r]
    BY <1>1, <1>4 DEF LeakInv, PromptFits
  <2> QED BY <2>1, <1>5
<1>7. ASSUME NEW r \in Reqs
      PROVE  c[r] > 0 <=> r \in ToSet(prefills) \cup ToSet(streams)
  <2>1. cap[r] > 0 <=> r \in ToSet(prefills) \cup ToSet(streams)
    BY <1>4 DEF LeakInv, NothingLeaks, Owners
  <2>2. c[r] >= cap[r] /\ (r \notin ToSet(streams) => c[r] = cap[r])
    OBVIOUS
  <2> QED BY <2>1, <2>2, <1>5
<1>8. Owners' = Owners \ D /\ Owners' = ToSet(prefills') \cup ToSet(streams')
  <2>1. Owners = ToSet(prefills) \cup ToSet(streams)
    BY DEF LeakInv, NothingLeaks
  <2>2. Owners' = {r \in Reqs : cap'[r] > 0}
    BY DEF Owners
  <2>3. ASSUME NEW r \in Reqs
        PROVE  cap'[r] > 0 <=> r \notin D /\ r \in ToSet(prefills) \cup ToSet(streams)
    <3>1. CASE r \in D
      BY <3>1, <1>1
    <3>2. CASE r \notin D
      BY <3>2, <1>1, <1>7
    <3> QED BY <3>1, <3>2
  <2>4. Owners' = (ToSet(prefills) \cup ToSet(streams)) \ D
    BY <2>2, <2>3, <1>4
  <2> QED BY <2>1, <2>4
<1>9. Cardinality(Owners') <= NSlots
  <2>1. IsFiniteSet(Owners) /\ Owners' \subseteq Owners
    BY <1>8, SchedulerAssumption, FS_Subset DEF Owners
  <2>2. /\ Cardinality(Owners') <= Cardinality(Owners) /\ IsFiniteSet(Owners')
    BY <2>1, FS_Subset
  <2>3. Cardinality(Owners) \in Nat /\ Cardinality(Owners') \in Nat
    BY <2>1, <2>2, FS_CardinalityType
  <2>4. Cardinality(Owners) <= NSlots /\ NSlots \in Nat
    BY SchedulerAssumption DEF LeakInv, NothingLeaks
  <2> QED BY <2>2, <2>3, <2>4
<1>10. Used(cap') <= Room
  <2>1. Used(cap') \in Nat /\ Used(c) \in Nat /\ Room \in Nat
    BY <1>1, UsedNat, SchedulerAssumption
  <2> QED BY <1>1, <2>1
<1>11. \A r \in ToSet(streams') : pos'[r] <= cap'[r]
  BY <1>1, <1>2, <1>4
<1>12. NothingLeaks'
  BY <1>8, <1>9, <1>10, <1>11 DEF NothingLeaks
<1> QED BY <1>3, <1>6, <1>12 DEF LeakInv

\* The same, when nothing has grown.
LEMMA Released ==
  ASSUME LeakInv, LostInv', NEW D, Release(D),
         ToSet(prefills') = ToSet(prefills) \ D, ToSet(streams') = ToSet(streams) \ D,
         spare' \in Nat, spare' + Len(prefills') = NScratch, pc' # "scan"
  PROVE  LeakInv'
<1>1. cap \in [Reqs -> Nat] /\ pos \in [Reqs -> Nat] /\ tokens \in [Reqs -> Nat]
  BY DEF LeakInv, Counts
<1>2. Used(cap) <= Room /\ \A r \in ToSet(streams) \ D : pos[r] <= cap[r]
  BY DEF LeakInv, NothingLeaks
<1>3. \A r \in Reqs : cap[r] >= cap[r]
  BY <1>1
<1> QED BY <1>1, <1>2, <1>3, GiveBack DEF Release

\* One job fewer, one scratch state more.
LEMMA ScratchBack ==
  ASSUME LeakInv, prefills # <<>>, JobLeaves
  PROVE  spare' \in Nat /\ spare' + Len(prefills') = NScratch
<1>1. PICK w : w = Without(prefills, {TheJob})
  OBVIOUS
<1>2. /\ TheJob \in ToSet(prefills) /\ w \in Seq(Reqs) /\ IsInjective(w)
      /\ ToSet(w) = ToSet(prefills) \ {TheJob}
  BY <1>1, JobInFlight, WithoutKeeps DEF LeakInv, LostInv, TypeOK, Apart
<1>3. prefills' = w /\ spare' = spare + 1 /\ spare \in Nat
  BY <1>1 DEF JobLeaves, LeakInv, Counts
<1>4. /\ IsFiniteSet(ToSet(prefills)) /\ Cardinality(ToSet(prefills)) = Len(prefills)
      /\ Cardinality(ToSet(w)) = Len(w)
  BY <1>2, InjectiveLength DEF LeakInv, LostInv, TypeOK, Apart
<1>5. Cardinality(ToSet(w)) = Cardinality(ToSet(prefills)) - 1
  BY <1>2, <1>4, FS_RemoveElement
<1>6. Len(prefills) \in Nat /\ Len(w) \in Nat
  BY <1>2 DEF LeakInv, LostInv, TypeOK
<1>7. spare + Len(prefills) = NScratch
  BY DEF LeakInv, NothingLeaks
<1>8. Len(w) = Len(prefills) - 1
  BY <1>4, <1>5
<1> QED BY <1>3, <1>6, <1>7, <1>8

LEMMA PurgeLeaks ==
  ASSUME LeakInv, LostInv', Purge
  PROVE  LeakInv'
<1>1. PICK D : D = ToSet(streams) \cap cancel
  OBVIOUS
<1>2. /\ streams' = Without(streams, D) /\ Release(D) /\ pc' = "pick"
      /\ UNCHANGED <<prefills, spare>>
  BY <1>1 DEF Purge, jobs
<1>3. ToSet(streams') = ToSet(streams) \ D
  BY <1>2, WithoutKeeps DEF LeakInv, LostInv, TypeOK
<1>4. ToSet(prefills') = ToSet(prefills) \ D
  BY <1>1, <1>2 DEF LeakInv, LostInv, Apart
<1>5. spare' \in Nat /\ spare' + Len(prefills') = NScratch
  BY <1>2 DEF LeakInv, Counts, NothingLeaks
<1> QED BY <1>2, <1>3, <1>4, <1>5, Released

LEMMA AbortLeaks ==
  ASSUME LeakInv, LostInv', Abort
  PROVE  LeakInv'
<1>1. PICK D : D = ToSet(streams) \cup ToSet(prefills) \cup ToSet(queue)
  OBVIOUS
<1>2. /\ Release(D) /\ streams' = <<>> /\ prefills' = <<>> /\ pc' = "top"
      /\ spare' = spare + Len(prefills)
  BY <1>1 DEF Abort
<1>3. ToSet(prefills') = ToSet(prefills) \ D /\ ToSet(streams') = ToSet(streams) \ D
  BY <1>1, <1>2, EmptyFacts
<1>4. spare' \in Nat /\ spare' + Len(prefills') = NScratch
  <2>1. Len(prefills) \in Nat /\ spare \in Nat /\ spare + Len(prefills) = NScratch
    BY DEF LeakInv, LostInv, TypeOK, Counts, NothingLeaks
  <2>2. Len(prefills') = 0
    BY <1>2
  <2> QED BY <1>2, <2>1, <2>2
<1>5. pc' # "scan"
  BY <1>2
<1> QED BY <1>2, <1>3, <1>4, <1>5, Released

\* A job ends without a stream: its reservation and its scratch state come back.
LEMMA JobLeaks ==
  ASSUME LeakInv, LostInv', prefills # <<>>, JobLeaves, Release({TheJob}),
         UNCHANGED streams, pc' = "top"
  PROVE  LeakInv'
<1>1. PICK D : D = {TheJob}
  OBVIOUS
<1>2. TheJob \in ToSet(prefills) /\ ToSet(prefills') = ToSet(prefills) \ D
  BY <1>1, JobGone DEF LeakInv
<1>3. ToSet(streams') = ToSet(streams) \ D
  BY <1>1, <1>2 DEF LeakInv, LostInv, Apart
<1>4. spare' \in Nat /\ spare' + Len(prefills') = NScratch
  BY ScratchBack
<1>5. Release(D) /\ pc' # "scan"
  BY <1>1
<1> QED BY <1>2, <1>3, <1>4, <1>5, Released

\* A job becomes a stream: it keeps its reservation, which holds its prompt.
LEMMA AdmittedLeaks ==
  ASSUME LeakInv, LostInv', prefills # <<>>, JobLeaves, streams' = Append(streams, TheJob),
         pos' = [pos EXCEPT ![TheJob] = Prompt[TheJob]], cap' = cap, pc' = "top",
         tokens' = [tokens EXCEPT ![TheJob] = IF TheJob \in Marker THEN 0 ELSE 1]
  PROVE  LeakInv'
<1>1. PICK r : r = TheJob
  OBVIOUS
<1>2. /\ r \in Reqs /\ r \in ToSet(prefills) /\ ToSet(prefills') = ToSet(prefills) \ {r}
  BY <1>1, JobGone DEF LeakInv
<1>3. ToSet(streams') = ToSet(streams) \cup {r}
  BY <1>1, ToSetAppend DEF LeakInv, LostInv, TypeOK
<1>4. spare' \in Nat /\ spare' + Len(prefills') = NScratch
  BY ScratchBack
<1>5. Prompt[r] \in Nat
  BY <1>2, SchedulerAssumption
<1>6. /\ pos' \in [Reqs -> Nat] /\ pos'[r] = Prompt[r]
      /\ \A q \in Reqs \ {r} : pos'[q] = pos[q]
  BY <1>1, <1>2, <1>5 DEF LeakInv, Counts
<1>7. tokens' \in [Reqs -> Nat]
  BY <1>1, <1>2 DEF LeakInv, Counts
<1>8. Counts'
  BY <1>4, <1>6, <1>7 DEF LeakInv, Counts
<1>9. PromptFits'
  BY <1>2 DEF LeakInv, PromptFits
<1>10. ToSet(streams) \subseteq Reqs
  BY ToSetFinite DEF LeakInv, LostInv, TypeOK
<1>11. \A q \in ToSet(streams') : pos'[q] <= cap'[q]
  <2>1. ASSUME NEW q \in ToSet(streams') PROVE pos'[q] <= cap'[q]
    <3>1. CASE q = r
      BY <1>2, <1>6, <3>1 DEF LeakInv, PromptFits
    <3>2. CASE q # r
      BY <1>3, <1>6, <1>10, <3>2 DEF LeakInv, NothingLeaks
    <3> QED BY <3>1, <3>2
  <2> QED BY <2>1
<1>12. Owners' = ToSet(prefills') \cup ToSet(streams') /\ Owners' = Owners
  BY <1>2, <1>3 DEF LeakInv, NothingLeaks, Owners
<1>13. NothingLeaks'
  BY <1>4, <1>11, <1>12 DEF LeakInv, NothingLeaks, Used
<1> QED BY <1>8, <1>9, <1>13 DEF LeakInv

LEMMA ScanStartLeaks ==
  ASSUME LeakInv, LostInv', NEW n, ScanStart(n)
  PROVE  LeakInv'
<1>1. PICK r : r = First
  OBVIOUS
<1>2. /\ Scanning /\ queue' = Tail(queue) /\ prefills' = Append(prefills, r)
      /\ cap' = [cap EXCEPT ![r] = Reservation(r)] /\ spare' = spare - 1
      /\ UNCHANGED <<streams, pos, tokens>> /\ pc' = "pick" /\ ~ SlotsFull /\ FitsNow(r)
  BY <1>1 DEF ScanStart, Candidate
<1>3. r \in Reqs /\ r \in ToSet(queue)
  BY <1>1, <1>2, FirstGone DEF LeakInv
<1>4. r \notin ToSet(prefills) /\ r \notin ToSet(streams)
  BY <1>3 DEF LeakInv, LostInv, Apart
<1>5. ToSet(prefills') = ToSet(prefills) \cup {r} /\ Len(prefills') = Len(prefills) + 1
  BY <1>2, ToSetAppend DEF LeakInv, LostInv, TypeOK
<1>6. spare' \in Nat /\ spare' + Len(prefills') = NScratch
  <2>1. Len(prefills) \in Nat /\ spare \in Nat /\ spare > 0 /\ spare + Len(prefills) = NScratch
    BY <1>2 DEF LeakInv, LostInv, TypeOK, Counts, NothingLeaks, Scanning
  <2> QED BY <1>2, <1>5, <2>1
<1>7. Reservation(r) \in Nat /\ Prompt[r] \in Nat \ {0} /\ Prompt[r] < Reservation(r) /\ SpareNow \in Nat
  BY <1>3, Sizes
<1>8. /\ cap' \in [Reqs -> Nat] /\ cap'[r] = Reservation(r)
      /\ \A q \in Reqs \ {r} : cap'[q] = cap[q]
  BY <1>2, <1>3, <1>7 DEF LeakInv, Counts
<1>9. Counts'
  BY <1>2, <1>6, <1>8 DEF LeakInv, Counts
<1>10. ToSet(streams) \subseteq Reqs /\ ToSet(prefills) \subseteq Reqs
  BY ToSetFinite DEF LeakInv, LostInv, TypeOK
<1>11. PromptFits'
  <2> SUFFICES ASSUME NEW q \in ToSet(prefills')
               PROVE  Prompt[q] <= cap'[q]
    BY DEF PromptFits
  <2>1. CASE q = r
    BY <1>7, <1>8, <2>1
  <2>2. CASE q # r
    BY <1>5, <1>8, <1>10, <2>2 DEF LeakInv, PromptFits
  <2> QED BY <2>1, <2>2
<1>12. \A q \in ToSet(streams') : pos'[q] <= cap'[q]
  BY <1>2, <1>4, <1>8, <1>10 DEF LeakInv, NothingLeaks
<1>13. cap[r] = 0 /\ r \notin Owners
  <2>1. r \notin Owners
    BY <1>4 DEF LeakInv, NothingLeaks
  <2>2. ~ (cap[r] > 0) /\ cap[r] \in Nat
    BY <1>3, <2>1 DEF Owners, LeakInv, Counts
  <2> QED BY <2>1, <2>2
<1>14. Owners' = Owners \cup {r}
  <2>1. Owners' = {q \in Reqs : cap'[q] > 0}
    BY DEF Owners
  <2>2. cap'[r] > 0
    BY <1>7, <1>8
  <2> QED BY <1>3, <1>8, <2>1, <2>2 DEF Owners
<1>15. Owners' = ToSet(prefills') \cup ToSet(streams')
  BY <1>2, <1>5, <1>14 DEF LeakInv, NothingLeaks
<1>16. Cardinality(Owners') <= NSlots
  <2>1. IsFiniteSet(Owners)
    BY SchedulerAssumption, FS_Subset DEF Owners
  <2>2. Cardinality(Owners') = Cardinality(Owners) + 1 /\ Cardinality(Owners) \in Nat
    BY <2>1, <1>13, <1>14, FS_AddElement, FS_CardinalityType
  <2>3. ~ (Cardinality(Owners) >= NSlots) /\ NSlots \in Nat
    BY <1>2, SchedulerAssumption DEF SlotsFull
  <2> QED BY <2>2, <2>3
<1>17. Used(cap') <= Room
  <2>1. PICK d \in [Reqs -> Nat] : d = cap'
    BY <1>8
  <2>2. PICK c \in [Reqs -> Nat] : c = cap
    BY DEF LeakInv, Counts
  <2>3. \A x \in Reqs \ {r} : d[x] = c[x]
    BY <1>8, <2>1, <2>2
  <2>4. Used(d) + c[r] = Used(c) + d[r]
    BY <1>3, <2>3, UsedOne
  <2>5. Used(d) \in Nat /\ Used(c) \in Nat /\ Room \in Nat
    BY UsedNat, SchedulerAssumption
  <2>6. Used(c) + Reservation(r) + SpareNow <= Room
    BY <1>2, <2>2 DEF FitsNow
  <2>7. Used(d) <= Room
    BY <1>7, <1>8, <1>13, <2>1, <2>2, <2>4, <2>5, <2>6
  <2> QED BY <2>1, <2>7
<1>18. NothingLeaks'
  BY <1>6, <1>12, <1>15, <1>16, <1>17 DEF NothingLeaks
<1> QED BY <1>9, <1>11, <1>18 DEF LeakInv

\* What the streams may use of their reservations within a decode tick.
LEMMA DecodeTick ==
  ASSUME LeakInv, LostInv', NEW D, D \subseteq ToSet(streams), NEW p \in [Reqs -> Nat],
         NEW t \in [Reqs -> Nat], cap' = Zero(Grown, D), pos' = Zero(p, D), tokens' = Zero(t, D),
         \A r \in ToSet(streams) \ D : p[r] <= Grown[r],
         ToSet(streams') = ToSet(streams) \ D, UNCHANGED jobs, pc' # "scan"
  PROVE  LeakInv'
<1>1. PICK c : c = Grown
  OBVIOUS
<1>2. /\ c \in [Reqs -> Nat] /\ Used(c) <= Room /\ \A r \in Reqs : c[r] >= cap[r]
      /\ \A r \in Reqs \ ToSet(streams) : c[r] = cap[r]
  <2>1. cap \in [Reqs -> Nat] /\ streams \in Seq(Reqs) /\ Used(cap) <= Room
    BY DEF LeakInv, LostInv, TypeOK, Counts, NothingLeaks
  <2> QED BY <1>1, <2>1, GrownFacts
<1>3. /\ cap' = Zero(c, D) /\ \A r \in ToSet(streams) \ D : p[r] <= c[r]
  BY <1>1
<1>4. ToSet(prefills') = ToSet(prefills) \ D
  BY DEF LeakInv, LostInv, Apart, jobs
<1>5. spare' \in Nat /\ spare' + Len(prefills') = NScratch
  BY DEF LeakInv, Counts, NothingLeaks, jobs
<1> HIDE <1>1
<1> QED BY <1>2, <1>3, <1>4, <1>5, GiveBack

LEMMA StreamRoom ==
  ASSUME LeakInv
  PROVE  /\ Grown \in [Reqs -> Nat] /\ cap \in [Reqs -> Nat] /\ pos \in [Reqs -> Nat]
         /\ tokens \in [Reqs -> Nat] /\ ToSet(streams) \subseteq Reqs
         /\ \A r \in ToSet(streams) : pos[r] <= Grown[r]
<1>1. /\ cap \in [Reqs -> Nat] /\ pos \in [Reqs -> Nat] /\ tokens \in [Reqs -> Nat]
      /\ ToSet(streams) \subseteq Reqs /\ streams \in Seq(Reqs) /\ Used(cap) <= Room
  BY ToSetFinite DEF LeakInv, LostInv, TypeOK, Counts, NothingLeaks
<1>2. Grown \in [Reqs -> Nat] /\ \A r \in Reqs : Grown[r] >= cap[r]
  BY <1>1, GrownFacts
<1>3. ASSUME NEW r \in ToSet(streams) PROVE pos[r] <= Grown[r]
  <2>1. pos[r] <= cap[r] /\ r \in Reqs
    BY <1>1 DEF LeakInv, NothingLeaks
  <2>2. pos[r] \in Nat /\ cap[r] \in Nat /\ Grown[r] \in Nat /\ Grown[r] >= cap[r]
    BY <1>1, <1>2, <2>1
  <2> QED BY <2>1, <2>2
<1> QED BY <1>1, <1>2, <1>3

LEMMA ForceEndLeaks ==
  ASSUME LeakInv, LostInv', ForceEnd
  PROVE  LeakInv'
<1>1. PICK r \in ToSet(Blocked) :
        /\ streams' = Without(Blocked, {r}) /\ cap' = Zero(Grown, {r})
        /\ pos' = Zero(pos, {r}) /\ tokens' = Zero(tokens, {r})
  BY DEF ForceEnd
<1>2. PICK D : D = {r}
  OBVIOUS
<1>3. PICK w : w = Blocked
  OBVIOUS
<1>4. w \in Seq(Reqs) /\ ToSet(w) = ToSet(streams)
  BY <1>3, RunnableFacts, NoneRunnable DEF ForceEnd, LeakInv
<1>5. streams' = Without(w, D)
  BY <1>1, <1>2, <1>3
<1>6. ToSet(streams') = ToSet(streams) \ D
  BY <1>4, <1>5, WithoutKeeps
<1>7. D \subseteq ToSet(streams)
  BY <1>2, <1>3, <1>4
<1>8. UNCHANGED jobs /\ pc' # "scan"
  BY DEF ForceEnd, Decoding
<1>9. cap' = Zero(Grown, D) /\ pos' = Zero(pos, D) /\ tokens' = Zero(tokens, D)
  BY <1>1, <1>2
<1>10. /\ pos \in [Reqs -> Nat] /\ tokens \in [Reqs -> Nat]
       /\ \A q \in ToSet(streams) \ D : pos[q] <= Grown[q]
  BY StreamRoom
<1> QED BY <1>6, <1>7, <1>8, <1>9, <1>10, DecodeTick

LEMMA NothingRunsLeaks ==
  ASSUME LeakInv, LostInv', NothingRuns
  PROVE  LeakInv'
<1>1. PICK D : D = {}
  OBVIOUS
<1>2. /\ streams' = Blocked /\ cap' = Grown /\ pos' = pos /\ tokens' = tokens /\ pc' = "top"
      /\ UNCHANGED jobs /\ Runnable = <<>>
  BY DEF NothingRuns
<1>3. ToSet(streams') = ToSet(streams) \ D
  BY <1>1, <1>2, NoneRunnable DEF LeakInv
<1>4. /\ Grown \in [Reqs -> Nat] /\ pos \in [Reqs -> Nat] /\ tokens \in [Reqs -> Nat]
      /\ \A q \in ToSet(streams) \ D : pos[q] <= Grown[q]
  BY StreamRoom
<1>5. ASSUME NEW c \in [Reqs -> Nat] PROVE Zero(c, D) = c
  BY <1>1 DEF Zero
<1>6. cap' = Zero(Grown, D) /\ pos' = Zero(pos, D) /\ tokens' = Zero(tokens, D)
  BY <1>2, <1>4, <1>5
<1>7. D \subseteq ToSet(streams) /\ pc' # "scan"
  BY <1>1, <1>2
<1> QED BY <1>2, <1>3, <1>4, <1>6, <1>7, DecodeTick

LEMMA StepLeaks ==
  ASSUME LeakInv, LostInv', NEW kept \in [Reqs -> 1 .. MaxRun], NEW eos, Step(kept, eos)
  PROVE  LeakInv'
<1>1. PICK run : run = ToSet(Runnable)
  OBVIOUS
<1>2. PICK D : D = eos \cup {r \in run : tokens[r] + kept[r] >= MaxNew[r]}
  OBVIOUS
<1>3. PICK p : p = [r \in Reqs |-> IF r \in run THEN pos[r] + kept[r] ELSE pos[r]]
  OBVIOUS
<1>4. PICK t : t = [r \in Reqs |-> IF r \in run THEN tokens[r] + kept[r] ELSE tokens[r]]
  OBVIOUS
<1>5. /\ eos \subseteq run /\ \A r \in run : kept[r] <= MaxKept(r)
      /\ cap' = Zero(Grown, D) /\ streams' = Without(Runnable, D) \o Blocked
      /\ UNCHANGED jobs /\ pc' = "top"
  BY <1>1, <1>2 DEF Step
<1>6. pos' = Zero(p, D) /\ tokens' = Zero(t, D)
  BY <1>1, <1>2, <1>3, <1>4 DEF Step
<1>7. /\ Grown \in [Reqs -> Nat] /\ pos \in [Reqs -> Nat] /\ tokens \in [Reqs -> Nat]
      /\ ToSet(streams) \subseteq Reqs
      /\ \A r \in ToSet(streams) : pos[r] <= Grown[r]
  BY StreamRoom
<1>8. PICK q, w : q = Without(Runnable, D) /\ w = Blocked
  OBVIOUS
<1>9. /\ q \in Seq(Reqs) /\ w \in Seq(Reqs) /\ ToSet(q) = ToSet(Runnable) \ D
      /\ ToSet(w) = {r \in ToSet(streams) : ~ CanStep(r)}
      /\ ToSet(Runnable) = {r \in ToSet(streams) : CanStep(r)}
  BY <1>8, RunnableFacts, WithoutKeeps DEF LeakInv
<1>10. D \subseteq run /\ run \subseteq ToSet(streams)
  BY <1>1, <1>2, <1>5, <1>9
<1>11. ToSet(streams') = ToSet(streams) \ D
  <2>1. streams' = q \o w
    BY <1>5, <1>8
  <2>2. ToSet(streams') = ToSet(q) \cup ToSet(w)
    BY <1>9, <2>1, ToSetConcat
  <2> QED BY <1>1, <1>9, <1>10, <2>2
<1>12. \A r \in Reqs : kept[r] \in Nat
  BY SchedulerAssumption
<1>13. p \in [Reqs -> Nat] /\ t \in [Reqs -> Nat]
  BY <1>3, <1>4, <1>7, <1>12
<1>14. ASSUME NEW r \in ToSet(streams) \ D
       PROVE  p[r] <= Grown[r]
  <2>1. r \in Reqs
    BY <1>7
  <2>2. CASE r \in run
    <3>1. kept[r] <= MaxKept(r)
      BY <1>5, <2>2
    <3>2. /\ kept[r] \in Nat /\ pos[r] \in Nat /\ Grown[r] \in Nat /\ tokens[r] \in Nat
          /\ MaxNew[r] \in Nat /\ MaxRun \in Nat
      BY <1>7, <1>12, <2>1, SchedulerAssumption
    <3>3. kept[r] <= Grown[r] - pos[r]
      BY <3>1, <3>2 DEF MaxKept, LeastOf
    <3>4. p[r] = pos[r] + kept[r]
      BY <1>3, <2>1, <2>2
    <3> QED BY <3>2, <3>3, <3>4
  <2>3. CASE r \notin run
    BY <1>3, <1>7, <2>1, <2>3
  <2> QED BY <2>2, <2>3
<1>15. D \subseteq ToSet(streams) /\ pc' # "scan"
  BY <1>5, <1>10
<1> QED BY <1>5, <1>6, <1>11, <1>13, <1>14, <1>15, DecodeTick

PhaseOK == phase \in {"prefill", "decode"}

LEMMA PhaseNext ==
  ASSUME PhaseOK, [Next]_vars
  PROVE  PhaseOK'
<1>1. CASE SchedStep
  <2>1. CASE Intake \/ Purge \/ Pick
    BY <2>1 DEF Intake, Purge, Pick, PhaseOK
  <2>2. CASE ScanEnds \/ ScanCancelled \/ ScanRefuse \/ ScanDefer \/ ScanHold
    BY <2>2 DEF ScanEnds, ScanCancelled, ScanRefuse, ScanDefer, ScanHold, PhaseOK
  <2>3. CASE \E n \in 1 .. MaxChunks : ScanStart(n)
    BY <2>3 DEF ScanStart, PhaseOK
  <2>4. CASE ScanFails \/ Merge \/ DecodeFails \/ Abort
    BY <2>4 DEF ScanFails, Merge, DecodeFails, Abort, PhaseOK
  <2>5. CASE ChoosePhase
    BY <2>5 DEF ChoosePhase, NextPhase, PhaseOK
  <2>6. CASE JobDropped \/ JobChunk \/ JobAdmitted
    BY <2>6 DEF JobDropped, JobChunk, JobAdmitted, PhaseOK
  <2>7. CASE ForceEnd \/ NothingRuns
    BY <2>7 DEF ForceEnd, NothingRuns, PhaseOK
  <2>8. CASE \E kept \in [Reqs -> 1 .. MaxRun], eos \in SUBSET Reqs : Step(kept, eos)
    BY <2>8 DEF Step, PhaseOK
  <2> QED BY <1>1, <2>1, <2>2, <2>3, <2>4, <2>5, <2>6, <2>7, <2>8 DEF SchedStep
<1>2. CASE BudgetSpent \/ UNCHANGED vars
  BY <1>2 DEF BudgetSpent, vars, PhaseOK
<1>3. CASE \E r \in Reqs : Send(r) \/ Cancel(r) \/ GrowOlder(r)
  BY <1>3 DEF Send, Cancel, GrowOlder, PhaseOK
<1> QED BY <1>1, <1>2, <1>3 DEF Next

LEMMA LeakNext ==
  ASSUME LeakInv, PhaseOK, [Next]_vars
  PROVE  LeakInv'
<1>1. LostInv'
  BY LostNext DEF LeakInv
<1>2. pc = "scan" => spare > 0
  BY DEF LeakInv, Counts
<1>3. CASE UNCHANGED vars \/ BudgetSpent
  BY <1>1, <1>2, <1>3, SameRoom DEF vars, jobs, kv, BudgetSpent
<1>4. CASE \E r \in Reqs : Send(r) \/ Cancel(r) \/ GrowOlder(r)
  BY <1>1, <1>2, <1>4, SameRoom DEF jobs, kv, Send, Cancel, GrowOlder
<1>5. CASE SchedStep
  <2>1. CASE Intake \/ ScanEnds \/ ScanHold
    BY <1>1, <1>2, <2>1, SameRoom DEF jobs, kv, Intake, ScanEnds, ScanHold
  <2>2. CASE Pick
    BY <1>1, <2>2, SameRoom DEF jobs, kv, Pick
  <2>3. CASE ScanCancelled \/ ScanRefuse \/ ScanDefer
    BY <1>1, <1>2, <2>3, SameRoom DEF jobs, kv, ScanCancelled, ScanRefuse, ScanDefer
  <2>4. CASE ScanFails \/ Merge \/ DecodeFails
    BY <1>1, <2>4, SameRoom DEF jobs, kv, ScanFails, Merge, DecodeFails
  <2>5. CASE ChoosePhase
    <3>1. UNCHANGED <<cap, pos, tokens, spare, prefills, streams>>
      BY <2>5 DEF ChoosePhase, jobs, kv
    <3>2. pc' # "scan"
      BY <2>5 DEF ChoosePhase, NextPhase, PhaseOK
    <3> QED BY <1>1, <3>1, <3>2, SameRoom
  <2>6. CASE JobChunk
    BY <1>1, <2>6, SameRoom DEF kv, JobChunk
  <2>7. CASE \E n \in 1 .. MaxChunks : ScanStart(n)
    BY <1>1, <2>7, ScanStartLeaks
  <2>8. CASE JobDropped
    BY <1>1, <2>8, JobLeaks DEF JobDropped, LeakInv, LostInv, JobThere
  <2>9. CASE JobAdmitted
    <3>1. prefills # <<>> /\ JobLeaves /\ pc' = "top"
      BY <2>9 DEF JobAdmitted, LeakInv, LostInv, JobThere
    <3> QED BY <1>1, <2>9, <3>1, JobLeaks, AdmittedLeaks DEF JobAdmitted
  <2>10. CASE Purge \/ Abort
    BY <1>1, <2>10, PurgeLeaks, AbortLeaks
  <2>11. CASE ForceEnd \/ NothingRuns
    BY <1>1, <2>11, ForceEndLeaks, NothingRunsLeaks
  <2>12. CASE \E kept \in [Reqs -> 1 .. MaxRun], eos \in SUBSET Reqs : Step(kept, eos)
    BY <1>1, <2>12, StepLeaks
  <2> QED BY <1>5, <2>1, <2>2, <2>3, <2>4, <2>5, <2>6, <2>7, <2>8, <2>9, <2>10, <2>11, <2>12
          DEF SchedStep
<1> QED BY <1>3, <1>4, <1>5 DEF Next

LEMMA LeakInit ==
  ASSUME Init
  PROVE  LeakInv
<1>1. LostInv /\ ToSet(<<>>) = {}
  BY LostInit, EmptyFacts
<1>2. cap = [r \in Reqs |-> 0] /\ Owners = {}
  BY DEF Init, Owners
<1>3. Used(cap) <= Room
  <2>1. cap \in [Reqs -> Nat] /\ Room \in Nat
    BY <1>2, SchedulerAssumption
  <2>2. PICK z : z = [r \in Reqs |-> 0]
    OBVIOUS
  <2>3. \A X \in SUBSET Reqs : SumFunctionOnSet(cap, X) = 0
    <3> DEFINE T == {X \in SUBSET Reqs : SumFunctionOnSet(cap, X) = 0}
    <3>1. {} \in T
      BY SumEmpty
    <3>2. ASSUME NEW X \in SUBSET Reqs, NEW x \in Reqs \ X, X \in T
          PROVE  X \cup {x} \in T
      <4>1. /\ IsFiniteSet(X) /\ (\A y \in X : cap[y] \in Nat) /\ cap[x] = 0 /\ x \notin X
        BY <1>2, SchedulerAssumption, FS_Subset
      <4>2. SumFunctionOnSet(cap, X \cup {x}) = cap[x] + SumFunctionOnSet(cap, X)
        BY <4>1, SumAdd
      <4> QED BY <3>2, <4>1, <4>2
    <3>3. \A X \in SUBSET Reqs : X \in T
      <4> HIDE DEF T
      <4> QED BY <3>1, <3>2, SchedulerAssumption, SetInduct
    <3> QED BY <3>3
  <2> QED BY <2>1, <2>3 DEF Used
<1>4. Cardinality(Owners) <= NSlots
  BY <1>2, FS_EmptySet, SchedulerAssumption
<1>5. Counts /\ PromptFits
  BY <1>1, SchedulerAssumption DEF Init, Counts, PromptFits
<1>6. NothingLeaks
  <2>1. Owners = ToSet(prefills) \cup ToSet(streams)
    BY <1>1, <1>2 DEF Init
  <2>2. spare + Len(prefills) = NScratch
    BY SchedulerAssumption DEF Init
  <2>3. \A r \in ToSet(streams) : pos[r] <= cap[r]
    BY <1>1 DEF Init
  <2> QED BY <1>3, <1>4, <2>1, <2>2, <2>3 DEF NothingLeaks
<1> QED BY <1>1, <1>5, <1>6 DEF LeakInv

\* Reservations are held exactly by the prefills and the streams, never for more
\* than the arena holds, and scratch states come back, on every path out of the
\* scheduler: what a request held is given back by the step that takes it from
\* its list, and take_stalled grows only into what is free.
THEOREM ReservationsHeld == Spec => []NothingLeaks
<1>1. LeakInv => NothingLeaks
  BY DEF LeakInv
<1>2. Init => PhaseOK
  BY DEF Init, PhaseOK
<1> QED BY <1>1, <1>2, LeakInit, LeakNext, PhaseNext, PTL DEF Spec
=============================================================================
