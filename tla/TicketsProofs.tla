---------------------------- MODULE TicketsProofs ----------------------------
(***************************************************************************)
(* Proofs about RemoteTickets, for any number of faults, requests and      *)
(* tickets in flight: replies go to the requests they answer, nothing is   *)
(* owed between units on a connection that is up, and a broken connection  *)
(* fails a bounded number of units.                                        *)
(***************************************************************************)
EXTENDS RemoteTickets, ProofFacts

(***************************************************************************)
(* The inductive invariant                                                 *)
(***************************************************************************)
Numbers == Nat \ {0}
\* requests and replies of connection c
ReqsOf(c) == {Request(c, q) : q \in Numbers}
RepsOf(c) == {[seq |-> q, of |-> <<c, q>>, ok |-> b] : q \in Numbers, b \in BOOLEAN}

Units == {"idle", "run", "failed", "drain", "redial", "hello"}

\* Every frame is on the connection of its request, also the stashed ones.
TypeOK ==
  /\ conn \in Conns /\ nextSeq \in Numbers
  /\ inFlight \in Seq(ReqsOf(conn)) /\ stash \in SUBSET RepsOf(conn)
  /\ dead \in BOOLEAN /\ unit \in Units
  /\ blame \in [Conns -> Nat] /\ refused \in Nat /\ faults \in Nat
  /\ DOMAIN reqs = Conns /\ \A c \in Conns : reqs[c] \in Seq(ReqsOf(c))
  /\ DOMAIN reps = Conns /\ \A c \in Conns : reps[c] \in Seq(RepsOf(c))
  /\ ended \in SUBSET Conns
  /\ serving \in Conns \cup {Nobody} /\ cur \in Seq(ReqsOf(serving))
  /\ serving = Nobody => cur = <<>>

\* Every connection but the current one is broken for good, or not yet in use; a
\* connection costs a fault to break, so there is one to dial.
Dialled ==
  /\ Cardinality(ended) + faults <= MaxFaults
  /\ 1 .. conn - 1 \subseteq ended
  /\ dead => conn \in ended
  /\ conn + 1 \in ended => unit = "hello"
  /\ unit = "hello" => dead
  /\ \A c \in ended : c <= conn + 1
NotYet ==
  /\ serving \notin ended /\ serving <= conn + 1 /\ (serving = conn + 1 => unit = "hello")
  /\ backlog \in {<<>>, <<conn + 1>>}
  /\ backlog # <<>> => unit = "hello" /\ serving # conn + 1 /\ conn + 1 \notin ended
  /\ \A c \in Conns : c > conn => reqs[c] = <<>> /\ reps[c] = <<>> /\ blame[c] = 0
  /\ serving > conn => cur = <<>>

\* What the current connection owes, as numbers of requests.
Nums(s) == {s[i].seq : i \in DOMAIN s}
NumsIn(S) == {f.seq : f \in S}
Distinct(s) == \A i, j \in DOMAIN s : s[i].seq = s[j].seq => i = j
AtDaemon == IF serving = conn THEN cur ELSE <<>>

\* A request is in one place only: stashed, on its way back, with the daemon, or
\* on its way there; while the connection is up, every ticket's is in one.
Once(tickets, stashed, back, held, out, up) ==
  LET A == NumsIn(stashed)
      B == Nums(back)
      C == Nums(held)
      D == Nums(out)
  IN /\ Distinct(tickets) /\ Distinct(back) /\ Distinct(held) /\ Distinct(out)
     /\ \A f, g \in stashed : f.seq = g.seq => f = g
     /\ A \cap B = {} /\ A \cap C = {} /\ A \cap D = {}
     /\ B \cap C = {} /\ B \cap D = {} /\ C \cap D = {}
     /\ A \cup B \cup C \cup D \subseteq Nums(tickets)
     /\ up => Nums(tickets) = A \cup B \cup C \cup D

\* What unit u owes: while it is drained, one frame for each ticket; between units
\* nothing, and no ticket is left unless the connection is gone.
Books(u, next, tickets, stashed, back, held, out, up) ==
  /\ Distinct(tickets) /\ \A t \in ToSet(tickets) : t.seq < next
  /\ u \in {"run", "failed"} => Once(tickets, stashed, back, held, out, up)
  /\ u = "drain" => /\ stashed = {}
                    /\ Len(back) + Len(held) + Len(out) <= Len(tickets)
                    /\ up => Len(back) + Len(held) + Len(out) = Len(tickets)
  /\ u \in {"idle", "redial", "hello"} =>
       /\ stashed = {} /\ back = <<>> /\ held = <<>> /\ out = <<>>
       /\ up => tickets = <<>>
  /\ ~ up => held = <<>> /\ out = <<>>
  /\ up => \A f \in stashed \cup ToSet(back) : f.ok

Owed == Books(unit, nextSeq, inFlight, stash, reps[conn], AtDaemon, reqs[conn], conn \notin ended)

\* Who pays for a broken connection.
Blamed ==
  /\ \A c \in Conns : blame[c] <= 2 + refused
  /\ conn \notin ended => blame[conn] = 0
  /\ ~ dead => blame[conn] <= 1
  /\ dead /\ unit \in {"idle", "run"} => blame[conn] <= 1 + refused
  /\ blame[conn] # 0 /\ unit \in {"idle", "run"} => stash = {} /\ reps[conn] = <<>>

TicketInv == TypeOK /\ Dialled /\ NotYet /\ Owed /\ Blamed /\ AnswersAreOwn

(***************************************************************************)
(* Frames                                                                  *)
(***************************************************************************)
LEMMA ReqFields ==
  ASSUME NEW c, NEW r \in ReqsOf(c)
  PROVE  /\ r.seq \in Numbers /\ r.of = <<c, r.seq>> /\ r = Request(c, r.seq)
         /\ Reply(r) \in RepsOf(c) /\ Reply(r).seq = r.seq /\ Reply(r).ok
         /\ ErrorFrame(r) \in RepsOf(c) /\ ErrorFrame(r).seq = r.seq
<1>1. PICK q \in Numbers : r = [seq |-> q, of |-> <<c, q>>]
  BY DEF ReqsOf, Request
<1>2. r.seq = q /\ r.of = <<c, q>>
  BY <1>1
<1>3. \A b \in BOOLEAN : [seq |-> q, of |-> <<c, q>>, ok |-> b] \in RepsOf(c)
  BY DEF RepsOf
<1>4. Reply(r) = [seq |-> q, of |-> <<c, q>>, ok |-> TRUE]
  BY <1>2 DEF Reply
<1>5. Reply(r) \in RepsOf(c) /\ Reply(r).seq = q /\ Reply(r).ok
  <2>1. Reply(r) \in RepsOf(c)
    BY <1>3, <1>4, Zenon
  <2> QED BY <2>1, <1>4
<1>6. ErrorFrame(r) \in RepsOf(c) /\ ErrorFrame(r).seq = q
  <2>1. ErrorFrame(r) = [seq |-> q, of |-> <<c, q>>, ok |-> FALSE]
    BY <1>2 DEF ErrorFrame
  <2>2. ErrorFrame(r) \in RepsOf(c)
    BY <1>3, <2>1, Zenon
  <2> QED BY <2>1, <2>2
<1>7. r = Request(c, r.seq)
  BY <1>1, <1>2 DEF Request
<1> QED BY <1>2, <1>5, <1>6, <1>7

LEMMA RepFields ==
  ASSUME NEW c, NEW f \in RepsOf(c)
  PROVE  f.seq \in Numbers /\ f.of = <<c, f.seq>> /\ f.ok \in BOOLEAN
           /\ f = [seq |-> f.seq, of |-> f.of, ok |-> f.ok]
BY DEF RepsOf

LEMMA SplitSeq ==
  ASSUME NEW S, NEW s \in Seq(S), NEW n \in 0 .. Len(s)
  PROVE  LET a == SubSeq(s, 1, n)
             b == SubSeq(s, n + 1, Len(s))
         IN /\ a \in Seq(S) /\ b \in Seq(S) /\ Len(a) = n /\ Len(b) = Len(s) - n
            /\ ToSet(s) = ToSet(a) \cup ToSet(b)
            /\ \A i \in 1 .. n : a[i] = s[i]
            /\ \A i \in 1 .. Len(s) - n : b[i] = s[n + i]
<1> DEFINE a == SubSeq(s, 1, n)
           b == SubSeq(s, n + 1, Len(s))
<1>1. a \in Seq(S) /\ Len(a) = n /\ \A i \in 1 .. n : a[i] = s[i]
  OBVIOUS
<1>2. b \in Seq(S) /\ Len(b) = Len(s) - n /\ \A i \in 1 .. Len(s) - n : b[i] = s[n + i]
  OBVIOUS
<1>3. DOMAIN a = 1 .. n /\ DOMAIN b = 1 .. Len(s) - n /\ DOMAIN s = 1 .. Len(s)
        /\ Len(s) \in Nat /\ n \in Nat /\ n <= Len(s)
  BY <1>1, <1>2
<1> HIDE DEF a, b
<1>4. ToSet(s) \subseteq ToSet(a) \cup ToSet(b)
  <2> SUFFICES ASSUME NEW i \in 1 .. Len(s) PROVE s[i] \in ToSet(a) \cup ToSet(b)
    BY <1>3 DEF ToSet
  <2>1. CASE i <= n
    BY <1>1, <1>3, <2>1 DEF ToSet
  <2>2. CASE ~ (i <= n)
    <3>1. i - n \in 1 .. Len(s) - n /\ n + (i - n) = i
      BY <1>3, <2>2
    <3> QED BY <1>2, <1>3, <3>1 DEF ToSet
  <2> QED BY <2>1, <2>2
<1>5. ToSet(a) \cup ToSet(b) \subseteq ToSet(s)
  <2>1. \A i \in 1 .. Len(s) - n : n + i \in 1 .. Len(s)
    BY <1>3
  <2>2. \A i \in 1 .. n : i \in 1 .. Len(s)
    BY <1>3
  <2>3. ToSet(a) \subseteq ToSet(s)
    BY <1>1, <1>3, <2>2 DEF ToSet
  <2>4. ToSet(b) \subseteq ToSet(s)
    <3> SUFFICES ASSUME NEW i \in 1 .. Len(s) - n PROVE b[i] \in ToSet(s)
      BY <1>3 DEF ToSet
    <3> QED BY <1>2, <1>3, <2>1 DEF ToSet
  <2> QED BY <2>3, <2>4
<1> QED BY <1>1, <1>2, <1>4, <1>5 DEF a, b

\* The frames of a sequence, as numbers.
LEMMA NumsOfSet ==
  ASSUME NEW S, NEW s \in Seq(S)
  PROVE  Nums(s) = NumsIn(ToSet(s))
BY DEF Nums, NumsIn, ToSet

LEMMA NumsAppend ==
  ASSUME NEW S, NEW s \in Seq(S), NEW x
  PROVE  /\ Nums(Append(s, x)) = Nums(s) \cup {x.seq}
         /\ Distinct(s) /\ x.seq \notin Nums(s) => Distinct(Append(s, x))
<1> DEFINE a == Append(s, x)
<1>1. a[Len(s) + 1] = x /\ \A i \in 1 .. Len(s) : a[i] = s[i]
  OBVIOUS
<1>2. DOMAIN a = 1 .. Len(s) + 1 /\ DOMAIN s = 1 .. Len(s) /\ Len(s) \in Nat
  OBVIOUS
<1> HIDE DEF a
<1>3. Nums(a) \subseteq Nums(s) \cup {x.seq} /\ Nums(s) \subseteq Nums(a) /\ x.seq \in Nums(a)
  BY <1>1, <1>2 DEF Nums
<1>4. ASSUME Distinct(s), x.seq \notin Nums(s) PROVE Distinct(a)
  <2>0. \A i \in 1 .. Len(s) : s[i].seq # x.seq
    BY <1>2, <1>4 DEF Nums
  <2> SUFFICES ASSUME NEW i \in DOMAIN a, NEW j \in DOMAIN a, a[i].seq = a[j].seq
               PROVE  i = j
    BY DEF Distinct
  <2>1. CASE i \in 1 .. Len(s) /\ j \in 1 .. Len(s)
    BY <1>1, <1>2, <1>4, <2>1 DEF Distinct
  <2>2. CASE i = Len(s) + 1 \/ j = Len(s) + 1
    BY <1>1, <1>2, <2>0, <2>2
  <2> QED BY <1>2, <2>1, <2>2
<1> QED BY <1>3, <1>4 DEF a

LEMMA NumsConcat ==
  ASSUME NEW S, NEW s \in Seq(S), NEW r \in Seq(S)
  PROVE  /\ Nums(s \o r) = Nums(s) \cup Nums(r)
         /\ Distinct(s) /\ Distinct(r) /\ Nums(s) \cap Nums(r) = {} => Distinct(s \o r)
<1> DEFINE a == s \o r
<1>0. a \in Seq(S) /\ ToSet(a) = ToSet(s) \cup ToSet(r)
  BY ToSetConcat
<1>1. DOMAIN a = 1 .. Len(s) + Len(r)
  OBVIOUS
<1>2. \A i \in 1 .. Len(s) : a[i] = s[i]
  OBVIOUS
<1>3. \A i \in 1 .. Len(s) + Len(r) : i > Len(s) =>
        i - Len(s) \in 1 .. Len(r) /\ a[i] = r[i - Len(s)]
  OBVIOUS
<1>4. DOMAIN s = 1 .. Len(s) /\ DOMAIN r = 1 .. Len(r) /\ Len(s) \in Nat /\ Len(r) \in Nat
  OBVIOUS
<1>5. Nums(a) = Nums(s) \cup Nums(r)
  <2> HIDE DEF a
  <2>1. Nums(a) = NumsIn(ToSet(s) \cup ToSet(r))
    BY <1>0, NumsOfSet
  <2> QED BY <2>1, NumsOfSet DEF NumsIn
<1> HIDE DEF a
<1>6. ASSUME Distinct(s), Distinct(r), Nums(s) \cap Nums(r) = {} PROVE Distinct(a)
  <2> SUFFICES ASSUME NEW i \in DOMAIN a, NEW j \in DOMAIN a, a[i].seq = a[j].seq
               PROVE  i = j
    BY DEF Distinct
  <2>1. CASE i <= Len(s) /\ j <= Len(s)
    <3>1. i \in 1 .. Len(s) /\ j \in 1 .. Len(s)
      BY <1>1, <2>1
    <3> QED BY <1>2, <1>4, <1>6, <3>1 DEF Distinct
  <2>2. CASE i > Len(s) /\ j > Len(s)
    <3>1. r[i - Len(s)].seq = r[j - Len(s)].seq
            /\ i - Len(s) \in 1 .. Len(r) /\ j - Len(s) \in 1 .. Len(r)
      BY <1>1, <1>3, <2>2
    <3>2. i - Len(s) = j - Len(s)
      BY <3>1, <1>4, <1>6 DEF Distinct
    <3> QED BY <3>2, <1>1, <1>4
  <2>3. CASE i <= Len(s) /\ j > Len(s)
    <3>1. i \in DOMAIN s /\ a[i] = s[i]
      BY <1>1, <1>2, <1>4, <2>3
    <3>2. j - Len(s) \in DOMAIN r /\ a[j] = r[j - Len(s)]
      BY <1>1, <1>3, <1>4, <2>3
    <3>3. a[i].seq \in Nums(s) /\ a[j].seq \in Nums(r)
      BY <3>1, <3>2 DEF Nums
    <3> QED BY <3>3, <1>6
  <2>4. CASE i > Len(s) /\ j <= Len(s)
    <3>1. j \in DOMAIN s /\ a[j] = s[j]
      BY <1>1, <1>2, <1>4, <2>4
    <3>2. i - Len(s) \in DOMAIN r /\ a[i] = r[i - Len(s)]
      BY <1>1, <1>3, <1>4, <2>4
    <3>3. a[j].seq \in Nums(s) /\ a[i].seq \in Nums(r)
      BY <3>1, <3>2 DEF Nums
    <3> QED BY <3>3, <1>6
  <2> QED BY <2>1, <2>2, <2>3, <2>4, <1>1, <1>4
<1> QED BY <1>5, <1>6 DEF a

LEMMA NumsSplit ==
  ASSUME NEW S, NEW s \in Seq(S), NEW n \in 0 .. Len(s)
  PROVE  LET a == SubSeq(s, 1, n)
             b == SubSeq(s, n + 1, Len(s))
         IN /\ Nums(s) = Nums(a) \cup Nums(b)
            /\ Distinct(s) => Distinct(a) /\ Distinct(b) /\ Nums(a) \cap Nums(b) = {}
<1> DEFINE a == SubSeq(s, 1, n)
           b == SubSeq(s, n + 1, Len(s))
<1>1. a \in Seq(S) /\ b \in Seq(S) /\ Len(a) = n /\ Len(b) = Len(s) - n
        /\ ToSet(s) = ToSet(a) \cup ToSet(b)
  BY SplitSeq
<1>2. \A i \in 1 .. n : a[i] = s[i]
  BY SplitSeq
<1>3. \A i \in 1 .. Len(s) - n : b[i] = s[n + i]
  BY SplitSeq
<1> HIDE DEF a, b
<1>4. DOMAIN a = 1 .. n /\ DOMAIN b = 1 .. Len(s) - n /\ DOMAIN s = 1 .. Len(s)
        /\ Len(s) \in Nat /\ n \in Nat /\ n <= Len(s)
  BY <1>1
<1>5. Nums(s) = Nums(a) \cup Nums(b)
  BY <1>1, NumsOfSet DEF NumsIn
<1>6. ASSUME Distinct(s) PROVE Distinct(a) /\ Distinct(b) /\ Nums(a) \cap Nums(b) = {}
  <2>1. Distinct(a)
    BY <1>2, <1>4, <1>6 DEF Distinct
  <2>2. ASSUME NEW i \in 1 .. Len(s) - n, NEW j \in 1 .. Len(s) - n, b[i].seq = b[j].seq
        PROVE  i = j
    <3>1. n + i \in DOMAIN s /\ n + j \in DOMAIN s /\ s[n + i].seq = s[n + j].seq
      BY <1>3, <1>4, <2>2
    <3>2. n + i = n + j
      BY <1>6, <3>1 DEF Distinct
    <3> QED BY <3>2, <1>4
  <2>3. ASSUME NEW i \in 1 .. n, NEW j \in 1 .. Len(s) - n, a[i].seq = b[j].seq
        PROVE  FALSE
    <3>1. i \in DOMAIN s /\ n + j \in DOMAIN s /\ s[i].seq = s[n + j].seq /\ i # n + j
      BY <1>2, <1>3, <1>4, <2>3
    <3> QED BY <1>6, <3>1 DEF Distinct
  <2>4. Distinct(b)
    BY <1>4, <2>2 DEF Distinct
  <2>5. Nums(a) \cap Nums(b) = {}
    BY <1>4, <2>3 DEF Nums
  <2> QED BY <2>1, <2>4, <2>5
<1> QED BY <1>5, <1>6 DEF a, b

LEMMA DistinctTail ==
  ASSUME NEW S, NEW s \in Seq(S), s # <<>>, Distinct(s)
  PROVE  Distinct(Tail(s))
<1> DEFINE e == Tail(s)
<1>1. /\ Len(s) \in Nat /\ \A j \in 1 .. Len(s) - 1 : e[j] = s[j + 1]
      /\ DOMAIN e = 1 .. Len(s) - 1 /\ DOMAIN s = 1 .. Len(s)
  OBVIOUS
<1>2. \A j \in 1 .. Len(s) - 1 : j + 1 \in 1 .. Len(s)
  BY <1>1
<1>3. \A x, y \in DOMAIN s : s[x].seq = s[y].seq => x = y
  BY DEF Distinct
<1> HIDE DEF e
<1>4. ASSUME NEW x \in DOMAIN e, NEW y \in DOMAIN e, e[x].seq = e[y].seq PROVE x = y
  <2>1. x + 1 = y + 1
    BY <1>1, <1>2, <1>3, <1>4
  <2> QED BY <1>1, <2>1
<1>5. Distinct(e)
  BY <1>4 DEF Distinct
<1> QED BY <1>5 DEF e

LEMMA NumsWithout ==
  ASSUME NEW S, NEW s \in Seq(S), NEW R
  PROVE  /\ Without(s, R) \in Seq(S)
         /\ Nums(Without(s, R)) = NumsIn(ToSet(s) \ R)
         /\ Distinct(s) => Distinct(Without(s, R))
<1> DEFINE w == Without(s, R)
<1>1. w \in Seq(S) /\ ToSet(w) = ToSet(s) \ R /\ (IsInjective(s) => IsInjective(w))
  BY WithoutKeeps
<1> HIDE DEF w
<1>2. Nums(w) = NumsIn(ToSet(s) \ R)
  BY <1>1, NumsOfSet
<1>3. ASSUME Distinct(s) PROVE Distinct(w)
  <2>1. IsInjective(s)
    BY <1>3 DEF Distinct, IsInjective
  <2> SUFFICES ASSUME NEW i \in DOMAIN w, NEW j \in DOMAIN w, w[i].seq = w[j].seq
               PROVE  i = j
    BY DEF Distinct
  <2>2. w[i] \in ToSet(s) /\ w[j] \in ToSet(s)
    BY <1>1 DEF ToSet
  <2>3. w[i] = w[j]
    BY <1>3, <2>2 DEF Distinct, ToSet
  <2> QED BY <1>1, <2>1, <2>3 DEF IsInjective
<1> QED BY <1>1, <1>2, <1>3 DEF w

LEMMA NumsCount ==
  ASSUME NEW S, NEW s \in Seq(S), Distinct(s)
  PROVE  IsFiniteSet(Nums(s)) /\ Cardinality(Nums(s)) = Len(s)
<1> DEFINE q == [i \in 1 .. Len(s) |-> s[i].seq]
<1>1. q \in Seq(Nums(s)) /\ Len(q) = Len(s) /\ ToSet(q) = Nums(s) /\ IsInjective(q)
  BY DEF Nums, Distinct, IsInjective, ToSet
<1> HIDE DEF q
<1> QED BY <1>1, InjectiveLength

\* The replies to the requests of a pass.
LEMMA AnswersFacts ==
  ASSUME NEW c, NEW s \in Seq(ReqsOf(c))
  PROVE  /\ Answers(s) \in Seq(RepsOf(c)) /\ Len(Answers(s)) = Len(s)
         /\ Nums(Answers(s)) = Nums(s) /\ (Distinct(s) => Distinct(Answers(s)))
         /\ \A f \in ToSet(Answers(s)) : f.ok
<1> DEFINE a == Answers(s)
<1>1. a = [i \in DOMAIN s |-> Reply(s[i])] /\ DOMAIN s = 1 .. Len(s) /\ Len(s) \in Nat
  BY DEF Answers
<1>2. \A i \in DOMAIN s : Reply(s[i]) \in RepsOf(c) /\ Reply(s[i]).seq = s[i].seq /\ Reply(s[i]).ok
  BY ReqFields
<1>3. a \in Seq(RepsOf(c)) /\ Len(a) = Len(s) /\ DOMAIN a = DOMAIN s
  BY <1>1, <1>2
<1>4. \A i \in DOMAIN s : a[i].seq = s[i].seq /\ a[i].ok
  BY <1>1, <1>2
<1> HIDE DEF a
<1>5. Nums(a) = Nums(s) /\ (Distinct(s) => Distinct(a)) /\ \A f \in ToSet(a) : f.ok
  BY <1>3, <1>4 DEF Nums, Distinct, ToSet
<1> QED BY <1>3, <1>5 DEF a

(***************************************************************************)
(* How the frames of the current connection move                           *)
(***************************************************************************)
\* A new ticket's request goes out, or nowhere when the link is gone.
LEMMA OnceSubmit ==
  ASSUME NEW k, NEW i \in Seq(ReqsOf(k)), NEW s \in SUBSET RepsOf(k), NEW b \in Seq(RepsOf(k)),
         NEW c \in Seq(ReqsOf(k)), NEW d \in Seq(ReqsOf(k)), NEW up \in BOOLEAN,
         Once(i, s, b, c, d, up), NEW r \in ReqsOf(k), r.seq \notin Nums(i)
  PROVE  Once(Append(i, r), s, b, c, IF up THEN Append(d, r) ELSE d, up)
<1>1. Nums(Append(i, r)) = Nums(i) \cup {r.seq} /\ Distinct(Append(i, r))
  BY NumsAppend DEF Once
<1>2. Nums(Append(d, r)) = Nums(d) \cup {r.seq} /\ Distinct(Append(d, r))
  <2>1. r.seq \notin Nums(d)
    BY DEF Once
  <2> QED BY <2>1, NumsAppend DEF Once
<1>3. CASE up
  BY <1>1, <1>2, <1>3 DEF Once
<1>4. CASE ~ up
  BY <1>1, <1>4 DEF Once
<1> QED BY <1>3, <1>4

\* The first n replies go to the stash.
LEMMA OnceSeen ==
  ASSUME NEW k, NEW i \in Seq(ReqsOf(k)), NEW s \in SUBSET RepsOf(k), NEW b \in Seq(RepsOf(k)),
         NEW c \in Seq(ReqsOf(k)), NEW d \in Seq(ReqsOf(k)), NEW up \in BOOLEAN,
         Once(i, s, b, c, d, up), NEW n \in 0 .. Len(b)
  PROVE  Once(i, s \cup ToSet(SubSeq(b, 1, n)), SubSeq(b, n + 1, Len(b)), c, d, up)
<1> DEFINE a == SubSeq(b, 1, n)
           e == SubSeq(b, n + 1, Len(b))
<1>0. a \in Seq(RepsOf(k))
  BY SplitSeq
<1>1. Nums(b) = Nums(a) \cup Nums(e) /\ Distinct(a) /\ Distinct(e) /\ Nums(a) \cap Nums(e) = {}
  BY NumsSplit DEF Once
<1> HIDE DEF a, e
<1>2. NumsIn(s \cup ToSet(a)) = NumsIn(s) \cup Nums(a)
  BY <1>0, NumsOfSet DEF NumsIn
<1>3. ASSUME NEW f \in s \cup ToSet(a), NEW g \in s \cup ToSet(a), f.seq = g.seq PROVE f = g
  <2>1. CASE f \in s /\ g \in s
    BY <1>3, <2>1 DEF Once
  <2>2. CASE f \in ToSet(a) /\ g \in ToSet(a)
    BY <1>1, <1>3, <2>2 DEF Distinct, ToSet
  <2>3. NumsIn(s) \cap Nums(a) = {}
    BY <1>1 DEF Once
  <2>4. NumsIn(ToSet(a)) = Nums(a)
    BY <1>0, NumsOfSet
  <2> QED BY <1>3, <2>1, <2>2, <2>3, <2>4 DEF NumsIn
<1>4. Once(i, s \cup ToSet(a), e, c, d, up)
  BY <1>1, <1>2, <1>3 DEF Once
<1> QED BY <1>4 DEF a, e

\* A ticket takes its reply out of the stash.
LEMMA OnceAnswered ==
  ASSUME NEW k, NEW i \in Seq(ReqsOf(k)), NEW s \in SUBSET RepsOf(k), NEW b \in Seq(RepsOf(k)),
         NEW c \in Seq(ReqsOf(k)), NEW d \in Seq(ReqsOf(k)), NEW up \in BOOLEAN,
         Once(i, s, b, c, d, up), NEW t \in ToSet(i), NEW f \in s, f.seq = t.seq
  PROVE  Once(Without(i, {t}), s \ {f}, b, c, d, up)
<1> DEFINE w == Without(i, {t})
<1>1. Nums(w) = NumsIn(ToSet(i) \ {t}) /\ Distinct(w)
  BY NumsWithout DEF Once
<1>2. Nums(i) = NumsIn(ToSet(i))
  BY NumsOfSet
<1>3. \A u \in ToSet(i) : u.seq = t.seq => u = t
  BY DEF Once, Distinct, ToSet
<1> HIDE DEF w
<1>4. Nums(w) = Nums(i) \ {t.seq}
  BY <1>1, <1>2, <1>3 DEF NumsIn
<1>5. NumsIn(s \ {f}) = NumsIn(s) \ {t.seq}
  BY DEF NumsIn, Once
<1>6. t.seq \in NumsIn(s)
  BY DEF NumsIn
<1>7. Once(w, s \ {f}, b, c, d, up)
  <2> DEFINE A == NumsIn(s)
             B == Nums(b)
             C == Nums(c)
             D == Nums(d)
             I == Nums(i)
  <2>1. /\ A \cap B = {} /\ A \cap C = {} /\ A \cap D = {}
        /\ B \cap C = {} /\ B \cap D = {} /\ C \cap D = {}
        /\ A \cup B \cup C \cup D \subseteq I
        /\ up => I = A \cup B \cup C \cup D
    BY DEF Once
  <2>2. /\ Distinct(b) /\ Distinct(c) /\ Distinct(d)
        /\ \A g, h \in s \ {f} : g.seq = h.seq => g = h
    BY DEF Once
  <2>3. NumsIn(s \ {f}) = A \ {t.seq} /\ Nums(w) = I \ {t.seq} /\ t.seq \in A
    BY <1>4, <1>5, <1>6
  <2> HIDE DEF A, B, C, D, I
  <2>4. /\ (A \ {t.seq}) \cap B = {} /\ (A \ {t.seq}) \cap C = {} /\ (A \ {t.seq}) \cap D = {}
        /\ (A \ {t.seq}) \cup B \cup C \cup D \subseteq I \ {t.seq}
        /\ up => I \ {t.seq} = (A \ {t.seq}) \cup B \cup C \cup D
    BY <2>1, <2>3
  <2> QED BY <1>1, <2>1, <2>2, <2>3, <2>4 DEF Once, B, C, D
<1> QED BY <1>7 DEF w

\* A ticket that nothing will answer goes.
LEMMA OnceGone ==
  ASSUME NEW k, NEW i \in Seq(ReqsOf(k)), NEW s \in SUBSET RepsOf(k),
         Once(i, s, <<>>, <<>>, <<>>, FALSE), NEW t \in ToSet(i), t.seq \notin NumsIn(s)
  PROVE  Once(Without(i, {t}), s, <<>>, <<>>, <<>>, FALSE)
<1> DEFINE w == Without(i, {t})
<1>1. Nums(w) = NumsIn(ToSet(i) \ {t}) /\ Distinct(w)
  BY NumsWithout DEF Once
<1>2. Nums(i) = NumsIn(ToSet(i))
  BY NumsOfSet
<1> HIDE DEF w
<1>3. Nums(i) \ {t.seq} \subseteq Nums(w)
  BY <1>1, <1>2 DEF NumsIn
<1>4. Once(w, s, <<>>, <<>>, <<>>, FALSE)
  BY <1>1, <1>3 DEF Once
<1> QED BY <1>4 DEF w

\* The daemon takes requests.
LEMMA OnceTake ==
  ASSUME NEW k, NEW i \in Seq(ReqsOf(k)), NEW s \in SUBSET RepsOf(k), NEW b \in Seq(RepsOf(k)),
         NEW d \in Seq(ReqsOf(k)), NEW up \in BOOLEAN,
         Once(i, s, b, <<>>, d, up), NEW n \in 0 .. Len(d)
  PROVE  Once(i, s, b, SubSeq(d, 1, n), SubSeq(d, n + 1, Len(d)), up)
<1> DEFINE a == SubSeq(d, 1, n)
           e == SubSeq(d, n + 1, Len(d))
<1>1. Nums(d) = Nums(a) \cup Nums(e) /\ Distinct(a) /\ Distinct(e) /\ Nums(a) \cap Nums(e) = {}
  BY NumsSplit DEF Once
<1> HIDE DEF a, e
<1>2. Nums(<<>>) = {}
  BY DEF Nums
<1>3. Once(i, s, b, a, e, up)
  BY <1>1, <1>2 DEF Once
<1> QED BY <1>3 DEF a, e

\* A request behind a parked one is answered.
LEMMA OnceServed ==
  ASSUME NEW k, NEW i \in Seq(ReqsOf(k)), NEW s \in SUBSET RepsOf(k), NEW b \in Seq(RepsOf(k)),
         NEW c \in Seq(ReqsOf(k)), NEW d \in Seq(ReqsOf(k)), NEW up \in BOOLEAN,
         Once(i, s, b, c, d, up), d # <<>>
  PROVE  Once(i, s, Append(b, Reply(Head(d))), c, Tail(d), up)
<1> DEFINE h == Head(d)
           e == Tail(d)
           r == Reply(h)
<1>1. h \in ReqsOf(k) /\ e \in Seq(ReqsOf(k)) /\ ToSet(d) = ToSet(e) \cup {h}
  BY TailFacts
<1>2. r.seq = h.seq
  BY <1>1, ReqFields
<1>3. Nums(d) = Nums(e) \cup {h.seq}
  <2> HIDE DEF h, e
  <2>1. Nums(d) = NumsIn(ToSet(e) \cup {h}) /\ Nums(e) = NumsIn(ToSet(e))
    BY <1>1, NumsOfSet
  <2> QED BY <2>1 DEF NumsIn
<1>4. Distinct(e) /\ h.seq \notin Nums(e)
  <2>1. /\ Len(e) = Len(d) - 1 /\ Len(d) \in Nat /\ h = d[1]
        /\ \A j \in 1 .. Len(d) - 1 : e[j] = d[j + 1]
        /\ DOMAIN e = 1 .. Len(d) - 1 /\ DOMAIN d = 1 .. Len(d)
    OBVIOUS
  <2>2. \A j \in 1 .. Len(d) - 1 : j + 1 \in 1 .. Len(d) /\ j + 1 # 1
    BY <2>1
  <2>3. \A x, y \in DOMAIN d : d[x].seq = d[y].seq => x = y
    BY DEF Once, Distinct
  <2>4. 1 \in DOMAIN d
    BY <2>1
  <2> HIDE DEF h, e
  <2>5. ASSUME NEW x \in DOMAIN e, NEW y \in DOMAIN e, e[x].seq = e[y].seq PROVE x = y
    <3>1. /\ x \in 1 .. Len(d) - 1 /\ y \in 1 .. Len(d) - 1
          /\ x + 1 \in DOMAIN d /\ y + 1 \in DOMAIN d
      BY <2>1, <2>2
    <3>2. d[x + 1].seq = d[y + 1].seq
      BY <2>1, <2>5, <3>1
    <3>3. x + 1 = y + 1
      BY <2>3, <3>1, <3>2
    <3> QED BY <2>1, <3>1, <3>3
  <2>6. ASSUME NEW x \in DOMAIN e, e[x].seq = h.seq PROVE FALSE
    <3>1. x + 1 \in DOMAIN d /\ d[x + 1].seq = d[1].seq /\ x + 1 # 1
      BY <2>1, <2>2, <2>6
    <3> QED BY <2>3, <2>4, <3>1
  <2> QED BY <2>5, <2>6 DEF Distinct, Nums
<1> HIDE DEF h, e, r
<1>5. h.seq \in Nums(d)
  BY <1>3
<1>6. Nums(Append(b, r)) = Nums(b) \cup {h.seq} /\ Distinct(Append(b, r))
  <2>1. h.seq \notin Nums(b)
    BY <1>5 DEF Once
  <2> QED BY <1>2, <2>1, NumsAppend DEF Once
<1>7. Once(i, s, Append(b, r), c, e, up)
  BY <1>3, <1>4, <1>6 DEF Once
<1> QED BY <1>7 DEF h, e, r

\* A pass is answered.
LEMMA OnceFinished ==
  ASSUME NEW k, NEW i \in Seq(ReqsOf(k)), NEW s \in SUBSET RepsOf(k), NEW b \in Seq(RepsOf(k)),
         NEW c \in Seq(ReqsOf(k)), NEW d \in Seq(ReqsOf(k)), NEW up \in BOOLEAN,
         Once(i, s, b, c, d, up)
  PROVE  Once(i, s, b \o Answers(c), <<>>, d, up)
<1> DEFINE a == Answers(c)
<1>1. a \in Seq(RepsOf(k)) /\ Nums(a) = Nums(c) /\ Distinct(a)
  BY AnswersFacts DEF Once
<1> HIDE DEF a
<1>2. Nums(b \o a) = Nums(b) \cup Nums(c) /\ Distinct(b \o a)
  BY <1>1, NumsConcat DEF Once
<1>3. Nums(<<>>) = {} /\ Distinct(<<>>)
  BY DEF Nums, Distinct
<1>4. Once(i, s, b \o a, <<>>, d, up)
  BY <1>2, <1>3 DEF Once
<1> QED BY <1>4 DEF a

\* The connection ends: its frames and the last ones arrive up to some point.
LEMMA OnceClosed ==
  ASSUME NEW k, NEW i \in Seq(ReqsOf(k)), NEW s \in SUBSET RepsOf(k), NEW b \in Seq(RepsOf(k)),
         NEW c \in Seq(ReqsOf(k)), NEW d \in Seq(ReqsOf(k)), NEW up \in BOOLEAN,
         Once(i, s, b, c, d, up),
         NEW last \in Seq(RepsOf(k)), Distinct(last), Nums(last) \subseteq Nums(c) \cup Nums(d),
         NEW n \in 0 .. Len(b \o last)
  PROVE  Once(i, s, SubSeq(b \o last, 1, n), <<>>, <<>>, FALSE)
<1> DEFINE all == b \o last
           a == SubSeq(all, 1, n)
<1>0. all \in Seq(RepsOf(k)) /\ n \in 0 .. Len(all)
  OBVIOUS
<1>1. Nums(b) \cap Nums(last) = {}
  BY DEF Once
<1>2. Nums(all) = Nums(b) \cup Nums(last) /\ Distinct(all)
  BY <1>1, NumsConcat DEF Once
<1>3. Nums(a) \subseteq Nums(all) /\ Distinct(a)
  <2> HIDE DEF all
  <2> QED BY <1>0, <1>2, NumsSplit
<1> HIDE DEF all, a
<1>4. Nums(<<>>) = {} /\ Distinct(<<>>)
  BY DEF Nums, Distinct
<1>5. Once(i, s, a, <<>>, <<>>, FALSE)
  BY <1>2, <1>3, <1>4 DEF Once
<1> QED BY <1>5 DEF all, a

\* The books of the current connection balance whatever the daemon does with
\* its frames, and while a unit fails, is drained and makes way for another.
LEMMA BooksTake ==
  ASSUME NEW k, NEW i \in Seq(ReqsOf(k)), NEW s \in SUBSET RepsOf(k), NEW b \in Seq(RepsOf(k)),
         NEW d \in Seq(ReqsOf(k)), NEW up \in BOOLEAN, NEW u \in Units, NEW next,
         Books(u, next, i, s, b, <<>>, d, up), NEW n \in 0 .. Len(d), d # <<>>
  PROVE  Books(u, next, i, s, b, SubSeq(d, 1, n), SubSeq(d, n + 1, Len(d)), up)
<1> DEFINE a == SubSeq(d, 1, n)
           e == SubSeq(d, n + 1, Len(d))
<1>1. Len(a) = n /\ Len(e) = Len(d) - n /\ n \in Nat /\ Len(d) \in Nat /\ Len(<<>>) = 0
        /\ Len(b) \in Nat /\ Len(i) \in Nat
  BY SplitSeq
<1>2. u \in {"run", "failed"} => Once(i, s, b, a, e, up)
  BY OnceTake DEF Books
<1> HIDE DEF a, e
<1>3. u = "drain" => /\ s = {} /\ Len(b) + Len(a) + Len(e) <= Len(i)
                     /\ up => Len(b) + Len(a) + Len(e) = Len(i)
  <2>1. Len(b) + Len(a) + Len(e) = Len(b) + Len(<<>>) + Len(d)
    BY <1>1
  <2> QED BY <2>1 DEF Books
<1>4. u \in {"run", "failed", "drain"} /\ up
  BY DEF Books, Units
<1>5. Books(u, next, i, s, b, a, e, up)
  BY <1>2, <1>3, <1>4 DEF Books
<1> QED BY <1>5 DEF a, e

LEMMA BooksServed ==
  ASSUME NEW k, NEW i \in Seq(ReqsOf(k)), NEW s \in SUBSET RepsOf(k), NEW b \in Seq(RepsOf(k)),
         NEW c \in Seq(ReqsOf(k)), NEW d \in Seq(ReqsOf(k)), NEW up \in BOOLEAN, NEW u \in Units, NEW next,
         Books(u, next, i, s, b, c, d, up), d # <<>>
  PROVE  Books(u, next, i, s, Append(b, Reply(Head(d))), c, Tail(d), up)
<1> DEFINE r == Reply(Head(d))
           e == Tail(d)
           a == Append(b, r)
<1>1. /\ Len(a) = Len(b) + 1 /\ Len(e) = Len(d) - 1 /\ Len(c) \in Nat /\ Len(d) \in Nat
      /\ Len(b) \in Nat /\ Len(i) \in Nat
  OBVIOUS
<1>2. ToSet(a) = ToSet(b) \cup {r}
  <2> HIDE DEF r
  <2> QED BY ToSetAppend
<1>3. r.ok
  BY TailFacts, ReqFields
<1>4. u \in {"run", "failed"} => Once(i, s, a, c, e, up)
  BY OnceServed DEF Books
<1> HIDE DEF a, e, r
<1>5. u = "drain" => /\ s = {} /\ Len(a) + Len(c) + Len(e) <= Len(i)
                     /\ up => Len(a) + Len(c) + Len(e) = Len(i)
  <2>1. Len(a) + Len(c) + Len(e) = Len(b) + Len(c) + Len(d)
    BY <1>1
  <2> QED BY <2>1 DEF Books
<1>6. u \in {"run", "failed", "drain"} /\ up
  BY DEF Books, Units
<1>7. Books(u, next, i, s, a, c, e, up)
  BY <1>2, <1>3, <1>4, <1>5, <1>6 DEF Books
<1> QED BY <1>7 DEF a, e, r

LEMMA BooksFinished ==
  ASSUME NEW k, NEW i \in Seq(ReqsOf(k)), NEW s \in SUBSET RepsOf(k), NEW b \in Seq(RepsOf(k)),
         NEW c \in Seq(ReqsOf(k)), NEW d \in Seq(ReqsOf(k)), NEW up \in BOOLEAN, NEW u \in Units, NEW next,
         Books(u, next, i, s, b, c, d, up), c # <<>>
  PROVE  Books(u, next, i, s, b \o Answers(c), <<>>, d, up)
<1> DEFINE w == Answers(c)
           a == b \o w
<1>1. w \in Seq(RepsOf(k)) /\ Len(w) = Len(c) /\ \A f \in ToSet(w) : f.ok
  BY AnswersFacts
<1>2. u \in {"run", "failed"} => Once(i, s, a, <<>>, d, up)
  BY OnceFinished DEF Books
<1> HIDE DEF w
<1>3. Len(a) + Len(<<>>) + Len(d) = Len(b) + Len(c) + Len(d)
  <2>0. w \in Seq(RepsOf(k))
    BY <1>1
  <2>1. Len(a) = Len(b) + Len(w)
    BY <2>0
  <2>2. Len(<<>>) = 0 /\ Len(b) \in Nat /\ Len(c) \in Nat /\ Len(d) \in Nat
    OBVIOUS
  <2> QED BY <1>1, <2>1, <2>2
<1>4. ToSet(a) = ToSet(b) \cup ToSet(w)
  BY <1>1, ToSetConcat
<1> HIDE DEF a
<1>5. u = "drain" => /\ s = {} /\ Len(a) + Len(<<>>) + Len(d) <= Len(i)
                     /\ up => Len(a) + Len(<<>>) + Len(d) = Len(i)
  BY <1>3 DEF Books
<1>6. u \in {"run", "failed", "drain"} /\ up
  BY DEF Books, Units
<1>7. Books(u, next, i, s, a, <<>>, d, up)
  BY <1>1, <1>2, <1>4, <1>5, <1>6 DEF Books
<1> QED BY <1>7 DEF a, w

LEMMA BooksClosed ==
  ASSUME NEW k, NEW i \in Seq(ReqsOf(k)), NEW s \in SUBSET RepsOf(k), NEW b \in Seq(RepsOf(k)),
         NEW c \in Seq(ReqsOf(k)), NEW d \in Seq(ReqsOf(k)), NEW up \in BOOLEAN, NEW u \in Units, NEW next,
         Books(u, next, i, s, b, c, d, up),
         NEW last \in Seq(RepsOf(k)), u \in {"run", "failed"} => Distinct(last),
         Nums(last) \subseteq Nums(c) \cup Nums(d), Len(last) <= Len(c) + Len(d),
         NEW n \in 0 .. Len(b \o last)
  PROVE  Books(u, next, i, s, SubSeq(b \o last, 1, n), <<>>, <<>>, FALSE)
<1> DEFINE all == b \o last
           a == SubSeq(all, 1, n)
<1>1. all \in Seq(RepsOf(k)) /\ Len(all) = Len(b) + Len(last) /\ n \in 0 .. Len(all)
        /\ Len(b) \in Nat /\ Len(last) \in Nat /\ Len(c) \in Nat /\ Len(d) \in Nat /\ Len(i) \in Nat
  OBVIOUS
<1>2. u \in {"run", "failed"} => Once(i, s, a, <<>>, <<>>, FALSE)
  <2> SUFFICES ASSUME u \in {"run", "failed"} PROVE Once(i, s, a, <<>>, <<>>, FALSE)
    OBVIOUS
  <2>1. Once(i, s, b, c, d, up)
    BY DEF Books
  <2> QED BY <2>1, OnceClosed
<1> HIDE DEF all
<1>3. a \in Seq(RepsOf(k)) /\ Len(a) = n /\ Len(<<>>) = 0
  BY <1>1, SplitSeq
<1> HIDE DEF a
<1>4. u = "drain" => s = {} /\ Len(a) + Len(<<>>) + Len(<<>>) <= Len(i)
  <2>1. Len(a) + Len(<<>>) + Len(<<>>) <= Len(b) + Len(c) + Len(d)
    BY <1>1, <1>3
  <2>2. Len(a) + Len(<<>>) + Len(<<>>) \in Nat /\ Len(b) + Len(c) + Len(d) \in Nat
    BY <1>1, <1>3
  <2>3. u = "drain" => s = {} /\ Len(b) + Len(c) + Len(d) <= Len(i)
    BY DEF Books
  <2> HIDE DEF a
  <2> QED BY <1>1, <2>1, <2>2, <2>3
<1>5. u \in {"idle", "redial", "hello"} => a = <<>>
  <2> SUFFICES ASSUME u \in {"idle", "redial", "hello"} PROVE a = <<>>
    OBVIOUS
  <2>1. b = <<>> /\ c = <<>> /\ d = <<>>
    BY DEF Books
  <2>2. n = 0
    BY <1>1, <2>1
  <2> QED BY <1>3, <2>2
<1>6. Books(u, next, i, s, a, <<>>, <<>>, FALSE)
  BY <1>2, <1>4, <1>5 DEF Books
<1> QED BY <1>6 DEF a, all

\* A unit that ends with no ticket left owes nothing.
LEMMA BooksEmpty ==
  ASSUME NEW k, NEW s \in SUBSET RepsOf(k), NEW b \in Seq(RepsOf(k)),
         NEW c \in Seq(ReqsOf(k)), NEW d \in Seq(ReqsOf(k)), NEW up \in BOOLEAN, NEW next,
         Books("run", next, <<>>, s, b, c, d, up)
  PROVE  Books("idle", next, <<>>, s, b, c, d, up)
<1>1. NumsIn(s) = {} /\ Nums(b) = {} /\ Nums(c) = {} /\ Nums(d) = {}
  <2>1. Once(<<>>, s, b, c, d, up)
    BY DEF Books
  <2>2. Nums(<<>>) = {}
    BY DEF Nums
  <2> QED BY <2>1, <2>2 DEF Once
<1>2. s = {}
  BY <1>1 DEF NumsIn
<1>3. b = <<>> /\ c = <<>> /\ d = <<>>
  <2>1. ASSUME NEW S, NEW q \in Seq(S), q # <<>> PROVE Nums(q) # {}
    <3>1. 1 \in DOMAIN q
      BY <2>1
    <3> QED BY <3>1 DEF Nums
  <2> QED BY <1>1, <2>1
<1> QED BY <1>2, <1>3 DEF Books

\* A unit starts with nothing owed.
LEMMA BooksStart ==
  ASSUME NEW k, NEW i \in Seq(ReqsOf(k)), NEW s, NEW b, NEW c, NEW d, NEW up \in BOOLEAN, NEW next,
         Books("idle", next, i, s, b, c, d, up)
  PROVE  Books("run", next, i, s, b, c, d, up)
<1>1. s = {} /\ b = <<>> /\ c = <<>> /\ d = <<>> /\ (up => i = <<>>) /\ Distinct(i)
  BY DEF Books
<1>2. NumsIn({}) = {} /\ Nums(<<>>) = {} /\ Distinct(<<>>)
  BY DEF NumsIn, Nums, Distinct
<1>3. Once(i, s, b, c, d, up)
  BY <1>1, <1>2 DEF Once
<1> QED BY <1>3 DEF Books

\* The drain first drops the tickets the stash answers: the frames left are one
\* for each ticket left, or fewer when the connection is gone.
LEMMA BooksDrain ==
  ASSUME NEW k, NEW i \in Seq(ReqsOf(k)), NEW s \in SUBSET RepsOf(k), NEW b \in Seq(RepsOf(k)),
         NEW c \in Seq(ReqsOf(k)), NEW d \in Seq(ReqsOf(k)), NEW up \in BOOLEAN, NEW next,
         Books("failed", next, i, s, b, c, d, up)
  PROVE  Books("drain", next, Unanswered(i, s), {}, b, c, d, up)
<1> DEFINE R == {t \in ToSet(i) : WithSeq(s, t.seq) # {}}
           w == Without(i, R)
           A == NumsIn(s)
           B == Nums(b)
           C == Nums(c)
           D == Nums(d)
           I == Nums(i)
<1>0. w = Unanswered(i, s)
  BY DEF Unanswered
<1>1. Once(i, s, b, c, d, up) /\ Distinct(i) /\ \A t \in ToSet(i) : t.seq < next
  BY DEF Books
<1>2. w \in Seq(ReqsOf(k)) /\ Nums(w) = NumsIn(ToSet(i) \ R) /\ Distinct(w)
        /\ ToSet(w) = ToSet(i) \ R
  BY <1>1, NumsWithout, WithoutKeeps
<1>3. R = {t \in ToSet(i) : t.seq \in A}
  BY DEF WithSeq, NumsIn
<1>4. I = NumsIn(ToSet(i))
  BY NumsOfSet
<1>5. Nums(w) = I \ A
  <2> HIDE DEF w, A, I, R
  <2> QED BY <1>2, <1>3, <1>4 DEF NumsIn
<1>6. /\ A \cap B = {} /\ A \cap C = {} /\ A \cap D = {}
      /\ B \cap C = {} /\ B \cap D = {} /\ C \cap D = {}
      /\ A \cup B \cup C \cup D \subseteq I
      /\ up => I = A \cup B \cup C \cup D
      /\ Distinct(b) /\ Distinct(c) /\ Distinct(d)
  BY <1>1 DEF Once
<1>7. /\ IsFiniteSet(Nums(w)) /\ Cardinality(Nums(w)) = Len(w)
      /\ IsFiniteSet(B) /\ Cardinality(B) = Len(b)
      /\ IsFiniteSet(C) /\ Cardinality(C) = Len(c)
      /\ IsFiniteSet(D) /\ Cardinality(D) = Len(d)
  <2> HIDE DEF w
  <2> QED BY <1>2, <1>6, NumsCount
<1> HIDE DEF A, B, C, D, I, w, R
<1>8. IsFiniteSet(B \cup C) /\ Cardinality(B \cup C) = Len(b) + Len(c)
  <2>1. B \cap C = {} /\ Cardinality({}) = 0 /\ Len(b) \in Nat /\ Len(c) \in Nat
    BY <1>6, FS_EmptySet
  <2>2. /\ IsFiniteSet(B \cup C)
        /\ Cardinality(B \cup C) = Cardinality(B) + Cardinality(C) - Cardinality(B \cap C)
    BY <1>7, FS_Union
  <2>3. Cardinality(B \cap C) = 0
    BY <2>1, Zenon
  <2> QED BY <1>7, <2>1, <2>2, <2>3
<1>9. /\ IsFiniteSet((B \cup C) \cup D)
      /\ Cardinality((B \cup C) \cup D) = Len(b) + Len(c) + Len(d)
  <2>1. (B \cup C) \cap D = {} /\ Cardinality({}) = 0
         /\ Len(b) \in Nat /\ Len(c) \in Nat /\ Len(d) \in Nat
    BY <1>6, FS_EmptySet
  <2>2. /\ IsFiniteSet((B \cup C) \cup D)
        /\ Cardinality((B \cup C) \cup D)
             = Cardinality(B \cup C) + Cardinality(D) - Cardinality((B \cup C) \cap D)
    BY <1>7, <1>8, FS_Union
  <2>3. Cardinality((B \cup C) \cap D) = 0
    BY <2>1, Zenon
  <2> QED BY <1>7, <1>8, <2>1, <2>2, <2>3
<1>10. (B \cup C) \cup D \subseteq Nums(w) /\ (up => (B \cup C) \cup D = Nums(w))
  BY <1>5, <1>6
<1>11. Len(b) + Len(c) + Len(d) <= Len(w) /\ (up => Len(b) + Len(c) + Len(d) = Len(w))
  BY <1>7, <1>9, <1>10, FS_Subset
<1>12. Books("drain", next, w, {}, b, c, d, up)
  BY <1>1, <1>2, <1>11 DEF Books
<1> QED BY <1>0, <1>12

(***************************************************************************)
(* Types                                                                   *)
(***************************************************************************)
LEMMA EndedFinite ==
  ASSUME TypeOK
  PROVE  IsFiniteSet(ended) /\ Cardinality(ended) \in Nat
<1>1. 1 \in Int /\ MaxFaults + 1 \in Int
  BY TicketsAssumption
<1>2. IsFiniteSet(Conns)
  BY <1>1, FS_Interval DEF Conns
<1>3. IsFiniteSet(ended)
  BY <1>2, FS_Subset DEF TypeOK
<1> QED BY <1>3, FS_CardinalityType

\* A connection that is dead, or ended, can be replaced.
LEMMA AnotherConn ==
  ASSUME TypeOK, Dialled, conn \in ended
  PROVE  conn + 1 \in Conns
<1>1. 1 .. conn \subseteq ended
  BY DEF TypeOK, Dialled, Conns
<1>2. IsFiniteSet(ended) /\ IsFiniteSet(1 .. conn) /\ Cardinality(1 .. conn) = conn
  <2>1. conn \in Nat \ {0} /\ 1 \in Int /\ conn \in Int
    BY TicketsAssumption DEF TypeOK, Conns
  <2>3. IsFiniteSet(ended)
    BY EndedFinite
  <2>4. IsFiniteSet(1 .. conn) /\ Cardinality(1 .. conn) = IF 1 > conn THEN 0 ELSE conn - 1 + 1
    BY <2>1, FS_Interval
  <2> QED BY <2>1, <2>3, <2>4
<1>3. conn <= Cardinality(ended) /\ Cardinality(ended) \in Nat
  BY <1>1, <1>2, FS_Subset, FS_CardinalityType
<1> QED BY <1>3, TicketsAssumption DEF TypeOK, Dialled, Conns

\* What the last frames of a connection leave on it.
LEMMA CloseType ==
  ASSUME TypeOK, serving # Nobody, NEW last \in Seq(RepsOf(serving)), Close(last)
  PROVE  /\ DOMAIN reps' = Conns /\ \A c \in Conns : reps'[c] \in Seq(RepsOf(c))
         /\ DOMAIN reqs' = Conns /\ \A c \in Conns : reqs'[c] \in Seq(ReqsOf(c))
         /\ ended' = ended \cup {serving} /\ ended' \subseteq Conns
         /\ serving' = Nobody /\ cur' = <<>> /\ reqs'[serving] = <<>>
         /\ \A c \in Conns : c # serving => reps'[c] = reps[c] /\ reqs'[c] = reqs[c]
         /\ \E n \in 0 .. Len(reps[serving] \o last) :
              reps'[serving] = SubSeq(reps[serving] \o last, 1, n)
<1>1. serving \in Conns /\ serving \in DOMAIN reps /\ serving \in DOMAIN reqs
  BY DEF TypeOK
<1> DEFINE all == reps[serving] \o last
<1>2. PICK n \in 0 .. Len(all) : reps' = [reps EXCEPT ![serving] = SubSeq(all, 1, n)]
  BY DEF Close
<1>3. all \in Seq(RepsOf(serving))
  BY <1>1 DEF TypeOK
<1>4. SubSeq(all, 1, n) \in Seq(RepsOf(serving))
  <2> HIDE DEF all
  <2> QED BY <1>3, SplitSeq
<1>5. reqs' = [reqs EXCEPT ![serving] = <<>>] /\ <<>> \in Seq(ReqsOf(serving))
  BY EmptyFacts DEF Close
<1> HIDE DEF all
<1>6. DOMAIN reps' = Conns /\ \A c \in Conns : reps'[c] \in Seq(RepsOf(c))
  BY <1>1, <1>2, <1>4 DEF TypeOK
<1>7. DOMAIN reqs' = Conns /\ \A c \in Conns : reqs'[c] \in Seq(ReqsOf(c))
  BY <1>1, <1>5 DEF TypeOK
<1>8. /\ ended' = ended \cup {serving} /\ ended' \subseteq Conns
      /\ serving' = Nobody /\ cur' = <<>>
  BY <1>1 DEF Close, TypeOK
<1>9. reqs'[serving] = <<>> /\ reps'[serving] = SubSeq(all, 1, n)
        /\ \A c \in Conns : c # serving => reps'[c] = reps[c] /\ reqs'[c] = reqs[c]
  BY <1>1, <1>2, <1>5 DEF TypeOK
<1> QED BY <1>6, <1>7, <1>8, <1>9 DEF all

\* The last frames of the three ways a connection ends.
LEMMA LastFrames ==
  ASSUME TypeOK, serving # Nobody
  PROVE  /\ <<>> \in Seq(RepsOf(serving))
         /\ cur # <<>> => <<ErrorFrame(Head(cur))>> \in Seq(RepsOf(serving))
         /\ cur # <<>> /\ reqs[serving] # <<>> =>
              <<ErrorFrame(Head(reqs[serving])), ErrorFrame(Head(cur))>> \in Seq(RepsOf(serving))
<1>1. serving \in Conns /\ reqs[serving] \in Seq(ReqsOf(serving)) /\ cur \in Seq(ReqsOf(serving))
  BY DEF TypeOK
<1>2. cur # <<>> => ErrorFrame(Head(cur)) \in RepsOf(serving)
  BY <1>1, TailFacts, ReqFields
<1>3. reqs[serving] # <<>> => ErrorFrame(Head(reqs[serving])) \in RepsOf(serving)
  BY <1>1, TailFacts, ReqFields
<1> QED BY <1>2, <1>3, EmptyFacts

\* The frames a wait has seen are replies on the client's connection.
LEMMA SeenFacts ==
  ASSUME TypeOK, NEW n \in 0 .. Len(reps[conn])
  PROVE  /\ SeenBy(n) \in SUBSET RepsOf(conn)
         /\ SeenBy(n) = stash \cup ToSet(SubSeq(reps[conn], 1, n))
         /\ SubSeq(reps[conn], n + 1, Len(reps[conn])) \in Seq(RepsOf(conn))
<1>1. reps[conn] \in Seq(RepsOf(conn))
  BY DEF TypeOK
<1>2. ToSet(SubSeq(reps[conn], 1, n)) \subseteq ToSet(reps[conn])
        /\ SubSeq(reps[conn], n + 1, Len(reps[conn])) \in Seq(RepsOf(conn))
  BY <1>1, SplitSeq
<1>3. ToSet(reps[conn]) \subseteq RepsOf(conn)
  BY <1>1, ToSetFinite
<1> QED BY <1>2, <1>3 DEF TypeOK, SeenBy
BaseInv == TypeOK /\ Dialled /\ NotYet

\* A failing unit changes the books of the current connection only.
LEMMA FailUnitFacts ==
  ASSUME BaseInv, NEW tickets \in Seq(ReqsOf(conn)), NEW isDead \in BOOLEAN,
         FailUnit(tickets, isDead), conn' = conn
  PROVE  /\ inFlight' \in Seq(ReqsOf(conn)) /\ dead' = isDead /\ unit' = "failed"
         /\ blame' \in [Conns -> Nat]
         /\ \A c \in Conns : c # conn => blame'[c] = blame[c]
         /\ blame'[conn] = IF conn \in ended THEN blame[conn] + 1 ELSE blame[conn]
BY DEF BaseInv, TypeOK, FailUnit

LEMMA BaseEngine ==
  ASSUME BaseInv,
         \/ StartUnit \/ EndUnit \/ Submit \/ SubmitFails \/ Ready
         \/ LocalFailure \/ DrainStash \/ DrainOne \/ DrainBroken \/ DrainDone \/ StillUp
  PROVE  BaseInv'
<1> USE DEF BaseInv, client, link, daemon, ghost
<1>a. ReqsOf(conn) = ReqsOf(conn) /\ reps[conn] \in Seq(RepsOf(conn)) /\ conn \in Conns
        /\ reqs[conn] \in Seq(ReqsOf(conn)) /\ inFlight \in Seq(ReqsOf(conn))
  BY DEF TypeOK
<1>1. CASE StartUnit
  BY <1>1 DEF StartUnit, TypeOK, Units, Dialled, NotYet
<1>2. CASE EndUnit
  BY <1>2 DEF EndUnit, TypeOK, Units, Dialled, NotYet
<1>3. CASE Submit
  <2> DEFINE q == Request(conn, nextSeq)
  <2>1. q \in ReqsOf(conn)
    BY DEF TypeOK, ReqsOf
  <2>2. Append(reqs[conn], q) \in Seq(ReqsOf(conn)) /\ inFlight' \in Seq(ReqsOf(conn))
    <3> HIDE DEF q
    <3>1. inFlight' = Append(inFlight, q)
      BY <1>3 DEF Submit, q
    <3> QED BY <1>a, <2>1, <3>1
  <2>3. /\ reqs' = [reqs EXCEPT ![conn] = IF conn \in ended THEN @ ELSE Append(@, q)]
        /\ nextSeq' = nextSeq + 1
        /\ UNCHANGED <<conn, stash, dead, unit, reps, ended, backlog, serving, cur,
                        accepted, blame, refused, faults>>
    BY <1>3 DEF Submit
  <2>4. DOMAIN reqs' = Conns /\ \A c \in Conns : reqs'[c] \in Seq(ReqsOf(c))
    <3> HIDE DEF q
    <3> QED BY <1>a, <2>2, <2>3 DEF TypeOK
  <2>5. \A c \in Conns : c # conn => reqs'[c] = reqs[c]
    <3> HIDE DEF q
    <3> QED BY <1>a, <2>3 DEF TypeOK
  <2>6. TypeOK'
    BY <2>2, <2>3, <2>4 DEF TypeOK, Numbers
  <2>7. Dialled'
    BY <2>3 DEF Dialled
  <2>8. NotYet'
    BY <2>3, <2>5, <1>a DEF NotYet, Conns
  <2> QED BY <2>6, <2>7, <2>8
<1>4. CASE SubmitFails
  <2>1. FailUnit(inFlight, TRUE) /\ conn' = conn /\ conn \in ended
    BY <1>4 DEF SubmitFails
  <2>2. /\ inFlight' \in Seq(ReqsOf(conn)) /\ dead' = TRUE /\ unit' = "failed"
        /\ blame' \in [Conns -> Nat] /\ \A c \in Conns : c # conn => blame'[c] = blame[c]
    BY <1>a, <2>1, FailUnitFacts
  <2>3. nextSeq' = nextSeq + 1 /\ UNCHANGED <<conn, stash, reqs, reps, ended, backlog, serving, cur, refused, faults>>
    BY <1>4 DEF SubmitFails
  <2>4. unit = "run"
    BY <1>4 DEF SubmitFails
  <2>5. TypeOK'
    BY <2>2, <2>3 DEF TypeOK, Numbers, Units
  <2>6. Dialled'
    BY <2>1, <2>2, <2>3, <2>4 DEF Dialled
  <2>7. NotYet'
    BY <2>2, <2>3, <2>4, <1>a DEF NotYet, Conns
  <2> QED BY <2>5, <2>6, <2>7
<1>5. CASE Ready
  <2>1. ToSet(reps[conn]) \subseteq RepsOf(conn)
    BY <1>a, ToSetFinite
  <2>2. stash' = stash \cup ToSet(reps[conn]) /\ reps' = [reps EXCEPT ![conn] = <<>>]
         /\ UNCHANGED <<conn, nextSeq, inFlight, dead, unit, reqs, ended, backlog, serving, cur,
                         accepted, blame, refused, faults>>
    BY <1>5 DEF Ready
  <2>3. DOMAIN reps' = Conns /\ \A c \in Conns : reps'[c] = IF c = conn THEN <<>> ELSE reps[c]
    BY <1>a, <2>2 DEF TypeOK
  <2>4. TypeOK'
    BY <2>1, <2>2, <2>3, EmptyFacts DEF TypeOK
  <2>5. Dialled'
    BY <2>2 DEF Dialled
  <2>6. NotYet'
    BY <2>2, <2>3 DEF NotYet
  <2> QED BY <2>4, <2>5, <2>6
<1>6. CASE LocalFailure
  <2>1. unit' = "failed" /\ unit = "run" /\ faults > 0 /\ faults' = faults - 1
    BY <1>6 DEF LocalFailure, Fault
  <2>2. UNCHANGED <<conn, nextSeq, inFlight, stash, dead, reqs, reps, ended, backlog, serving, cur,
                    accepted, blame, refused>>
    BY <1>6 DEF LocalFailure
  <2>3. TypeOK'
    BY <2>1, <2>2 DEF TypeOK, Units
  <2>4. IsFiniteSet(ended)
    BY EndedFinite
  <2>5. Dialled'
    BY <2>1, <2>2, <2>4, FS_CardinalityType, TicketsAssumption DEF Dialled, TypeOK
  <2>6. NotYet'
    BY <2>1, <2>2 DEF NotYet
  <2> QED BY <2>3, <2>5, <2>6
<1>7. CASE DrainStash
  <2>1. inFlight' \in Seq(ReqsOf(conn))
    BY <1>a, <1>7, WithoutKeeps DEF DrainStash, Unanswered
  <2> QED BY <1>7, <2>1 DEF DrainStash, TypeOK, Units, Dialled, NotYet
<1>8. CASE DrainOne
  <2>1. inFlight' \in Seq(ReqsOf(conn))
    BY <1>a, <1>8, TailFacts DEF DrainOne, LeftToDrain
  <2>2. Tail(reps[conn]) \in Seq(RepsOf(conn))
    BY <1>a, <1>8, TailFacts DEF DrainOne
  <2>3. /\ reps' = [reps EXCEPT ![conn] = Tail(@)]
        /\ UNCHANGED <<conn, nextSeq, stash, dead, unit, reqs, ended, backlog, serving, cur,
                        accepted, blame, refused, faults>>
    BY <1>8 DEF DrainOne
  <2>4. DOMAIN reps' = Conns /\ \A c \in Conns : reps'[c] = IF c = conn THEN Tail(reps[conn]) ELSE reps[c]
    BY <1>a, <2>3 DEF TypeOK
  <2>5. TypeOK'
    BY <2>1, <2>2, <2>3, <2>4 DEF TypeOK
  <2>6. Dialled'
    BY <2>3, <2>4 DEF Dialled
  <2>16. NotYet'
    BY <2>3, <2>4 DEF NotYet
  <2> QED BY <2>5, <2>6, <2>16
<1>9. CASE DrainBroken
  <2>1. inFlight' \in Seq(ReqsOf(conn))
    BY <1>a, <1>9, TailFacts DEF DrainBroken
  <2> QED BY <1>9, <2>1 DEF DrainBroken, TypeOK, Units, Dialled, NotYet
<1>10. CASE DrainDone
  BY <1>10 DEF DrainDone, TypeOK, Units, Dialled, NotYet
<1>11. CASE StillUp
  BY <1>11 DEF StillUp, TypeOK, Units, Dialled, NotYet
<1> QED BY <1>1, <1>2, <1>3, <1>4, <1>5, <1>6, <1>7, <1>8, <1>9, <1>10, <1>11

LEMMA BaseWait ==
  ASSUME BaseInv, NEW t, Wait(t) \/ WaitFails(t)
  PROVE  BaseInv'
<1> USE DEF BaseInv
<1>a. reps[conn] \in Seq(RepsOf(conn)) /\ conn \in Conns /\ inFlight \in Seq(ReqsOf(conn))
  BY DEF TypeOK
<1>b. Without(inFlight, {t}) \in Seq(ReqsOf(conn))
  BY <1>a, WithoutKeeps
<1>1. CASE Wait(t)
  <2>1. PICK n \in Stops(t) : \E f \in AnswerOf(t, SeenBy(n)) :
          /\ reps' = [reps EXCEPT ![conn] = SubSeq(@, n + 1, Len(@))]
          /\ stash' = SeenBy(n) \ {f}
          /\ \/ inFlight' = Without(inFlight, {t}) /\ UNCHANGED <<unit, dead, blame>>
             \/ FailUnit(Without(inFlight, {t}), dead)
    BY <1>1 DEF Wait
  <2>2. unit = "run" /\ UNCHANGED <<conn, nextSeq, reqs, ended, backlog, serving, cur, refused, faults>>
    BY <1>1 DEF Wait, daemon
  <2>3. n \in 0 .. Len(reps[conn])
    BY DEF Stops
  <2>4. /\ inFlight' \in Seq(ReqsOf(conn)) /\ dead' = dead /\ unit' \in {"run", "failed"}
        /\ blame' \in [Conns -> Nat] /\ \A c \in Conns : c # conn => blame'[c] = blame[c]
    BY <1>b, <2>1, <2>2, FailUnitFacts DEF TypeOK
  <2>5. stash' \subseteq RepsOf(conn)
    BY <2>1, <2>3, SeenFacts
  <2>6. DOMAIN reps' = Conns /\ reps'[conn] \in Seq(RepsOf(conn))
         /\ \A c \in Conns : c # conn => reps'[c] = reps[c]
    <3>1. SubSeq(reps[conn], n + 1, Len(reps[conn])) \in Seq(RepsOf(conn))
      BY <1>a, <2>3, SeenFacts
    <3>2. reps' = [reps EXCEPT ![conn] = SubSeq(reps[conn], n + 1, Len(reps[conn]))]
      BY <2>1
    <3>3. DOMAIN reps = Conns
      BY DEF TypeOK
    <3> HIDE <2>1
    <3> QED BY <1>a, <3>1, <3>2, <3>3
  <2>7. TypeOK'
    BY <2>2, <2>4, <2>5, <2>6 DEF TypeOK, Units
  <2>8. Dialled'
    BY <1>a, <2>2, <2>4, <2>6 DEF Dialled, Conns
  <2>18. NotYet'
    BY <1>a, <2>2, <2>4, <2>6 DEF NotYet, Conns
  <2> QED BY <2>7, <2>8, <2>18
<1>2. CASE WaitFails(t)
  <2>1. /\ stash' = SeenBy(Len(reps[conn])) /\ reps' = [reps EXCEPT ![conn] = <<>>]
        /\ FailUnit(Without(inFlight, {t}), TRUE)
        /\ unit = "run" /\ conn \in ended
        /\ UNCHANGED <<conn, nextSeq, reqs, ended, backlog, serving, cur, refused, faults>>
    BY <1>2 DEF WaitFails, daemon
  <2>2. /\ inFlight' \in Seq(ReqsOf(conn)) /\ dead' = TRUE /\ unit' = "failed"
        /\ blame' \in [Conns -> Nat] /\ \A c \in Conns : c # conn => blame'[c] = blame[c]
    BY <1>b, <2>1, FailUnitFacts
  <2>3. Len(reps[conn]) \in 0 .. Len(reps[conn])
    BY <1>a
  <2>4. stash' \subseteq RepsOf(conn)
    BY <2>1, <2>3, SeenFacts
  <2>5. DOMAIN reps' = Conns /\ reps'[conn] \in Seq(RepsOf(conn))
         /\ \A c \in Conns : c # conn => reps'[c] = reps[c]
    BY <1>a, <2>1, EmptyFacts DEF TypeOK
  <2>6. TypeOK'
    BY <2>1, <2>2, <2>4, <2>5 DEF TypeOK, Units
  <2>7. Dialled'
    BY <2>1, <2>2 DEF Dialled
  <2>8. NotYet'
    BY <1>a, <2>1, <2>2, <2>5 DEF NotYet, Conns
  <2> QED BY <2>6, <2>7, <2>8
<1> QED BY <1>1, <1>2

LEMMA BaseDial ==
  ASSUME BaseInv, Dial \/ DialRefused \/ HelloFails \/ Hello
  PROVE  BaseInv'
<1> USE DEF BaseInv, client, link, daemon, ghost
<1>0. IsFiniteSet(ended) /\ Cardinality(ended) \in Nat
  BY EndedFinite
<1>1. CASE Dial
  <2>1. /\ unit = "redial" /\ dead /\ backlog' = Append(backlog, conn + 1) /\ unit' = "hello"
        /\ UNCHANGED <<conn, nextSeq, inFlight, stash, dead, reqs, reps, ended, serving, cur,
                        accepted, blame, refused, faults>>
    BY <1>1 DEF Dial
  <2>2. backlog = <<>> /\ conn + 1 \notin ended /\ serving # conn + 1
    BY <2>1 DEF Dialled, NotYet
  <2>3. backlog' = <<conn + 1>>
    BY <2>1, <2>2
  <2>4. TypeOK' /\ Dialled'
    BY <2>1 DEF TypeOK, Dialled, Units
  <2>5. NotYet'
    BY <2>1, <2>2, <2>3 DEF NotYet
  <2> QED BY <2>4, <2>5
<1>2. CASE DialRefused
  <2>1. /\ unit = "redial" /\ dead /\ unit' = "idle" /\ refused' = refused + 1
        /\ faults > 0 /\ faults' = faults - 1
        /\ UNCHANGED <<conn, nextSeq, inFlight, stash, dead, reqs, reps, ended, backlog, serving,
                        cur, accepted, blame>>
    BY <1>2 DEF DialRefused, GiveUp, Fault
  <2>2. TypeOK'
    BY <2>1 DEF TypeOK, Units
  <2>3. Dialled'
    BY <1>0, <2>1, TicketsAssumption DEF Dialled, TypeOK
  <2>4. NotYet'
    BY <2>1 DEF NotYet
  <2> QED BY <2>2, <2>3, <2>4
<1>3. CASE HelloFails
  <2>1. /\ unit = "hello" /\ serving # conn + 1 /\ conn + 1 \notin ToSet(backlog)
        /\ unit' = "idle" /\ refused' = refused + 1 /\ ended' = ended \ {conn + 1}
        /\ UNCHANGED <<conn, nextSeq, inFlight, stash, dead, reqs, reps, backlog, serving,
                        cur, accepted, blame, faults>>
    BY <1>3 DEF HelloFails, GiveUp
  <2>2. backlog = <<>>
    <3>1. conn + 1 \in ToSet(<<conn + 1>>)
      BY DEF ToSet
    <3> QED BY <2>1, <3>1 DEF NotYet
  <2>3. TypeOK'
    BY <2>1 DEF TypeOK, Units
  <2>4. Cardinality(ended') <= Cardinality(ended) /\ Cardinality(ended') \in Nat
    <3>1. /\ IsFiniteSet(ended \ {conn + 1})
          /\ Cardinality(ended \ {conn + 1})
               = IF conn + 1 \in ended THEN Cardinality(ended) - 1 ELSE Cardinality(ended)
      BY <1>0, FS_RemoveElement
    <3>2. Cardinality(ended \ {conn + 1}) \in Nat
      BY <3>1, FS_CardinalityType
    <3> QED BY <1>0, <2>1, <3>1, <3>2
  <2>5. Dialled'
    <3>1. conn \in Nat /\ conn \notin {conn + 1} /\ \A c \in 1 .. conn - 1 : c # conn + 1
      BY DEF TypeOK, Conns
    <3>2. Cardinality(ended') + faults' <= MaxFaults
      BY <1>0, <2>1, <2>4, TicketsAssumption DEF Dialled, TypeOK
    <3> QED BY <2>1, <3>1, <3>2 DEF Dialled
  <2>6. NotYet'
    BY <2>1, <2>2 DEF NotYet
  <2> QED BY <2>3, <2>5, <2>6
<1>4. CASE Hello
  <2>1. /\ unit = "hello" /\ (serving = conn + 1 \/ conn + 1 \in ended)
        /\ conn' = conn + 1 /\ nextSeq' = 1 /\ inFlight' = <<>> /\ stash' = {} /\ dead' = FALSE
        /\ unit' = "idle"
        /\ UNCHANGED <<reqs, reps, ended, backlog, serving, cur, accepted, blame, refused, faults>>
    BY <1>4 DEF Hello
  <2>2. conn \in ended /\ backlog = <<>>
    BY <2>1 DEF Dialled, NotYet
  <2>3. conn + 1 \in Conns /\ conn \in Nat
    BY <2>2, AnotherConn DEF TypeOK, Conns
  <2>4. TypeOK'
    <3>1. nextSeq' \in Numbers /\ conn' \in Conns /\ dead' \in BOOLEAN /\ unit' \in Units
      <4>1. nextSeq' = 1 /\ 1 \in Numbers
        BY <2>1 DEF Numbers
      <4>2. conn' \in Conns /\ dead' \in BOOLEAN /\ unit' \in Units
        BY <2>1, <2>3 DEF Units
      <4> QED BY <4>1, <4>2, Zenon
    <3>2. inFlight' \in Seq(ReqsOf(conn')) /\ stash' \in SUBSET RepsOf(conn')
      BY <2>1, EmptyFacts
    <3>3. UNCHANGED <<reqs, reps, ended, serving, cur, blame, refused, faults>>
      BY <2>1
    <3> QED BY <3>1, <3>2, <3>3 DEF TypeOK
  <2>5. Dialled'
    <3>1. \A c \in 1 .. conn' - 1 : c \in 1 .. conn - 1 \/ c = conn
      BY <2>1, <2>3
    <3>2. \A c \in ended : c \in Nat /\ c <= conn + 1
      BY DEF TypeOK, Dialled, Conns
    <3>3. 1 .. conn' - 1 \subseteq ended
      BY <2>2, <3>1 DEF Dialled
    <3>4. conn' + 1 \notin ended /\ \A c \in ended : c <= conn' + 1
      BY <2>1, <2>3, <3>2
    <3>5. ended' = ended /\ faults' = faults /\ dead' = FALSE /\ unit' = "idle"
      BY <2>1
    <3> QED BY <3>3, <3>4, <3>5 DEF Dialled
  <2>6. NotYet'
    <3>1. serving \in Nat
      BY DEF TypeOK, Conns, Nobody
    <3>2. \A c \in Conns : c > conn + 1 => c > conn
      BY <2>3 DEF Conns
    <3> QED BY <2>1, <2>2, <2>3, <3>1, <3>2 DEF NotYet
  <2> QED BY <2>4, <2>5, <2>6
<1> QED BY <1>1, <1>2, <1>3, <1>4

LEMMA BaseDaemon ==
  ASSUME BaseInv, Accept \/ Take(1) \/ Take(2) \/ ServeInside \/ Finish \/ Restart
  PROVE  BaseInv'
<1> USE DEF BaseInv, client, link, daemon, ghost
<1>1. CASE Accept
  <2>1. /\ serving = Nobody /\ backlog # <<>> /\ serving' = Head(backlog)
        /\ backlog' = Tail(backlog)
        /\ UNCHANGED <<conn, nextSeq, inFlight, stash, dead, unit, reqs, reps, ended, cur,
                        accepted, blame, refused, faults>>
    BY <1>1 DEF Accept
  <2>2. backlog = <<conn + 1>> /\ unit = "hello" /\ conn + 1 \notin ended
    BY <2>1 DEF NotYet
  <2>3. serving' = conn + 1 /\ backlog' = <<>>
    BY <2>1, <2>2
  <2>4. conn + 1 \in Conns /\ cur = <<>>
    BY <2>1, <2>2, AnotherConn DEF Dialled, TypeOK
  <2>5. TypeOK'
    BY <2>1, <2>3, <2>4, EmptyFacts DEF TypeOK
  <2>6. Dialled'
    BY <2>1, <2>2, <2>3, <2>4 DEF Dialled, Conns
  <2>16. NotYet'
    BY <2>1, <2>2, <2>3, <2>4 DEF NotYet, Conns
  <2> QED BY <2>5, <2>6, <2>16
<1>2. ASSUME NEW n \in {1, 2}, Take(n) PROVE BaseInv'
  <2>1. /\ serving # Nobody /\ cur = <<>> /\ Len(reqs[serving]) >= n
        /\ cur' = SubSeq(reqs[serving], 1, n)
        /\ reqs' = [reqs EXCEPT ![serving] = SubSeq(@, n + 1, Len(@))]
        /\ UNCHANGED <<conn, nextSeq, inFlight, stash, dead, unit, reps, ended, backlog, serving,
                        accepted, blame, refused, faults>>
    BY <1>2 DEF Take
  <2>2. serving \in Conns /\ reqs[serving] \in Seq(ReqsOf(serving))
          /\ n \in 0 .. Len(reqs[serving])
    BY <2>1 DEF TypeOK
  <2>3. cur' \in Seq(ReqsOf(serving))
          /\ SubSeq(reqs[serving], n + 1, Len(reqs[serving])) \in Seq(ReqsOf(serving))
    BY <2>1, <2>2, SplitSeq
  <2>4. DOMAIN reqs' = Conns /\ reqs'[serving] \in Seq(ReqsOf(serving))
          /\ \A c \in Conns : c # serving => reqs'[c] = reqs[c]
    BY <2>1, <2>2, <2>3 DEF TypeOK
  <2>5. TypeOK'
    BY <2>1, <2>2, <2>3, <2>4 DEF TypeOK
  <2>6. serving <= conn
    <3>1. reqs[serving] # <<>>
      BY <2>1, <2>2
    <3> QED BY <2>2, <3>1 DEF NotYet, TypeOK, Conns
  <2>7. Dialled'
    BY <2>1, <2>2, <2>4, <2>6 DEF Dialled, TypeOK, Conns
  <2>17. NotYet'
    BY <2>1, <2>2, <2>4, <2>6 DEF NotYet, TypeOK, Conns
  <2> QED BY <2>5, <2>7, <2>17
<1>3. CASE ServeInside
  <2>1. /\ serving # Nobody /\ Len(cur) = 1 /\ reqs[serving] # <<>>
        /\ reps' = [reps EXCEPT ![serving] = Append(@, Reply(Head(reqs[serving])))]
        /\ reqs' = [reqs EXCEPT ![serving] = Tail(@)]
        /\ UNCHANGED <<conn, nextSeq, inFlight, stash, dead, unit, ended, backlog, serving, cur,
                        accepted, blame, refused, faults>>
    BY <1>3 DEF ServeInside
  <2>2. serving \in Conns /\ reqs[serving] \in Seq(ReqsOf(serving))
          /\ reps[serving] \in Seq(RepsOf(serving))
    BY <2>1 DEF TypeOK
  <2>3. Tail(reqs[serving]) \in Seq(ReqsOf(serving)) /\ Head(reqs[serving]) \in ReqsOf(serving)
    BY <2>1, <2>2, TailFacts
  <2>4. Reply(Head(reqs[serving])) \in RepsOf(serving)
    BY <2>3, ReqFields
  <2>5. Append(reps[serving], Reply(Head(reqs[serving]))) \in Seq(RepsOf(serving))
    BY <2>2, <2>4
  <2>6. /\ DOMAIN reqs' = Conns /\ reqs'[serving] \in Seq(ReqsOf(serving))
        /\ DOMAIN reps' = Conns /\ reps'[serving] \in Seq(RepsOf(serving))
        /\ \A c \in Conns : c # serving => reqs'[c] = reqs[c] /\ reps'[c] = reps[c]
    BY <2>1, <2>2, <2>3, <2>5 DEF TypeOK
  <2>7. TypeOK'
    BY <2>1, <2>6 DEF TypeOK
  <2>8. serving <= conn
    BY <2>1, <2>2 DEF NotYet, TypeOK, Conns
  <2>9. Dialled'
    BY <2>1, <2>2, <2>6, <2>8 DEF Dialled, TypeOK, Conns
  <2>19. NotYet'
    BY <2>1, <2>2, <2>6, <2>8 DEF NotYet, TypeOK, Conns
  <2> QED BY <2>7, <2>9, <2>19
<1>4. CASE Finish
  <2>1. /\ serving # Nobody /\ cur # <<>>
        /\ reps' = [reps EXCEPT ![serving] = @ \o Answers(cur)] /\ cur' = <<>>
        /\ UNCHANGED <<conn, nextSeq, inFlight, stash, dead, unit, reqs, ended, backlog, serving,
                        accepted, blame, refused, faults>>
    BY <1>4 DEF Finish
  <2>2. serving \in Conns /\ cur \in Seq(ReqsOf(serving)) /\ reps[serving] \in Seq(RepsOf(serving))
    BY <2>1 DEF TypeOK
  <2>3. Answers(cur) \in Seq(RepsOf(serving))
    BY <2>2, AnswersFacts
  <2>4. reps[serving] \o Answers(cur) \in Seq(RepsOf(serving))
    BY <2>2, <2>3
  <2>5. DOMAIN reps' = Conns /\ reps'[serving] \in Seq(RepsOf(serving))
         /\ \A c \in Conns : c # serving => reps'[c] = reps[c]
    BY <2>1, <2>2, <2>4 DEF TypeOK
  <2>6. TypeOK'
    BY <2>1, <2>5, EmptyFacts DEF TypeOK
  <2>7. serving <= conn
    BY <2>1, <2>2 DEF NotYet, TypeOK, Conns
  <2>8. Dialled'
    BY <2>1, <2>2, <2>5, <2>7 DEF Dialled, TypeOK, Conns
  <2>18. NotYet'
    BY <2>1, <2>2, <2>5, <2>7 DEF NotYet, TypeOK, Conns
  <2> QED BY <2>6, <2>8, <2>18
<1>5. CASE Restart
  <2>1. /\ faults > 0 /\ faults' = faults - 1 /\ backlog' = <<>>
        /\ UNCHANGED <<conn, nextSeq, inFlight, stash, dead, unit, reqs, reps, ended, serving, cur,
                        accepted, blame, refused>>
    BY <1>5 DEF Restart, Fault
  <2>2. Cardinality(ended) \in Nat
    BY EndedFinite
  <2>3. faults \in Nat /\ faults' \in Nat /\ faults' <= faults /\ MaxFaults \in Nat
    BY <2>1, TicketsAssumption DEF TypeOK
  <2>4. TypeOK'
    BY <2>1, <2>3 DEF TypeOK
  <2>5. Cardinality(ended) + faults' <= MaxFaults
    BY <2>2, <2>3 DEF Dialled
  <2>6. Dialled'
    BY <2>1, <2>5 DEF Dialled
  <2>7. NotYet'
    BY <2>1 DEF NotYet
  <2> QED BY <2>4, <2>6, <2>7
<1> QED BY <1>1, <1>2, <1>3, <1>4, <1>5

\* The ways a connection ends.
LEMMA BaseClose ==
  ASSUME BaseInv, serving # Nobody, Fault, NEW last \in Seq(RepsOf(serving)), Close(last),
         last # <<>> => cur # <<>>, UNCHANGED <<client, unit, backlog, ghost>>
  PROVE  BaseInv'
<1> USE DEF BaseInv
<1>1. serving \in Conns /\ serving \notin ended /\ serving # 0
  BY DEF TypeOK, NotYet, Nobody
<1>2. /\ DOMAIN reps' = Conns /\ \A c \in Conns : reps'[c] \in Seq(RepsOf(c))
      /\ DOMAIN reqs' = Conns /\ \A c \in Conns : reqs'[c] \in Seq(ReqsOf(c))
      /\ ended' = ended \cup {serving} /\ ended' \subseteq Conns
      /\ serving' = Nobody /\ cur' = <<>> /\ reqs'[serving] = <<>>
      /\ \A c \in Conns : c # serving => reps'[c] = reps[c] /\ reqs'[c] = reqs[c]
  BY CloseType
<1>3. UNCHANGED <<conn, nextSeq, inFlight, stash, dead, unit, backlog, accepted, blame, refused>>
  BY DEF client, ghost
<1>4. faults' = faults - 1 /\ faults > 0
  BY DEF Fault
<1>5. TypeOK'
  BY <1>2, <1>3, <1>4, EmptyFacts DEF TypeOK
<1>6. Cardinality(ended') = Cardinality(ended) + 1 /\ Cardinality(ended) \in Nat
  BY <1>1, <1>2, EndedFinite, FS_AddElement
<1>7. serving > conn => reps'[serving] = <<>>
  <2> SUFFICES ASSUME serving > conn PROVE reps'[serving] = <<>>
    OBVIOUS
  <2>1. reps[serving] = <<>> /\ last = <<>>
    BY <1>1 DEF NotYet
  <2>2. Len(reps[serving] \o last) = 0
    BY <2>1
  <2>3. reps'[serving] = SubSeq(reps[serving] \o last, 1, 0)
    BY <2>2, CloseType
  <2> QED BY <2>1, <2>3
<1>8. Dialled'
  <2>1. Cardinality(ended') + faults' <= MaxFaults
    BY <1>4, <1>6, TicketsAssumption DEF Dialled, TypeOK
  <2>2. serving <= conn + 1 /\ (serving = conn + 1 => unit = "hello")
    BY DEF NotYet
  <2> QED BY <1>2, <1>3, <2>1, <2>2 DEF Dialled
<1>9. NotYet'
  <2>1. conn \in Nat /\ \A c \in Conns : c \in Nat /\ c # 0
    BY DEF TypeOK, Conns
  <2>2. serving' = 0 /\ cur' = <<>> /\ serving' \notin ended' /\ serving' <= conn' + 1
          /\ serving' # conn' + 1
    BY <1>2, <1>3, <2>1 DEF Nobody
  <2>3. \A c \in Conns : c > conn => reqs'[c] = <<>> /\ reps'[c] = <<>> /\ blame'[c] = 0
    BY <1>1, <1>2, <1>3, <1>7 DEF NotYet
  <2>4. backlog # <<>> => conn + 1 \notin ended'
    BY <1>2 DEF NotYet
  <2>5. (backlog \in {<<>>, <<conn + 1>>})' /\ (backlog # <<>> => unit = "hello")'
    BY <1>3 DEF NotYet
  <2> QED BY <1>3, <2>2, <2>3, <2>4, <2>5 DEF NotYet
<1> QED BY <1>5, <1>8, <1>9

LEMMA BaseNext ==
  ASSUME BaseInv, Next
  PROVE  BaseInv'
<1>1. CASE FailRequest \/ FailInterleaved \/ Reset
  <2>0. TypeOK /\ serving # Nobody /\ Fault /\ UNCHANGED <<client, unit, backlog, ghost>>
    BY <1>1 DEF FailRequest, FailInterleaved, Reset, BaseInv
  <2>1. PICK last \in Seq(RepsOf(serving)) : Close(last) /\ (last # <<>> => cur # <<>>)
    <3>1. Len(cur) = 1 => cur # <<>>
      OBVIOUS
    <3> QED BY <1>1, <2>0, <3>1, LastFrames DEF FailRequest, FailInterleaved, Reset
  <2> QED BY <2>0, <2>1, BaseClose
<1> QED BY <1>1, BaseEngine, BaseWait, BaseDial, BaseDaemon DEF Next

(***************************************************************************)
(* The books balance                                                       *)
(***************************************************************************)
LEMMA View ==
  ASSUME BaseInv
  PROVE  /\ inFlight \in Seq(ReqsOf(conn)) /\ stash \in SUBSET RepsOf(conn)
         /\ reps[conn] \in Seq(RepsOf(conn)) /\ reqs[conn] \in Seq(ReqsOf(conn))
         /\ AtDaemon \in Seq(ReqsOf(conn)) /\ (conn \notin ended) \in BOOLEAN
         /\ unit \in Units /\ nextSeq \in Numbers /\ conn \in Conns
         /\ conn \in ended => AtDaemon = <<>>
BY EmptyFacts DEF BaseInv, TypeOK, NotYet, AtDaemon

\* A unit starts, ends, or fails with its frames as they are.
LEMMA OwedUnit ==
  ASSUME BaseInv, Owed, StartUnit \/ EndUnit \/ SubmitFails \/ LocalFailure
  PROVE  Owed'
<1> DEFINE up == conn \notin ended
<1>0. inFlight \in Seq(ReqsOf(conn)) /\ stash \in SUBSET RepsOf(conn)
         /\ reps[conn] \in Seq(RepsOf(conn)) /\ reqs[conn] \in Seq(ReqsOf(conn))
         /\ AtDaemon \in Seq(ReqsOf(conn)) /\ up \in BOOLEAN /\ nextSeq \in Numbers
  BY View
<1>1. UNCHANGED <<conn, inFlight, stash, reps, reqs, ended, serving, cur>>
  BY DEF StartUnit, EndUnit, SubmitFails, LocalFailure, FailUnit, client, link, daemon
<1>2. AtDaemon' = AtDaemon /\ up' = up
  BY <1>1 DEF AtDaemon
<1> HIDE DEF up
<1>3. Books(unit, nextSeq, inFlight, stash, reps[conn], AtDaemon, reqs[conn], up)
  BY DEF Owed, up
<1> SUFFICES Books(unit', nextSeq', inFlight, stash, reps[conn], AtDaemon, reqs[conn], up)
  BY <1>1, <1>2 DEF Owed, up
<1>4. CASE StartUnit
  <2>1. unit = "idle" /\ unit' = "run" /\ nextSeq' = nextSeq
    BY <1>4 DEF StartUnit, client
  <2> QED BY <1>0, <1>3, <2>1, BooksStart
<1>5. CASE EndUnit
  <2>1. unit = "run" /\ unit' = "idle" /\ nextSeq' = nextSeq /\ inFlight = <<>>
    BY <1>5 DEF EndUnit, client
  <2> QED BY <1>0, <1>3, <2>1, BooksEmpty
<1>6. CASE SubmitFails
  <2>1. unit = "run" /\ unit' = "failed" /\ nextSeq' = nextSeq + 1
    BY <1>6 DEF SubmitFails, FailUnit
  <2>2. \A t \in ToSet(inFlight) : t.seq \in Nat
    BY <1>0, ToSetFinite, ReqFields DEF Numbers
  <2>3. \A t \in ToSet(inFlight) : t.seq < nextSeq + 1
    BY <1>0, <1>3, <2>2 DEF Books, Numbers
  <2> QED BY <1>3, <2>1, <2>3 DEF Books
<1>7. CASE LocalFailure
  <2>1. unit = "run" /\ unit' = "failed" /\ nextSeq' = nextSeq
    BY <1>7 DEF LocalFailure, client
  <2> QED BY <1>3, <2>1 DEF Books
<1> QED BY <1>4, <1>5, <1>6, <1>7

LEMMA OwedSubmit ==
  ASSUME BaseInv, Owed, Submit
  PROVE  Owed'
<1> DEFINE up == conn \notin ended
           r == Request(conn, nextSeq)
<1>0. inFlight \in Seq(ReqsOf(conn)) /\ stash \in SUBSET RepsOf(conn)
         /\ reps[conn] \in Seq(RepsOf(conn)) /\ reqs[conn] \in Seq(ReqsOf(conn))
         /\ AtDaemon \in Seq(ReqsOf(conn)) /\ up \in BOOLEAN /\ nextSeq \in Numbers /\ conn \in Conns
  BY View
<1>1. /\ unit = "run" /\ inFlight' = Append(inFlight, r) /\ nextSeq' = nextSeq + 1
      /\ reqs' = [reqs EXCEPT ![conn] = IF conn \in ended THEN @ ELSE Append(@, r)]
      /\ UNCHANGED <<conn, stash, unit, reps, ended, serving, cur>>
  BY DEF Submit, daemon
<1>2. AtDaemon' = AtDaemon /\ up' = up
  BY <1>1 DEF AtDaemon
<1>3. reqs'[conn] = IF up THEN Append(reqs[conn], r) ELSE reqs[conn]
  BY <1>0, <1>1 DEF BaseInv, TypeOK
<1>4. r \in ReqsOf(conn) /\ r.seq = nextSeq
  BY <1>0 DEF ReqsOf, Request
<1>5. \A t \in ToSet(inFlight) : t.seq \in Nat
  BY <1>0, ToSetFinite, ReqFields DEF Numbers
<1> HIDE DEF up, r
<1>6. Books("run", nextSeq, inFlight, stash, reps[conn], AtDaemon, reqs[conn], up)
  BY <1>1 DEF Owed, up
<1>7. Nums(inFlight) = NumsIn(ToSet(inFlight))
  BY <1>0, NumsOfSet
<1>8. r.seq \notin Nums(inFlight)
  BY <1>0, <1>4, <1>5, <1>6, <1>7 DEF Books, NumsIn, Numbers
<1>9. Once(inFlight', stash, reps[conn], AtDaemon, reqs'[conn], up)
  <2>1. Once(inFlight, stash, reps[conn], AtDaemon, reqs[conn], up)
    BY <1>6 DEF Books
  <2>2. Once(Append(inFlight, r), stash, reps[conn], AtDaemon,
             IF up THEN Append(reqs[conn], r) ELSE reqs[conn], up)
    BY <1>0, <1>4, <1>8, <2>1, OnceSubmit
  <2> QED BY <1>1, <1>3, <2>2
<1>10. ToSet(inFlight') = ToSet(inFlight) \cup {r}
  BY <1>0, <1>1, ToSetAppend
<1>11. \A t \in ToSet(inFlight') : t.seq < nextSeq + 1
  BY <1>0, <1>4, <1>5, <1>6, <1>10 DEF Books, Numbers
<1>12. ~ up => AtDaemon = <<>> /\ reqs'[conn] = <<>>
  BY <1>3, <1>6 DEF Books
<1>13. Distinct(inFlight') /\ (up => \A f \in stash \cup ToSet(reps[conn]) : f.ok)
  BY <1>6, <1>9 DEF Books, Once
<1>14. Books("run", nextSeq + 1, inFlight', stash, reps[conn], AtDaemon, reqs'[conn], up)
  BY <1>9, <1>11, <1>12, <1>13 DEF Books
<1> QED BY <1>1, <1>2, <1>14 DEF Owed, up

LEMMA OwedReady ==
  ASSUME BaseInv, Owed, Ready
  PROVE  Owed'
<1> DEFINE up == conn \notin ended
           b == reps[conn]
           n == Len(b)
<1>0. inFlight \in Seq(ReqsOf(conn)) /\ stash \in SUBSET RepsOf(conn)
         /\ b \in Seq(RepsOf(conn)) /\ reqs[conn] \in Seq(ReqsOf(conn))
         /\ AtDaemon \in Seq(ReqsOf(conn)) /\ up \in BOOLEAN /\ conn \in Conns
  BY View
<1>1. /\ unit = "run" /\ stash' = stash \cup ToSet(b) /\ reps' = [reps EXCEPT ![conn] = <<>>]
      /\ UNCHANGED <<conn, nextSeq, inFlight, unit, reqs, ended, serving, cur>>
  BY DEF Ready, daemon
<1>2. AtDaemon' = AtDaemon /\ up' = up /\ reps'[conn] = <<>>
  BY <1>0, <1>1 DEF AtDaemon, BaseInv, TypeOK
<1>3. Books("run", nextSeq, inFlight, stash, b, AtDaemon, reqs[conn], up)
  BY <1>1 DEF Owed
<1> HIDE DEF up, b
<1>4. n \in 0 .. Len(b) /\ SubSeq(b, 1, n) = b /\ SubSeq(b, n + 1, Len(b)) = <<>>
  BY <1>0
<1>5. Once(inFlight, stash \cup ToSet(b), <<>>, AtDaemon, reqs[conn], up)
  <2>1. Once(inFlight, stash, b, AtDaemon, reqs[conn], up)
    BY <1>3 DEF Books
  <2>2. Once(inFlight, stash \cup ToSet(SubSeq(b, 1, n)), SubSeq(b, n + 1, Len(b)), AtDaemon,
             reqs[conn], up)
    <3> HIDE DEF n
    <3> QED BY <1>0, <1>4, <2>1, OnceSeen
  <2> QED BY <1>4, <2>2
<1>6. Books("run", nextSeq, inFlight, stash \cup ToSet(b), <<>>, AtDaemon, reqs[conn], up)
  BY <1>3, <1>5, EmptyFacts DEF Books
<1> QED BY <1>1, <1>2, <1>6 DEF Owed, up

LEMMA OwedWait ==
  ASSUME BaseInv, Owed, NEW t, Wait(t)
  PROVE  Owed'
<1> DEFINE up == conn \notin ended
           b == reps[conn]
           w == Without(inFlight, {t})
<1>0. inFlight \in Seq(ReqsOf(conn)) /\ stash \in SUBSET RepsOf(conn)
         /\ b \in Seq(RepsOf(conn)) /\ reqs[conn] \in Seq(ReqsOf(conn))
         /\ AtDaemon \in Seq(ReqsOf(conn)) /\ up \in BOOLEAN /\ conn \in Conns
  BY View
<1>1. PICK n \in Stops(t) : \E f \in AnswerOf(t, SeenBy(n)) :
        /\ reps' = [reps EXCEPT ![conn] = SubSeq(@, n + 1, Len(@))]
        /\ stash' = SeenBy(n) \ {f}
        /\ inFlight' = w
        /\ unit' = unit \/ unit' = "failed"
  BY DEF Wait, FailUnit
<1>2. PICK f \in AnswerOf(t, SeenBy(n)) :
        /\ reps' = [reps EXCEPT ![conn] = SubSeq(@, n + 1, Len(@))]
        /\ stash' = SeenBy(n) \ {f}
        /\ inFlight' = w
        /\ unit' = unit \/ unit' = "failed"
  BY <1>1
<1>3. /\ unit = "run" /\ t \in ToSet(inFlight) /\ n \in 0 .. Len(b)
      /\ UNCHANGED <<conn, nextSeq, reqs, ended, serving, cur>>
  BY DEF Wait, daemon, Stops
<1>4. AtDaemon' = AtDaemon /\ up' = up
  BY <1>3 DEF AtDaemon
<1> DEFINE a == SubSeq(b, 1, n)
           e == SubSeq(b, n + 1, Len(b))
<1>5. reps'[conn] = e
  BY <1>0, <1>2 DEF BaseInv, TypeOK
<1>6. SeenBy(n) = stash \cup ToSet(a)
  BY DEF SeenBy
<1>7. Books("run", nextSeq, inFlight, stash, b, AtDaemon, reqs[conn], up)
  BY <1>3 DEF Owed
<1>8. ToSet(b) = ToSet(a) \cup ToSet(e) /\ a \in Seq(RepsOf(conn)) /\ e \in Seq(RepsOf(conn))
  <2> HIDE DEF b
  <2> QED BY <1>0, <1>3, SplitSeq
<1>9. ToSet(a) \subseteq RepsOf(conn)
  <2> HIDE DEF a
  <2> QED BY <1>8, ToSetFinite
<1>10. f \in SeenBy(n) /\ f.seq = t.seq
  BY DEF AnswerOf, WithSeq
<1>11. Once(inFlight, stash, b, AtDaemon, reqs[conn], up)
  BY <1>7 DEF Books
<1>12. Once(inFlight, stash \cup ToSet(a), e, AtDaemon, reqs[conn], up)
  <2> HIDE DEF up, b
  <2> QED BY <1>0, <1>3, <1>11, OnceSeen
<1> HIDE DEF up, b, w, a, e
<1>13. Once(w, (stash \cup ToSet(a)) \ {f}, e, AtDaemon, reqs[conn], up)
  <2>1. stash \cup ToSet(a) \in SUBSET RepsOf(conn) /\ f \in stash \cup ToSet(a)
    BY <1>0, <1>6, <1>9, <1>10
  <2> DEFINE st == stash \cup ToSet(a)
             d == reqs[conn]
  <2>3. st \in SUBSET RepsOf(conn) /\ f \in st /\ f.seq = t.seq /\ t \in ToSet(inFlight)
    BY <1>3, <1>10, <2>1
  <2>4. Once(inFlight, st, e, AtDaemon, d, up) /\ d \in Seq(ReqsOf(conn))
    BY <1>0, <1>12
  <2> HIDE DEF st, d
  <2>2. Once(Without(inFlight, {t}), st \ {f}, e, AtDaemon, d, up)
    BY <1>0, <1>8, <2>3, <2>4, OnceAnswered
  <2> QED BY <2>2 DEF w, st, d
<1>14. ToSet(w) \subseteq ToSet(inFlight)
  BY <1>0, WithoutKeeps DEF w
<1>15. up => \A g \in ((stash \cup ToSet(a)) \ {f}) \cup ToSet(e) : g.ok
  BY <1>7, <1>8 DEF Books
<1>16. Distinct(w) /\ \A u \in ToSet(w) : u.seq < nextSeq
  BY <1>7, <1>13, <1>14 DEF Once, Books
<1>17. ~ up => AtDaemon = <<>> /\ reqs[conn] = <<>>
  BY <1>7 DEF Books
<1>18. \A u \in {"run", "failed"} :
         Books(u, nextSeq, w, (stash \cup ToSet(a)) \ {f}, e, AtDaemon, reqs[conn], up)
  BY <1>13, <1>15, <1>16, <1>17 DEF Books
<1>19. Books(unit', nextSeq, w, (stash \cup ToSet(a)) \ {f}, e, AtDaemon, reqs[conn], up)
  BY <1>2, <1>3, <1>18
<1> QED BY <1>2, <1>3, <1>4, <1>5, <1>6, <1>19 DEF Owed, up

LEMMA OwedWaitFails ==
  ASSUME BaseInv, Owed, NEW t, WaitFails(t)
  PROVE  Owed'
<1> DEFINE b == reps[conn]
           n == Len(b)
           w == Without(inFlight, {t})
           s == stash \cup ToSet(b)
<1>0. inFlight \in Seq(ReqsOf(conn)) /\ stash \in SUBSET RepsOf(conn)
         /\ b \in Seq(RepsOf(conn)) /\ reqs[conn] \in Seq(ReqsOf(conn))
         /\ AtDaemon \in Seq(ReqsOf(conn)) /\ conn \in Conns
  BY View
<1>1. /\ unit = "run" /\ t \in ToSet(inFlight) /\ Stops(t) = {} /\ conn \in ended
      /\ stash' = SeenBy(n) /\ reps' = [reps EXCEPT ![conn] = <<>>]
      /\ unit' = "failed" /\ inFlight' = w
      /\ UNCHANGED <<conn, nextSeq, reqs, ended, serving, cur>>
  BY DEF WaitFails, FailUnit, daemon
<1>2. reps'[conn] = <<>> /\ AtDaemon' = AtDaemon
  BY <1>0, <1>1 DEF BaseInv, TypeOK, AtDaemon
<1>3. Books("run", nextSeq, inFlight, stash, b, AtDaemon, reqs[conn], FALSE)
  BY <1>1 DEF Owed
<1>4. AtDaemon = <<>> /\ reqs[conn] = <<>>
  BY <1>3 DEF Books
<1>5. n \in 0 .. Len(b) /\ SubSeq(b, 1, n) = b /\ SubSeq(b, n + 1, Len(b)) = <<>>
  <2> HIDE DEF b
  <2> QED BY <1>0
<1>6. SeenBy(n) = s
  BY <1>5 DEF SeenBy
<1>7. Once(inFlight, s, <<>>, <<>>, <<>>, FALSE)
  <2>1. Once(inFlight, stash, b, <<>>, <<>>, FALSE)
    BY <1>3, <1>4 DEF Books
  <2> HIDE DEF b, n
  <2>2. <<>> \in Seq(ReqsOf(conn)) /\ FALSE \in BOOLEAN
    BY EmptyFacts
  <2>3. Once(inFlight, stash \cup ToSet(SubSeq(b, 1, n)), SubSeq(b, n + 1, Len(b)), <<>>, <<>>, FALSE)
    BY <1>0, <1>5, <2>1, <2>2, OnceSeen
  <2> QED BY <1>5, <2>3
<1>8. t.seq \notin NumsIn(s)
  <2>1. AnswerOf(t, SeenBy(n)) = {}
    BY <1>1, <1>5 DEF Stops
  <2> QED BY <1>6, <2>1 DEF AnswerOf, WithSeq, NumsIn
<1>9. s \in SUBSET RepsOf(conn)
  <2> HIDE DEF b
  <2> QED BY <1>0, ToSetFinite
<1> HIDE DEF b, n, s, w
<1>10. Once(w, s, <<>>, <<>>, <<>>, FALSE)
  BY <1>0, <1>1, <1>7, <1>8, <1>9, OnceGone DEF w
<1>11. ToSet(w) \subseteq ToSet(inFlight)
  BY <1>0, WithoutKeeps DEF w
<1>12. Distinct(w) /\ \A u \in ToSet(w) : u.seq < nextSeq
  BY <1>3, <1>10, <1>11 DEF Once, Books
<1>13. Books("failed", nextSeq, w, s, <<>>, <<>>, <<>>, FALSE)
  BY <1>10, <1>12 DEF Books
<1> QED BY <1>1, <1>2, <1>4, <1>6, <1>13 DEF Owed

LEMMA OwedDrain ==
  ASSUME BaseInv, Owed, DrainStash \/ DrainOne \/ DrainBroken \/ DrainDone
  PROVE  Owed'
<1> DEFINE up == conn \notin ended
           b == reps[conn]
           d == reqs[conn]
<1>0. inFlight \in Seq(ReqsOf(conn)) /\ stash \in SUBSET RepsOf(conn)
         /\ b \in Seq(RepsOf(conn)) /\ d \in Seq(ReqsOf(conn))
         /\ AtDaemon \in Seq(ReqsOf(conn)) /\ up \in BOOLEAN /\ conn \in Conns
  BY View
<1>1. UNCHANGED <<conn, nextSeq, reqs, ended, serving, cur>>
  BY DEF DrainStash, DrainOne, DrainBroken, DrainDone, client, link, daemon
<1>2. AtDaemon' = AtDaemon /\ up' = up /\ d' = d
  BY <1>1 DEF AtDaemon
<1>3. Books(unit, nextSeq, inFlight, stash, b, AtDaemon, d, up)
  BY DEF Owed
<1>4. CASE DrainStash
  <2>1. unit = "failed" /\ unit' = "drain" /\ stash' = {} /\ b' = b
          /\ inFlight' = Unanswered(inFlight, stash)
    BY <1>4 DEF DrainStash, link
  <2> HIDE DEF up, b, d
  <2>2. Books("drain", nextSeq, Unanswered(inFlight, stash), {}, b, AtDaemon, d, up)
    BY <1>0, <1>3, <2>1, BooksDrain
  <2> QED BY <1>1, <1>2, <2>1, <2>2 DEF Owed, up, b, d
<1>5. CASE DrainOne
  <2>1. /\ unit = "drain" /\ unit' = "drain" /\ stash' = stash /\ inFlight # <<>> /\ b # <<>>
        /\ inFlight' = Tail(inFlight)
        /\ reps' = [reps EXCEPT ![conn] = Tail(@)]
    BY <1>5 DEF DrainOne, LeftToDrain
  <2>2. b' = Tail(b)
    BY <1>0, <1>1, <2>1 DEF BaseInv, TypeOK
  <2> HIDE DEF up, b, d
  <2>3. Len(Tail(b)) = Len(b) - 1 /\ Len(b) \in Nat /\ Len(Tail(inFlight)) = Len(inFlight) - 1
          /\ Len(inFlight) \in Nat /\ Len(d) \in Nat /\ Len(AtDaemon) \in Nat
    BY <1>0, <2>1
  <2>4. ToSet(Tail(b)) \subseteq ToSet(b) /\ ToSet(Tail(inFlight)) \subseteq ToSet(inFlight)
    BY <1>0, <2>1, TailFacts
  <2>5. Distinct(Tail(inFlight))
    BY <1>0, <1>3, <2>1, DistinctTail DEF Books
  <2>6. /\ stash = {} /\ Len(Tail(b)) + Len(AtDaemon) + Len(d) <= Len(Tail(inFlight))
        /\ up => Len(Tail(b)) + Len(AtDaemon) + Len(d) = Len(Tail(inFlight))
    <3>1. stash = {} /\ Len(b) + Len(AtDaemon) + Len(d) <= Len(inFlight)
           /\ (up => Len(b) + Len(AtDaemon) + Len(d) = Len(inFlight))
      BY <1>3, <2>1 DEF Books
    <3>2. Len(Tail(b)) + Len(AtDaemon) + Len(d) <= Len(Tail(inFlight))
      BY <2>3, <3>1
    <3>3. ASSUME up PROVE Len(Tail(b)) + Len(AtDaemon) + Len(d) = Len(Tail(inFlight))
      BY <2>3, <3>1, <3>3
    <3> QED BY <3>1, <3>2, <3>3
  <2>7. Books("drain", nextSeq, Tail(inFlight), stash, Tail(b), AtDaemon, d, up)
    BY <1>3, <2>4, <2>5, <2>6 DEF Books
  <2> QED BY <1>1, <1>2, <2>1, <2>2, <2>7 DEF Owed, up, b, d
<1>6. CASE DrainBroken
  <2>1. /\ unit = "drain" /\ unit' = "redial" /\ stash' = stash /\ inFlight # <<>> /\ b = <<>>
        /\ ~ up /\ inFlight' = Tail(inFlight) /\ b' = b
    BY <1>6 DEF DrainBroken, link
  <2> HIDE DEF up, b, d
  <2>2. stash = {} /\ AtDaemon = <<>> /\ d = <<>>
    BY <1>3, <2>1 DEF Books
  <2>4. ToSet(Tail(inFlight)) \subseteq ToSet(inFlight)
    BY <1>0, <2>1, TailFacts
  <2>5. Distinct(Tail(inFlight))
    BY <1>0, <1>3, <2>1, DistinctTail DEF Books
  <2>7. Books("redial", nextSeq, Tail(inFlight), stash, b, AtDaemon, d, up)
    BY <1>3, <2>1, <2>2, <2>4, <2>5 DEF Books
  <2> QED BY <1>1, <1>2, <2>1, <2>7 DEF Owed, up, b, d
<1>7. CASE DrainDone
  <2>1. /\ unit = "drain" /\ unit' = "redial" /\ stash' = stash /\ inFlight = <<>>
        /\ inFlight' = inFlight /\ b' = b
    BY <1>7 DEF DrainDone, client, link
  <2> HIDE DEF up, b, d
  <2>2. stash = {} /\ Len(b) + Len(AtDaemon) + Len(d) <= 0
    BY <1>3, <2>1 DEF Books
  <2>3. b = <<>> /\ AtDaemon = <<>> /\ d = <<>>
    BY <1>0, <2>2
  <2>7. Books("redial", nextSeq, inFlight, stash, b, AtDaemon, d, up)
    BY <1>3, <2>1, <2>2, <2>3 DEF Books
  <2> QED BY <1>1, <1>2, <2>1, <2>7 DEF Owed, up, b, d
<1> QED BY <1>4, <1>5, <1>6, <1>7

LEMMA OwedRedial ==
  ASSUME BaseInv, Owed, StillUp \/ Dial \/ DialRefused \/ HelloFails \/ Hello
  PROVE  Owed'
<1> DEFINE up == conn \notin ended
<1>1. CASE ~ Hello
  <2>1. /\ unit \in {"redial", "hello"} /\ unit' \in {"idle", "hello"}
        /\ UNCHANGED <<conn, nextSeq, inFlight, stash, reqs, reps, serving, cur>>
        /\ ended' \in {ended, ended \ {conn + 1}}
    BY <1>1 DEF StillUp, Dial, DialRefused, HelloFails, GiveUp, client, link, daemon
  <2>2. AtDaemon' = AtDaemon /\ up' = up
    BY <2>1 DEF AtDaemon, BaseInv, TypeOK, Conns
  <2> HIDE DEF up
  <2>3. Books(unit, nextSeq, inFlight, stash, reps[conn], AtDaemon, reqs[conn], up)
    BY DEF Owed, up
  <2>4. Books(unit', nextSeq, inFlight, stash, reps[conn], AtDaemon, reqs[conn], up)
    BY <2>1, <2>3 DEF Books
  <2> QED BY <2>1, <2>2, <2>4 DEF Owed, up
<1>2. CASE Hello
  <2>1. /\ unit = "hello" /\ (serving = conn + 1 \/ conn + 1 \in ended)
        /\ conn' = conn + 1 /\ nextSeq' = 1 /\ inFlight' = <<>> /\ stash' = {}
        /\ unit' = "idle" /\ UNCHANGED <<reqs, reps, ended, serving, cur>>
    BY <1>2 DEF Hello, link, daemon
  <2>2. conn + 1 \in Conns /\ conn + 1 > conn
    BY <2>1, AnotherConn DEF BaseInv, Dialled, TypeOK, Conns
  <2>3. reqs[conn + 1] = <<>> /\ reps[conn + 1] = <<>> /\ (serving = conn + 1 => cur = <<>>)
    BY <2>2 DEF BaseInv, NotYet
  <2>4. AtDaemon' = <<>> /\ reps'[conn'] = <<>> /\ reqs'[conn'] = <<>>
    BY <2>1, <2>3 DEF AtDaemon
  <2>5. \A v \in BOOLEAN : Books("idle", 1, <<>>, {}, <<>>, <<>>, <<>>, v)
    BY EmptyFacts DEF Books, Distinct
  <2> QED BY <2>1, <2>4, <2>5 DEF Owed
<1> QED BY <1>1, <1>2

LEMMA OwedDaemon ==
  ASSUME BaseInv, Owed, Accept \/ Take(1) \/ Take(2) \/ ServeInside \/ Finish \/ Restart
  PROVE  Owed'
<1> DEFINE up == conn \notin ended
<1>0. inFlight \in Seq(ReqsOf(conn)) /\ stash \in SUBSET RepsOf(conn)
         /\ reps[conn] \in Seq(RepsOf(conn)) /\ reqs[conn] \in Seq(ReqsOf(conn))
         /\ AtDaemon \in Seq(ReqsOf(conn)) /\ up \in BOOLEAN /\ conn \in Conns /\ unit \in Units
  BY View
<1>1. UNCHANGED <<conn, nextSeq, inFlight, stash, unit, ended>>
  BY DEF Accept, Take, ServeInside, Finish, Restart, client, link
<1>2. Books(unit, nextSeq, inFlight, stash, reps[conn], AtDaemon, reqs[conn], up)
  BY DEF Owed
<1>3. CASE reps'[conn] = reps[conn] /\ AtDaemon' = AtDaemon /\ reqs'[conn] = reqs[conn]
  BY <1>1, <1>2, <1>3 DEF Owed
<1>4. CASE Accept
  <2>1. AtDaemon = <<>> /\ AtDaemon' = <<>> /\ UNCHANGED <<reqs, reps>>
    BY <1>4 DEF Accept, AtDaemon, BaseInv, TypeOK, link
  <2> QED BY <1>3, <1>1, <2>1
<1>5. ASSUME NEW n \in {1, 2}, Take(n) PROVE Owed'
  <2>1. /\ serving # Nobody /\ cur = <<>> /\ Len(reqs[serving]) >= n
        /\ cur' = SubSeq(reqs[serving], 1, n)
        /\ reqs' = [reqs EXCEPT ![serving] = SubSeq(@, n + 1, Len(@))]
        /\ UNCHANGED <<reps, serving>>
    BY <1>5 DEF Take
  <2>2. CASE serving # conn
    BY <1>0, <1>1, <1>3, <2>1, <2>2 DEF AtDaemon, BaseInv, TypeOK
  <2>3. CASE serving = conn
    <3> DEFINE d == reqs[conn]
    <3>1. AtDaemon = <<>> /\ AtDaemon' = SubSeq(d, 1, n)
            /\ reqs'[conn] = SubSeq(d, n + 1, Len(d)) /\ reps'[conn] = reps[conn]
      BY <1>0, <1>1, <2>1, <2>3 DEF AtDaemon, BaseInv, TypeOK
    <3>2. n \in 0 .. Len(d) /\ d # <<>> /\ d \in Seq(ReqsOf(conn))
      BY <1>0, <2>1, <2>3
    <3> HIDE DEF d, up
    <3>3. Books(unit, nextSeq, inFlight, stash, reps[conn], <<>>, d, up)
      BY <1>2, <3>1 DEF d
    <3>4. Books(unit, nextSeq, inFlight, stash, reps[conn], SubSeq(d, 1, n),
                SubSeq(d, n + 1, Len(d)), up)
      BY <1>0, <3>2, <3>3, BooksTake
    <3> QED BY <1>1, <3>1, <3>4 DEF Owed, up
  <2> QED BY <2>2, <2>3
<1>6. CASE ServeInside
  <2>1. /\ serving # Nobody /\ reqs[serving] # <<>>
        /\ reps' = [reps EXCEPT ![serving] = Append(@, Reply(Head(reqs[serving])))]
        /\ reqs' = [reqs EXCEPT ![serving] = Tail(@)]
        /\ UNCHANGED <<serving, cur>>
    BY <1>6 DEF ServeInside, daemon
  <2>2. CASE serving # conn
    BY <1>0, <1>1, <1>3, <2>1, <2>2 DEF AtDaemon, BaseInv, TypeOK
  <2>3. CASE serving = conn
    <3> DEFINE d == reqs[conn]
               b == reps[conn]
    <3>1. AtDaemon' = AtDaemon /\ reqs'[conn] = Tail(d) /\ reps'[conn] = Append(b, Reply(Head(d)))
      BY <1>0, <1>1, <2>1, <2>3 DEF AtDaemon, BaseInv, TypeOK
    <3>2. d # <<>> /\ d \in Seq(ReqsOf(conn)) /\ b \in Seq(RepsOf(conn))
      BY <1>0, <2>1, <2>3
    <3>3. Books(unit, nextSeq, inFlight, stash, b, AtDaemon, d, up)
      BY <1>2
    <3> HIDE DEF d, b, up
    <3>4. Books(unit, nextSeq, inFlight, stash, Append(b, Reply(Head(d))), AtDaemon, Tail(d), up)
      BY <1>0, <3>2, <3>3, BooksServed
    <3> QED BY <1>1, <3>1, <3>4 DEF Owed, up
  <2> QED BY <2>2, <2>3
<1>7. CASE Finish
  <2>1. /\ serving # Nobody /\ cur # <<>>
        /\ reps' = [reps EXCEPT ![serving] = @ \o Answers(cur)] /\ cur' = <<>>
        /\ UNCHANGED <<serving, reqs>>
    BY <1>7 DEF Finish
  <2>2. CASE serving # conn
    BY <1>0, <1>1, <1>3, <2>1, <2>2 DEF AtDaemon, BaseInv, TypeOK
  <2>3. CASE serving = conn
    <3> DEFINE d == reqs[conn]
               b == reps[conn]
    <3>1. AtDaemon = cur /\ AtDaemon' = <<>> /\ reqs'[conn] = d
           /\ reps'[conn] = b \o Answers(AtDaemon)
      BY <1>0, <1>1, <2>1, <2>3 DEF AtDaemon, BaseInv, TypeOK
    <3>2. AtDaemon # <<>> /\ d \in Seq(ReqsOf(conn)) /\ b \in Seq(RepsOf(conn))
      BY <1>0, <2>1, <3>1
    <3>3. Books(unit, nextSeq, inFlight, stash, b, AtDaemon, d, up)
      BY <1>2
    <3> HIDE DEF d, b, up
    <3>4. Books(unit, nextSeq, inFlight, stash, b \o Answers(AtDaemon), <<>>, d, up)
      BY <1>0, <3>2, <3>3, BooksFinished
    <3> QED BY <1>1, <3>1, <3>4 DEF Owed, up
  <2> QED BY <2>2, <2>3
<1>8. CASE Restart
  BY <1>1, <1>3, <1>8 DEF Restart, AtDaemon, link
<1> QED BY <1>4, <1>5, <1>6, <1>7, <1>8

\* The error frames of a connection that ends are for requests the daemon held.
LEMMA OwedClose ==
  ASSUME BaseInv, Owed, FailRequest \/ FailInterleaved \/ Reset
  PROVE  Owed'
<1> DEFINE up == conn \notin ended
           d == reqs[serving]
<1>0. inFlight \in Seq(ReqsOf(conn)) /\ stash \in SUBSET RepsOf(conn)
         /\ reps[conn] \in Seq(RepsOf(conn)) /\ reqs[conn] \in Seq(ReqsOf(conn))
         /\ AtDaemon \in Seq(ReqsOf(conn)) /\ up \in BOOLEAN /\ conn \in Conns /\ unit \in Units
  BY View
<1>1. UNCHANGED <<conn, nextSeq, inFlight, stash, unit>> /\ serving # Nobody
  BY DEF FailRequest, FailInterleaved, Reset, client
<1>2. TypeOK /\ serving \in Conns /\ cur \in Seq(ReqsOf(serving)) /\ d \in Seq(ReqsOf(serving))
  BY <1>1 DEF BaseInv, TypeOK
<1>3. Books(unit, nextSeq, inFlight, stash, reps[conn], AtDaemon, reqs[conn], up)
  BY DEF Owed
<1>4. PICK last \in Seq(RepsOf(serving)) :
        /\ Close(last)
        /\ Len(last) <= Len(cur) + Len(d) /\ Nums(last) \subseteq Nums(cur) \cup Nums(d)
        /\ (Nums(cur) \cap Nums(d) = {} => Distinct(last))
  <2>1. \A q \in Seq(ReqsOf(serving)) : q # <<>> =>
          /\ Head(q) \in ReqsOf(serving) /\ Head(q).seq \in Nums(q) /\ Len(q) \in Nat /\ Len(q) >= 1
          /\ ErrorFrame(Head(q)).seq = Head(q).seq /\ ErrorFrame(Head(q)) \in RepsOf(serving)
    <3> SUFFICES ASSUME NEW q \in Seq(ReqsOf(serving)), q # <<>>
                 PROVE  /\ Head(q) \in ReqsOf(serving) /\ Head(q).seq \in Nums(q)
                        /\ Len(q) \in Nat /\ Len(q) >= 1
                        /\ ErrorFrame(Head(q)).seq = Head(q).seq
                        /\ ErrorFrame(Head(q)) \in RepsOf(serving)
      OBVIOUS
    <3>1. 1 \in DOMAIN q /\ Head(q) = q[1] /\ Len(q) \in Nat /\ Len(q) >= 1
      OBVIOUS
    <3>2. Head(q) \in ReqsOf(serving)
      BY TailFacts
    <3>3. ErrorFrame(Head(q)).seq = Head(q).seq /\ ErrorFrame(Head(q)) \in RepsOf(serving)
      BY <3>2, ReqFields
    <3> QED BY <3>1, <3>2, <3>3 DEF Nums
  <2>2. CASE Reset
    <3>1. Close(<<>>) /\ <<>> \in Seq(RepsOf(serving)) /\ Len(<<>>) <= Len(cur) + Len(d)
            /\ Nums(<<>>) = {} /\ Distinct(<<>>)
      BY <1>2, <2>2 DEF Reset, Nums, Distinct
    <3> QED BY <3>1
  <2>3. CASE FailRequest
    <3> DEFINE l == <<ErrorFrame(Head(cur))>>
    <3>1. Close(l) /\ cur # <<>>
      BY <2>3 DEF FailRequest
    <3>2. l \in Seq(RepsOf(serving)) /\ Len(l) = 1 /\ DOMAIN l = {1} /\ l[1].seq \in Nums(cur)
      BY <1>2, <2>1, <3>1
    <3>3. Len(cur) >= 1 /\ Len(cur) \in Nat /\ Len(d) \in Nat
      BY <1>2, <2>1, <3>1
    <3> HIDE DEF l, d
    <3>4. Nums(l) \subseteq Nums(cur) /\ Distinct(l) /\ Len(l) <= Len(cur) + Len(d)
      BY <3>2, <3>3 DEF Nums, Distinct
    <3> QED BY <3>1, <3>2, <3>4
  <2>4. CASE FailInterleaved
    <3> DEFINE l == <<ErrorFrame(Head(d)), ErrorFrame(Head(cur))>>
    <3>1. Close(l) /\ cur # <<>> /\ d # <<>>
      BY <2>4 DEF FailInterleaved
    <3>2. l \in Seq(RepsOf(serving)) /\ Len(l) = 2 /\ DOMAIN l = {1, 2}
            /\ l[1].seq \in Nums(d) /\ l[2].seq \in Nums(cur)
      BY <1>2, <2>1, <3>1
    <3>3. Len(cur) >= 1 /\ Len(cur) \in Nat /\ Len(d) \in Nat /\ Len(d) >= 1
      BY <1>2, <2>1, <3>1
    <3> HIDE DEF l, d
    <3>4. Nums(l) \subseteq Nums(cur) \cup Nums(d) /\ Len(l) <= Len(cur) + Len(d)
      BY <3>2, <3>3 DEF Nums
    <3>5. Nums(cur) \cap Nums(d) = {} => Distinct(l)
      BY <3>2 DEF Distinct
    <3> QED BY <3>1, <3>2, <3>4, <3>5
  <2> QED BY <2>2, <2>3, <2>4
<1>5. /\ ended' = ended \cup {serving} /\ serving' = Nobody /\ cur' = <<>> /\ reqs'[serving] = <<>>
      /\ \A c \in Conns : c # serving => reps'[c] = reps[c] /\ reqs'[c] = reqs[c]
  BY <1>1, <1>2, <1>4, CloseType
<1>6. AtDaemon' = <<>>
  BY <1>5 DEF AtDaemon
<1>7. CASE serving # conn
  <2>1. AtDaemon = <<>> /\ reps'[conn] = reps[conn] /\ reqs'[conn] = reqs[conn] /\ up' = up
    BY <1>0, <1>1, <1>5, <1>7 DEF AtDaemon
  <2> QED BY <1>1, <1>3, <1>6, <2>1 DEF Owed
<1>8. CASE serving = conn
  <2> DEFINE b == reps[conn]
             o == reqs[conn]
  <2>1. PICK n \in 0 .. Len(b \o last) : reps'[conn] = SubSeq(b \o last, 1, n)
    BY <1>1, <1>2, <1>4, <1>8, CloseType
  <2>2. AtDaemon = cur /\ d = o
    BY <1>8 DEF AtDaemon
  <2>3. unit \in {"run", "failed"} => Nums(AtDaemon) \cap Nums(o) = {}
    BY <1>3 DEF Books, Once
  <2>4. (conn \in ended)' /\ reqs'[conn] = <<>>
    BY <1>1, <1>5, <1>8
  <2>5. /\ last \in Seq(RepsOf(conn)) /\ Len(last) <= Len(AtDaemon) + Len(o)
        /\ Nums(last) \subseteq Nums(AtDaemon) \cup Nums(o)
        /\ (unit \in {"run", "failed"} => Distinct(last))
    BY <1>4, <1>8, <2>2, <2>3
  <2>6. Books(unit, nextSeq, inFlight, stash, b, AtDaemon, o, up) /\ b \in Seq(RepsOf(conn))
          /\ o \in Seq(ReqsOf(conn))
    BY <1>0, <1>3
  <2> HIDE DEF b, o, d, up
  <2>7. Books(unit, nextSeq, inFlight, stash, SubSeq(b \o last, 1, n), <<>>, <<>>, FALSE)
    BY <1>0, <2>5, <2>6, BooksClosed
  <2> QED BY <1>1, <1>6, <2>1, <2>4, <2>7 DEF Owed
<1> QED BY <1>7, <1>8

LEMMA OwedNext ==
  ASSUME BaseInv, Owed, Next
  PROVE  Owed'
BY OwedUnit, OwedSubmit, OwedReady, OwedWait, OwedWaitFails, OwedDrain, OwedRedial, OwedDaemon,
   OwedClose DEF Next

(***************************************************************************)
(* Answers and blame                                                       *)
(***************************************************************************)
LEMMA AnswersNext ==
  ASSUME BaseInv, AnswersAreOwn, Next
  PROVE  AnswersAreOwn'
<1>1. ASSUME NEW t, Wait(t) PROVE AnswersAreOwn'
  <2>1. PICK n \in Stops(t) : \E f \in AnswerOf(t, SeenBy(n)) :
          accepted' = accepted \cup {<<t.of, f.of>>} \/ accepted' = accepted
    BY <1>1 DEF Wait
  <2>2. PICK f \in AnswerOf(t, SeenBy(n)) :
          accepted' = accepted \cup {<<t.of, f.of>>} \/ accepted' = accepted
    BY <2>1
  <2>3. f \in RepsOf(conn) /\ f.seq = t.seq
    <3>1. n \in 0 .. Len(reps[conn])
      BY DEF Stops
    <3> QED BY <3>1, SeenFacts DEF BaseInv, AnswerOf, WithSeq
  <2>4. t \in ReqsOf(conn)
    <3>1. t \in ToSet(inFlight) /\ inFlight \in Seq(ReqsOf(conn))
      BY <1>1 DEF Wait, BaseInv, TypeOK
    <3> QED BY <3>1, ToSetFinite
  <2>5. t.of = f.of
    BY <2>3, <2>4, ReqFields, RepFields
  <2> QED BY <2>2, <2>5 DEF AnswersAreOwn
<1>2. CASE accepted' \in {accepted, {}}
  BY <1>2 DEF AnswersAreOwn
<1>3. ~ (\E t : Wait(t)) => accepted' \in {accepted, {}}
  BY DEF Next, StartUnit, EndUnit, Submit, SubmitFails, Ready, WaitFails, LocalFailure,
         DrainStash, DrainOne, DrainBroken, DrainDone, StillUp, Dial, DialRefused, HelloFails, Hello,
         GiveUp, Accept, Take, ServeInside, Finish, FailRequest, FailInterleaved, Reset, Restart, ghost
<1> QED BY <1>1, <1>2, <1>3

\* A step that fails no unit: blame stays, and so does what it rests on.
LEMMA BlameStays ==
  ASSUME BaseInv, Owed, Owed', Blamed, blame' = blame, conn' = conn, conn' \in ended' <=> conn \in ended,
         dead' = dead, refused' \in {refused, refused + 1},
         dead /\ unit' \in {"idle", "run"} => unit \in {"idle", "run"} \/ refused' = refused + 1,
         unit' = "run" /\ blame[conn] # 0 =>
           \/ unit = "idle" /\ UNCHANGED <<stash, reps>>
           \/ unit = "run" /\ UNCHANGED <<stash, reps>>
  PROVE  Blamed'
<1>0. refused \in Nat /\ refused' \in Nat /\ refused <= refused' /\ conn \in Conns
        /\ \A c \in Conns : blame[c] \in Nat
  BY DEF BaseInv, TypeOK
<1>1. \A c \in Conns : blame'[c] <= 2 + refused'
  BY <1>0 DEF Blamed
<1>2. (conn \notin ended => blame[conn] = 0)' /\ (~ dead => blame[conn] <= 1)'
  BY DEF Blamed
<1>3. ASSUME dead', unit' \in {"idle", "run"} PROVE blame'[conn'] <= 1 + refused'
  <2>1. CASE unit \in {"idle", "run"}
    BY <1>0, <1>3, <2>1 DEF Blamed
  <2>2. CASE refused' = refused + 1
    BY <1>0, <2>2 DEF Blamed
  <2> QED BY <1>3, <2>1, <2>2
<1>4. ASSUME blame'[conn'] # 0, unit' \in {"idle", "run"} PROVE stash' = {} /\ reps'[conn'] = <<>>
  <2>1. CASE unit' = "idle"
    BY <2>1 DEF Owed, Books
  <2>2. CASE unit' = "run"
    BY <1>4, <2>2 DEF Blamed
  <2> QED BY <1>4, <2>1, <2>2
<1> QED BY <1>1, <1>2, <1>3, <1>4 DEF Blamed

\* A failing unit: it is the first to fail on its link, or it finds the link gone.
LEMMA BlameFails ==
  ASSUME BaseInv, Blamed, conn' = conn, ended' = ended, refused' = refused, unit = "run",
         NEW tickets \in Seq(ReqsOf(conn)), NEW isDead \in BOOLEAN, FailUnit(tickets, isDead),
         isDead \/ (~ dead /\ blame[conn] = 0)
  PROVE  Blamed'
<1>1. /\ dead' = isDead /\ unit' = "failed"
      /\ \A c \in Conns : c # conn => blame'[c] = blame[c]
      /\ blame'[conn] = IF conn \in ended THEN blame[conn] + 1 ELSE blame[conn]
  BY FailUnitFacts
<1>2. refused \in Nat /\ conn \in Conns /\ \A c \in Conns : blame[c] \in Nat
  BY DEF BaseInv, TypeOK
<1>3. blame[conn] <= 1 + refused
  BY <1>2 DEF Blamed, BaseInv, TypeOK
<1>4. \A c \in Conns : blame'[c] <= 2 + refused
  BY <1>1, <1>2, <1>3 DEF Blamed
<1>5. conn \notin ended => blame'[conn] = 0
  BY <1>1 DEF Blamed
<1>6. ~ dead' => blame'[conn] <= 1
  BY <1>1
<1> QED BY <1>1, <1>4, <1>5, <1>6 DEF Blamed

LEMMA BlamedNext ==
  ASSUME BaseInv, Owed, Owed', Blamed, Next
  PROVE  Blamed'
<1>0. /\ conn \in Conns /\ inFlight \in Seq(ReqsOf(conn)) /\ dead \in BOOLEAN
      /\ conn # conn + 1 /\ unit \in Units /\ ended \subseteq Conns
  BY DEF BaseInv, TypeOK, Conns
<1>1. CASE StartUnit \/ EndUnit \/ Submit \/ LocalFailure \/ DrainStash \/ DrainOne \/ DrainBroken
            \/ DrainDone \/ StillUp \/ Dial \/ DialRefused \/ HelloFails
  <2>1. /\ blame' = blame /\ conn' = conn /\ (conn \in ended' <=> conn \in ended) /\ dead' = dead
        /\ refused' \in {refused, refused + 1}
    BY <1>0, <1>1 DEF StartUnit, EndUnit, Submit, LocalFailure, DrainStash, DrainOne, DrainBroken,
        DrainDone, StillUp, Dial, DialRefused, HelloFails, GiveUp, client, link, daemon, ghost
  <2>2. dead /\ unit' \in {"idle", "run"} => unit \in {"idle", "run"} \/ refused' = refused + 1
    BY <1>1 DEF StartUnit, EndUnit, Submit, LocalFailure, DrainStash, DrainOne, DrainBroken,
        DrainDone, StillUp, Dial, DialRefused, HelloFails, GiveUp, client, link, daemon, ghost
  <2>3. unit' = "run" => unit \in {"idle", "run"} /\ UNCHANGED <<stash, reps>>
    BY <1>1 DEF StartUnit, EndUnit, Submit, LocalFailure, DrainStash, DrainOne, DrainBroken,
        DrainDone, StillUp, Dial, DialRefused, HelloFails, GiveUp, client, link, daemon, ghost
  <2> QED BY <2>1, <2>2, <2>3, BlameStays
<1>2. CASE SubmitFails
  <2>1. FailUnit(inFlight, TRUE) /\ unit = "run" /\ conn' = conn /\ ended' = ended /\ refused' = refused
    BY <1>2 DEF SubmitFails, link
  <2> QED BY <1>0, <2>1, BlameFails
<1>3. CASE Ready
  <2>1. reps[conn] # <<>> /\ UNCHANGED <<conn, ended, dead, blame, refused, unit>> /\ unit = "run"
    BY <1>3 DEF Ready, ghost
  <2>2. blame[conn] = 0
    BY <2>1 DEF Blamed
  <2> QED BY <2>1, <2>2, BlameStays
<1>4. ASSUME NEW t, Wait(t) PROVE Blamed'
  <2>1. PICK n \in Stops(t) : \E f \in AnswerOf(t, SeenBy(n)) :
          \/ UNCHANGED <<unit, dead, blame>>
          \/ FailUnit(Without(inFlight, {t}), dead)
    BY <1>4 DEF Wait
  <2>2. unit = "run" /\ UNCHANGED <<conn, ended, refused>>
    BY <1>4 DEF Wait
  <2>3. blame[conn] = 0
    <3> SUFFICES ASSUME stash = {}, reps[conn] = <<>> PROVE FALSE
      BY <2>2 DEF Blamed
    <3>1. n \in 0 .. Len(reps[conn])
      BY DEF Stops
    <3>2. Len(reps[conn]) = 0
      OBVIOUS
    <3>3. SubSeq(reps[conn], 1, n) = <<>>
      BY <3>1, <3>2
    <3>4. SeenBy(n) = {}
      BY <3>3, EmptyFacts DEF SeenBy
    <3> QED BY <2>1, <3>4 DEF AnswerOf, WithSeq
  <2>4. CASE UNCHANGED <<unit, dead, blame>>
    BY <2>2, <2>3, <2>4, BlameStays
  <2>5. CASE FailUnit(Without(inFlight, {t}), dead)
    <3>1. Without(inFlight, {t}) \in Seq(ReqsOf(conn))
      BY <1>0, WithoutKeeps
    <3> QED BY <1>0, <2>2, <2>3, <2>5, <3>1, BlameFails
  <2> QED BY <2>1, <2>4, <2>5
<1>5. ASSUME NEW t, WaitFails(t) PROVE Blamed'
  <2>1. FailUnit(Without(inFlight, {t}), TRUE) /\ unit = "run" /\ UNCHANGED <<conn, ended, refused>>
    BY <1>5 DEF WaitFails
  <2>2. Without(inFlight, {t}) \in Seq(ReqsOf(conn))
    BY <1>0, WithoutKeeps
  <2> QED BY <2>1, <2>2, BlameFails
<1>6. CASE Hello
  <2>1. /\ unit = "hello" /\ (serving = conn + 1 \/ conn + 1 \in ended)
        /\ conn' = conn + 1 /\ unit' = "idle" /\ dead' = FALSE
        /\ UNCHANGED <<ended, blame, refused>>
    BY <1>6 DEF Hello, link, ghost
  <2>2. conn + 1 \in Conns /\ conn + 1 > conn
    BY <2>1, AnotherConn DEF BaseInv, Dialled, TypeOK, Conns
  <2>3. blame'[conn'] = 0
    BY <2>1, <2>2 DEF BaseInv, NotYet
  <2> QED BY <2>1, <2>3 DEF Blamed
<1>7. CASE Accept \/ Take(1) \/ Take(2) \/ ServeInside \/ Finish \/ FailRequest \/ FailInterleaved
            \/ Reset \/ Restart
  <2>1. UNCHANGED <<conn, dead, unit, stash, blame, refused>> /\ ended' \in {ended, ended \cup {serving}}
    BY <1>7 DEF Accept, Take, ServeInside, Finish, FailRequest, FailInterleaved, Reset, Close, Restart,
        client, link, ghost
  <2>2. CASE conn \notin ended
    <3>1. blame[conn] = 0
      BY <2>2 DEF Blamed
    <3>2. /\ \A c \in Conns : blame[c] <= 2 + refused
          /\ dead /\ unit \in {"idle", "run"} => blame[conn] <= 1 + refused
          /\ ~ dead => blame[conn] <= 1
      BY DEF Blamed
    <3> QED BY <2>1, <3>1, <3>2 DEF Blamed
  <2>3. CASE conn \in ended
    <3>1. serving # conn /\ conn \in ended'
      BY <2>1, <2>3 DEF BaseInv, NotYet
    <3>2. reps'[conn] = reps[conn]
      BY <1>0, <1>7, <3>1 DEF Accept, Take, ServeInside, Finish, FailRequest, FailInterleaved, Reset,
          Close, Restart, link, BaseInv, TypeOK
    <3>3. (conn \in ended)' /\ UNCHANGED <<blame[conn], reps[conn], dead, unit, refused, stash>>
            /\ \A c \in Conns : blame'[c] = blame[c]
      BY <2>1, <3>1, <3>2
    <3> QED BY <2>1, <2>3, <3>3 DEF Blamed
  <2> QED BY <2>2, <2>3
<1> QED BY <1>1, <1>2, <1>3, <1>4, <1>5, <1>6, <1>7 DEF Next

(***************************************************************************)
(* The theorems                                                            *)
(***************************************************************************)
LEMMA TicketInit == Init => TicketInv
<1> SUFFICES ASSUME Init PROVE TicketInv
  OBVIOUS
<1>1. /\ 1 \in Conns /\ 1 \in Numbers /\ MaxFaults \in Nat /\ 0 \in Nat
      /\ \A S : <<>> \in Seq(S) /\ ToSet(<<>>) = {}
  BY TicketsAssumption, EmptyFacts DEF Conns, Numbers
<1>2. TypeOK
  BY <1>1 DEF Init, TypeOK, Units, Nobody
<1>3. Dialled
  BY <1>1, FS_EmptySet DEF Init, Dialled
<1>4. NotYet
  BY <1>1 DEF Init, NotYet, Conns
<1>5. Owed
  <2>1. AtDaemon = <<>> /\ reps[conn] = <<>> /\ reqs[conn] = <<>> /\ Distinct(<<>>)
    BY <1>1 DEF Init, AtDaemon, Distinct
  <2> QED BY <1>1, <2>1 DEF Init, Owed, Books
<1>6. Blamed /\ AnswersAreOwn
  BY <1>1 DEF Init, Blamed, AnswersAreOwn
<1> QED BY <1>2, <1>3, <1>4, <1>5, <1>6 DEF TicketInv

LEMMA TicketStep == TicketInv /\ [Next]_vars => TicketInv'
<1> SUFFICES ASSUME TicketInv, [Next]_vars PROVE TicketInv'
  OBVIOUS
<1>1. BaseInv /\ Owed /\ Blamed /\ AnswersAreOwn
  BY DEF TicketInv, BaseInv
<1>2. CASE Next
  <2>1. BaseInv' /\ Owed' /\ AnswersAreOwn'
    BY <1>1, <1>2, BaseNext, OwedNext, AnswersNext
  <2>2. Blamed'
    BY <1>1, <1>2, <2>1, BlamedNext
  <2> QED BY <2>1, <2>2 DEF TicketInv, BaseInv
<1>3. CASE UNCHANGED vars
  BY <1>3 DEF vars, client, link, daemon, ghost, TicketInv, TypeOK, Dialled, NotYet, Owed, Blamed,
     AnswersAreOwn, AtDaemon
<1> QED BY <1>2, <1>3

LEMMA TicketSafety == Spec => []TicketInv
BY TicketInit, TicketStep, PTL DEF Spec

\* A unit never takes the reply to another request for its ticket, however the
\* replies are reordered and whatever broke before (wait, drain_in_flight,
\* ensure_connected).
THEOREM RepliesGoToTheirTickets == Spec => []AnswersAreOwn
<1>1. TicketInv => AnswersAreOwn
  BY DEF TicketInv
<1> QED BY <1>1, TicketSafety, PTL

\* Between units nothing is owed on a connection that is up: the drain receives
\* exactly the frames that are still to come (drain_in_flight).
THEOREM NothingOwedBetweenUnits == Spec => []OwedExactly
<1>1. TicketInv => OwedExactly
  BY DEF TicketInv, Owed, Books, OwedExactly, AtDaemon
<1> QED BY <1>1, TicketSafety, PTL

\* A broken connection fails at most two units, and one more for each dial that
\* fails (wait, submit, drain_in_flight, ensure_connected).
THEOREM BreakFailsFewUnits == Spec => []BlameBounded
<1>1. TicketInv => BlameBounded
  BY DEF TicketInv, Blamed, BlameBounded
<1> QED BY <1>1, TicketSafety, PTL
=============================================================================
