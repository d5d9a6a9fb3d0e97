---------------------------- MODULE RemoteTickets ----------------------------
(***************************************************************************)
(* The link to box 2 (het/remote_experts.rs): the hub's client with its    *)
(* tickets in flight, the stash of replies that came out of order, the     *)
(* drain after a failure and the redial; and the daemon, which serves one  *)
(* connection at a time, may serve requests while an earlier one is parked *)
(* on its reads, may merge two, and answers a failing request with an      *)
(* error frame before it closes the connection.                            *)
(*                                                                         *)
(* The hub's engine thread runs one unit (a prefill unit, a decode step)   *)
(* after another; a unit submits tickets and waits for them in any order.  *)
(* Each direction of a connection is one FIFO for the channels, threads    *)
(* and sockets it passes; they hold more frames than a unit has tickets in *)
(* flight. A connection that breaks does so for both ends, and the frames  *)
(* on their way to the hub arrive up to some point. What requests compute, *)
(* the clocks and the pin protocol that rides on the frames are left out.  *)
(***************************************************************************)
EXTENDS Naturals, SequencesExt, SeqFilter

CONSTANTS
  MaxFaults,      \* bound on the faults of a behaviour
  MaxSeq,         \* bound on the requests of a connection
  Window          \* bound on a unit's tickets in flight

ASSUME TicketsAssumption == {MaxFaults, MaxSeq, Window} \subseteq Nat \ {0}

\* connections in the order they are dialled; each but the last can break
Conns == 1 .. MaxFaults + 1

VARIABLES
  conn,           \* the client's connection
  nextSeq, inFlight, stash, dead,      \* RemoteExpertClient
  unit,           \* what the engine thread does: "idle", "run", "failed", "drain",
                  \* "redial", "hello"
  accepted,       \* replies the unit took for its tickets: <<ticket, reply>>
  blame,          \* units a broken connection has failed (ghost)
  reqs, reps,     \* frames on their way, per connection
  ended,          \* broken or closed connections: no new frame will arrive
  backlog,        \* connections the daemon has not accepted
  serving,        \* the connection the daemon serves, or Nobody
  cur,            \* the requests in its pass, or parked: one, or two merged
  faults,         \* faults left
  refused         \* dials that failed (ghost)

client == <<conn, nextSeq, inFlight, stash, dead>>
link == <<reqs, reps, ended>>
daemon == <<backlog, serving, cur>>
ghost == <<accepted, blame, refused>>
vars == <<client, unit, link, daemon, ghost, faults>>

Nobody == 0

\* "of" is the request itself, which the daemon does not know as such
Request(c, seq) == [seq |-> seq, of |-> <<c, seq>>]
Reply(r) == [seq |-> r.seq, of |-> r.of, ok |-> TRUE]
ErrorFrame(r) == [seq |-> r.seq, of |-> r.of, ok |-> FALSE]

Init ==
  /\ conn = 1 /\ nextSeq = 1 /\ inFlight = <<>> /\ stash = {} /\ dead = FALSE
  /\ unit = "idle" /\ accepted = {} /\ blame = [c \in Conns |-> 0] /\ refused = 0
  /\ reqs = [c \in Conns |-> <<>>] /\ reps = [c \in Conns |-> <<>>] /\ ended = {}
  /\ backlog = <<>> /\ serving = 1 /\ cur = <<>>
  /\ faults = MaxFaults

WithSeq(frames, seq) == {f \in frames : f.seq = seq}

Fault == faults > 0 /\ faults' = faults - 1

-----------------------------------------------------------------------------
(* A unit of the engine thread. *)

StartUnit ==
  /\ unit = "idle" /\ nextSeq <= MaxSeq
  /\ unit' = "run" /\ accepted' = {}
  /\ UNCHANGED <<client, link, daemon, blame, refused, faults>>

EndUnit ==
  /\ unit = "run" /\ inFlight = <<>>
  /\ unit' = "idle"
  /\ UNCHANGED <<client, link, daemon, ghost, faults>>

\* submit: the frame goes to the writer thread
Submit ==
  /\ unit = "run" /\ Len(inFlight) < Window /\ nextSeq <= MaxSeq
  /\ LET r == Request(conn, nextSeq) IN
     /\ reqs' = [reqs EXCEPT ![conn] = IF conn \in ended THEN @ ELSE Append(@, r)]
     /\ inFlight' = Append(inFlight, r)
  /\ nextSeq' = nextSeq + 1
  /\ UNCHANGED <<conn, stash, dead, unit, reps, ended, daemon, ghost, faults>>

\* mutant: the failure that finds the link gone does not say so
BugFailUnit(tickets, isDead) ==
  /\ unit' = "failed" /\ inFlight' = tickets /\ dead' = dead
  /\ blame' = IF conn \in ended THEN [blame EXCEPT ![conn] = @ + 1] ELSE blame

\* the unit fails; a failure that a broken link caused is counted against it
FailUnit(tickets, isDead) ==
  /\ unit' = "failed" /\ inFlight' = tickets /\ dead' = isDead
  /\ blame' = IF conn \in ended THEN [blame EXCEPT ![conn] = @ + 1] ELSE blame

\* the writer thread is gone
SubmitFails ==
  /\ unit = "run" /\ nextSeq <= MaxSeq /\ conn \in ended
  /\ FailUnit(inFlight, TRUE)
  /\ nextSeq' = nextSeq + 1
  /\ UNCHANGED <<conn, stash, link, daemon, accepted, refused, faults>>

\* ready: what has arrived goes to the stash
Ready ==
  /\ unit = "run" /\ inFlight # <<>> /\ reps[conn] # <<>>
  /\ stash' = stash \cup ToSet(reps[conn])
  /\ reps' = [reps EXCEPT ![conn] = <<>>]
  /\ UNCHANGED <<conn, nextSeq, inFlight, dead, unit, reqs, ended, daemon, ghost, faults>>

\* mutant: a wait for one ticket takes any reply
BugAnswerOf(t, frames) == frames

\* the frames that answer ticket t
AnswerOf(t, frames) == WithSeq(frames, t.seq)

\* wait(t) looks in the stash, then takes frames as they arrive, up to its own
SeenBy(n) == stash \cup ToSet(SubSeq(reps[conn], 1, n))
Stops(t) == {n \in 0 .. Len(reps[conn]) : AnswerOf(t, SeenBy(n)) # {}}

Wait(t) ==
  /\ unit = "run" /\ t \in ToSet(inFlight)
  /\ \E n \in Stops(t) :
       /\ \A m \in Stops(t) : n <= m
       /\ reps' = [reps EXCEPT ![conn] = SubSeq(@, n + 1, Len(@))]
       /\ \E f \in AnswerOf(t, SeenBy(n)) :
            /\ stash' = SeenBy(n) \ {f}
            /\ \/ /\ f.ok
                  /\ accepted' = accepted \cup {<<t.of, f.of>>}
                  /\ inFlight' = Without(inFlight, {t})
                  /\ UNCHANGED <<unit, dead, blame>>
               \/ /\ ~f.ok
                  /\ FailUnit(Without(inFlight, {t}), dead)
                  /\ UNCHANGED accepted
  /\ UNCHANGED <<conn, nextSeq, reqs, ended, daemon, refused, faults>>

\* nothing more will arrive
WaitFails(t) ==
  /\ unit = "run" /\ t \in ToSet(inFlight) /\ Stops(t) = {} /\ conn \in ended
  /\ stash' = SeenBy(Len(reps[conn]))
  /\ reps' = [reps EXCEPT ![conn] = <<>>]
  /\ FailUnit(Without(inFlight, {t}), TRUE)
  /\ UNCHANGED <<conn, nextSeq, reqs, ended, daemon, accepted, refused, faults>>

\* anything else that fails in a unit
LocalFailure ==
  /\ unit = "run" /\ Fault
  /\ unit' = "failed"
  /\ UNCHANGED <<client, link, daemon, ghost>>

-----------------------------------------------------------------------------
(* After a failed unit: remote_drain_in_flight, remote_reconnect_if_dead. *)

\* mutant: the drain receives for every ticket, those already answered included
BugUnanswered(tickets, frames) == tickets

Unanswered(tickets, frames) ==
  Without(tickets, {t \in ToSet(tickets) : WithSeq(frames, t.seq) # {}})

DrainStash ==
  /\ unit = "failed"
  /\ inFlight' = Unanswered(inFlight, stash)
  /\ stash' = {} /\ unit' = "drain"
  /\ UNCHANGED <<conn, nextSeq, dead, link, daemon, ghost, faults>>

\* mutant: one receive in place of one per ticket
BugLeftToDrain(tickets) == <<>>

LeftToDrain(tickets) == Tail(tickets)

\* one receive for one ticket, whichever ticket the frame answers
DrainOne ==
  /\ unit = "drain" /\ inFlight # <<>> /\ reps[conn] # <<>>
  /\ inFlight' = LeftToDrain(inFlight)
  /\ reps' = [reps EXCEPT ![conn] = Tail(@)]
  /\ UNCHANGED <<conn, nextSeq, stash, dead, unit, reqs, ended, daemon, ghost, faults>>

\* the link has ended: the drain stops, and does not mark the client dead
DrainBroken ==
  /\ unit = "drain" /\ inFlight # <<>> /\ reps[conn] = <<>> /\ conn \in ended
  /\ inFlight' = Tail(inFlight) /\ unit' = "redial"
  /\ UNCHANGED <<conn, nextSeq, stash, dead, link, daemon, ghost, faults>>

DrainDone ==
  /\ unit = "drain" /\ inFlight = <<>>
  /\ unit' = "redial"
  /\ UNCHANGED <<client, link, daemon, ghost, faults>>

StillUp ==
  /\ unit = "redial" /\ ~dead
  /\ unit' = "idle"
  /\ UNCHANGED <<client, link, daemon, ghost, faults>>

\* connect: the listener queues the connection, the client waits for a HELLO
Dial ==
  /\ unit = "redial" /\ dead
  /\ backlog' = Append(backlog, conn + 1)
  /\ unit' = "hello"
  /\ UNCHANGED <<client, link, serving, cur, ghost, faults>>

\* a dial that fails leaves the client dead; the next failure dials again
GiveUp ==
  /\ unit' = "idle" /\ refused' = refused + 1
  /\ UNCHANGED <<client, daemon, reqs, reps, accepted, blame>>

DialRefused ==
  /\ unit = "redial" /\ dead /\ Fault
  /\ GiveUp
  /\ UNCHANGED ended

\* the daemon went away before the HELLO; the number serves for the next dial
HelloFails ==
  /\ unit = "hello" /\ serving # conn + 1 /\ conn + 1 \notin ToSet(backlog)
  /\ GiveUp
  /\ ended' = ended \ {conn + 1}
  /\ UNCHANGED faults

\* the HELLO arrived (perhaps just before the connection broke again)
Hello ==
  /\ unit = "hello" /\ (serving = conn + 1 \/ conn + 1 \in ended)
  /\ conn' = conn + 1 /\ nextSeq' = 1 /\ inFlight' = <<>> /\ stash' = {} /\ dead' = FALSE
  /\ unit' = "idle"
  /\ UNCHANGED <<link, daemon, ghost, faults>>

-----------------------------------------------------------------------------
(* The daemon (serve, serve_connection, serve_interleaved). *)

Accept ==
  /\ serving = Nobody /\ backlog # <<>>
  /\ serving' = Head(backlog) /\ backlog' = Tail(backlog)
  /\ UNCHANGED <<client, unit, link, cur, ghost, faults>>

\* take the next request, and perhaps the other lane's for the same layer
Take(n) ==
  /\ serving # Nobody /\ cur = <<>> /\ Len(reqs[serving]) >= n
  /\ cur' = SubSeq(reqs[serving], 1, n)
  /\ reqs' = [reqs EXCEPT ![serving] = SubSeq(@, n + 1, Len(@))]
  /\ UNCHANGED <<client, unit, reps, ended, backlog, serving, ghost, faults>>

\* a lone request is parked on its reads: the one behind it is served first
ServeInside ==
  /\ serving # Nobody /\ Len(cur) = 1 /\ reqs[serving] # <<>>
  /\ reps' = [reps EXCEPT ![serving] = Append(@, Reply(Head(reqs[serving])))]
  /\ reqs' = [reqs EXCEPT ![serving] = Tail(@)]
  /\ UNCHANGED <<client, unit, ended, daemon, ghost, faults>>

\* the replies of a pass
Answers(requests) == [i \in DOMAIN requests |-> Reply(requests[i])]

Finish ==
  /\ serving # Nobody /\ cur # <<>>
  /\ reps' = [reps EXCEPT ![serving] = @ \o Answers(cur)]
  /\ cur' = <<>>
  /\ UNCHANGED <<client, unit, reqs, ended, backlog, serving, ghost, faults>>

\* the connection ends: of its frames and these last ones, some arrive
Close(last) ==
  /\ \E n \in 0 .. Len(reps[serving] \o last) :
       reps' = [reps EXCEPT ![serving] = SubSeq(@ \o last, 1, n)]
  /\ reqs' = [reqs EXCEPT ![serving] = <<>>]
  /\ ended' = ended \cup {serving}
  /\ serving' = Nobody /\ cur' = <<>>

\* a request fails: an error frame for it, none for a merged one
FailRequest ==
  /\ serving # Nobody /\ cur # <<>> /\ Fault
  /\ Close(<<ErrorFrame(Head(cur))>>)
  /\ UNCHANGED <<client, unit, backlog, ghost>>

\* a request served inside a parked one fails, and the parked one with it
FailInterleaved ==
  /\ serving # Nobody /\ Len(cur) = 1 /\ reqs[serving] # <<>> /\ Fault
  /\ Close(<<ErrorFrame(Head(reqs[serving])), ErrorFrame(Head(cur))>>)
  /\ UNCHANGED <<client, unit, backlog, ghost>>

\* the connection breaks
Reset ==
  /\ serving # Nobody /\ Fault
  /\ Close(<<>>)
  /\ UNCHANGED <<client, unit, backlog, ghost>>

\* the daemon dies and a new one listens; dials that wait are lost
Restart ==
  /\ serving = Nobody /\ backlog # <<>> /\ Fault
  /\ backlog' = <<>>
  /\ UNCHANGED <<client, unit, link, serving, cur, ghost>>

-----------------------------------------------------------------------------
EngineStep ==
  \/ EndUnit \/ Submit \/ SubmitFails \/ Ready
  \/ \E t \in ToSet(inFlight) : Wait(t) \/ WaitFails(t)
  \/ DrainStash \/ DrainOne \/ DrainBroken \/ DrainDone
  \/ StillUp \/ Dial \/ HelloFails \/ Hello

DaemonStep == Accept \/ Take(1) \/ Take(2) \/ ServeInside \/ Finish

Tickets == {Request(c, seq) : c \in Conns, seq \in 1 .. MaxSeq}

Next ==
  \/ StartUnit \/ EndUnit \/ Submit \/ SubmitFails \/ Ready
  \/ \E t \in Tickets : Wait(t)
  \/ \E t \in Tickets : WaitFails(t)
  \/ LocalFailure
  \/ DrainStash \/ DrainOne \/ DrainBroken \/ DrainDone
  \/ StillUp \/ Dial \/ DialRefused \/ HelloFails \/ Hello
  \/ Accept \/ Take(1) \/ Take(2) \/ ServeInside \/ Finish
  \/ FailRequest \/ FailInterleaved \/ Reset \/ Restart

\* the engine thread runs, and so does the daemon
Fairness == WF_vars(EngineStep) /\ WF_vars(DaemonStep)

Spec == Init /\ [][Next]_vars /\ Fairness

-----------------------------------------------------------------------------
\* A reply a unit takes for a ticket is the reply to that very request: not
\* one that came out of order, not one of a unit that failed, not one of an
\* earlier connection whose numbers start again (wait, drain_in_flight,
\* ensure_connected).
AnswersAreOwn == \A pair \in accepted : pair[1] = pair[2]

\* Between units nothing is owed on a connection that is up: no ticket, no
\* stashed reply, no frame under way, nothing at the daemon. So a unit never
\* starts behind the leftovers of another (wait, drain_in_flight).
OwedExactly ==
  (unit = "idle" /\ conn \notin ended) =>
     /\ inFlight = <<>> /\ stash = {}
     /\ reqs[conn] = <<>> /\ reps[conn] = <<>>
     /\ (serving = conn => cur = <<>>)

\* A broken connection fails at most two units, and one more for each dial
\* that fails: the unit it broke under, and the one that finds out (the drain
\* and an error frame do not mark the client dead).
BlameBounded == \A c \in Conns : blame[c] <= 2 + refused

\* A broken connection fails one unit; the next redials (multistream.rs:1363:
\* "A failure in ONE job (paging, admission, box 2) fails that request only;
\* the live streams keep going.").
OneUnitPerBreak == refused = 0 => \A c \in Conns : blame[c] <= 1

\* The engine thread is never stuck in a wait, a drain or a redial: whatever
\* breaks, and however replies are reordered, every unit ends (wait,
\* drain_in_flight, connect).
UnitEnds == (unit # "idle") ~> (unit = "idle")
=============================================================================
