----------------------------- MODULE MCSchedLive -----------------------------
(* Two instances of Scheduler in one run, a behaviour being one of "room" (short *)
(* requests keep coming past one that needs most of the arena) or of "stall"     *)
(* (two streams outgrow their reservations, and clients give up).                *)
EXTENDS Naturals

CONSTANTS a, b, c

VARIABLES
  world, sends, inbox, queue, deferred, prefills, streams, cancel, answers, order, age,
  roomWait, held, stalledSince, cap, pos, tokens, chunks, window, midGroup, spare, rr,
  phase, burst, pc

InRoom == INSTANCE Scheduler WITH
  Reqs <- {a, b, c}, Marker <- {}, MayCancel <- {}, FirstMayEnd <- {}, Faults <- {},
  Prompt <- [r \in {a, b, c} |-> IF r = a THEN 4 ELSE 1], MaxNew <- [r \in {a, b, c} |-> 2],
  Room <- 8, Ctx <- 9, NSlots <- 2, NScratch <- 1, Headroom <- 1, GrowStep <- 1,
  GrowAt <- 0, Spare <- 0, MaxChunks <- 1, MaxRun <- 1, MaxSends <- 0

InStall == INSTANCE Scheduler WITH
  Reqs <- {a, b}, Marker <- {b}, MayCancel <- {a}, FirstMayEnd <- {a}, Faults <- {},
  Prompt <- [r \in {a, b} |-> 1], MaxNew <- [r \in {a, b} |-> 6],
  Room <- 9, Ctx <- 9, NSlots <- 2, NScratch <- 2, Headroom <- 1, GrowStep <- 2,
  GrowAt <- 0, Spare <- 0, MaxChunks <- 1, MaxRun <- 1, MaxSends <- 2

Init ==
  \/ world = "room" /\ InRoom!Init
  \/ world = "stall" /\ InStall!Init

SchedStep ==
  /\ world' = world
  /\ \/ world = "room" /\ InRoom!SchedStep
     \/ world = "stall" /\ InStall!SchedStep
BudgetSpent == world' = world /\ InRoom!BudgetSpent
GrowOlder(r) ==
  /\ world' = world
  /\ \/ world = "room" /\ InRoom!GrowOlder(r)
     \/ world = "stall" /\ r \in {a, b} /\ InStall!GrowOlder(r)
Clients(r) ==
  /\ world' = world
  /\ \/ world = "room" /\ (InRoom!Send(r) \/ InRoom!Cancel(r))
     \/ world = "stall" /\ r \in {a, b} /\ (InStall!Send(r) \/ InStall!Cancel(r))

vars == <<world, InRoom!vars>>
Spec ==
  /\ Init
  /\ [][SchedStep \/ BudgetSpent \/ \E r \in {a, b, c} : GrowOlder(r) \/ Clients(r)]_vars
  /\ WF_vars(SchedStep) /\ SF_vars(BudgetSpent)
  /\ \A r \in {a, b, c} : WF_vars(GrowOlder(r))

EveryRequestEnds == \A r \in {a, b, c} : InRoom!InSystem(r) ~> ~ InRoom!InSystem(r)
=============================================================================
