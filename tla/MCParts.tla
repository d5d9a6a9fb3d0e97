------------------------------ MODULE MCParts ------------------------------
(* Small instances of five parts, one at work at a time while the others      *)
(* rest: the list of free rows, the chunked move, a stream's steps (the       *)
(* ratios of the two model families, COMPRESS_RATIOS 1 and 2; 4, of which 2   *)
(* and 4 leave groups open across steps, and a region with just the slack one *)
(* step needs), the drafter's rings of two slots, and the expert pager with   *)
(* fewer slots than a layer has experts.                                      *)
EXTENDS ArenaStep, ExpertPager, RowFreeList, MoveChunks, DraftRing, TLC

CONSTANTS e1, e2, e3, laneA, laneB
Alike == Permutations({e1, e2, e3}) \cup Permutations({laneA, laneB})

MCRatio == [si \in Stores |-> 2 ^ (si - 1)]
MCIds == {e1, e2, e3}
MCLanes == {laneA, laneB}

VARIABLE part

partsVars == <<part, pagerVars, listVars, moveVars, ringVars, vars>>

\* a move of one row that is done
NoMove == /\ from = 0 /\ to = 1 /\ total = 1 /\ chunk = 1
          /\ buf = [Original EXCEPT ![1] = 0] /\ bounce = <<>> /\ todo = <<>>

PartsInit ==
  /\ Init /\ ListInit /\ RingInit /\ PagerInit
  /\ \/ part \in {"list", "step", "ring", "pager"} /\ NoMove
     \/ part = "move" /\ MoveInit

OnList == part = "list" /\ UNCHANGED <<part, pagerVars, moveVars, ringVars, vars>>
OnMove == part = "move" /\ UNCHANGED <<part, pagerVars, listVars, ringVars, vars>>
OnStep == part = "step" /\ UNCHANGED <<part, pagerVars, listVars, moveVars, ringVars>>
OnRing == part = "ring" /\ UNCHANGED <<part, pagerVars, listVars, moveVars, vars>>
OnPager == part = "pager" /\ UNCHANGED <<part, listVars, moveVars, ringVars, vars>>

PartsNext ==
  \/ \E k \in 1 .. 7 : OnList /\ Carve(k)
  \/ \E b \in 0 .. 6, m, k \in 1 .. 7 : OnList /\ Extend(<<b, m>>, k)
  \/ \E b \in 0 .. 6, m \in 1 .. 7 : OnList /\ GiveBack(<<b, m>>)
  \/ OnList /\ Rebuild
  \/ OnMove /\ CopyOut
  \/ OnMove /\ CopyIn
  \/ \E p \in 1 .. MaxPos, d \in 1 .. MaxPos : OnStep /\ d <= p /\ Fill(p, d)
  \/ \E k \in 1 .. MaxRows : OnStep /\ StartStep(k)
  \/ \E c \in 1 .. MaxRows : OnStep /\ c <= size /\ Lane(c)
  \/ \E keep \in 1 .. MaxRows : OnStep /\ keep <= size /\ Accept(keep)
  \/ OnStep /\ Leave
  \/ OnRing /\ RingNext
  \/ OnPager /\ PagerNext

PartsSpec == PartsInit /\ [][PartsNext]_partsVars
=============================================================================
