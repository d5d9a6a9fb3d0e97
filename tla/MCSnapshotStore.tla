--------------------------- MODULE MCSnapshotStore ---------------------------
(* Small instances of SnapshotStore. *)
EXTENDS SnapshotStore, TLC

CONSTANTS p1, p2, s1

\* a prompt of a session and a checkpoint of the same prefix
Prompt == {<<1, "full", s1>>, <<1, "ckpt", Nobody>>}

\* two servers that overlap and save the same key
Overlap == [work |-> p1 :> Prompt @@ p2 :> Prompt, overlap |-> TRUE, faults |-> {}, maxNow |-> 0]

\* ... and save it as a full snapshot only
OverlapAlike == [Overlap EXCEPT !.work = p1 :> {<<1, "full", s1>>} @@ p2 :> {<<1, "full", Nobody>>}]

\* one server after the other, everything failing but a rename back: saves of one key
OneKey == [work |-> p1 :> Prompt, overlap |-> FALSE, faults |-> AllFaults \ {"back", "crashAside"},
           maxNow |-> 1]

\* ... prompts of a session, one also saved without it, and removals that fail
TwoKeys == [work |-> p1 :> {<<1, "full", s1>>, <<2, "full", s1>>, <<2, "ckpt", Nobody>>},
            overlap |-> FALSE, faults |-> {"remove", "cut", "touch"}, maxNow |-> 1]

\* ... where what is removed is gone
TidyKeys == [TwoKeys EXCEPT !.faults = {"write", "aside", "commit", "touch", "read"}]

OverlapOrFaults == {Overlap, OverlapAlike, OneKey, TwoKeys, TidyKeys}

\* one server at a time, which may die between the two renames of a commit
Crashes == {[OneKey EXCEPT !.faults = {"crashAside"}]}
=============================================================================
