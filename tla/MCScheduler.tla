---------------------------- MODULE MCScheduler ----------------------------
(* Small instances of Scheduler. *)
EXTENDS Scheduler

CONSTANTS a, b, c, d

\* one that steps aside while a short one fits, and one that no context can hold
OddPrompt == [r \in Reqs |-> IF r = d THEN 9 ELSE IF r = c THEN 3 ELSE 1]
OddMaxNew == [r \in Reqs |-> IF r = a THEN 8 ELSE 1]
\* a takes half the arena for a while; b, who gives up, was sent before the others
PassPrompt == [r \in Reqs |-> IF r = a THEN 4 ELSE IF r = d THEN 1 ELSE 2]
PassMaxNew == [r \in Reqs |-> IF r = a THEN 6 ELSE 2]
=============================================================================
