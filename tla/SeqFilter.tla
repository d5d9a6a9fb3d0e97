------------------------------ MODULE SeqFilter ------------------------------
(* Vec::retain: a sequence without the elements of a set, the rest in order. *)
EXTENDS Naturals, Sequences

Without(s, R) ==
  LET kept[i \in 0 .. Len(s)] ==
        IF i = 0 THEN <<>>
        ELSE IF s[i] \in R THEN kept[i - 1] ELSE Append(kept[i - 1], s[i])
  IN kept[Len(s)]
=============================================================================
