---------------------------- MODULE MCArenaCalls ----------------------------
(* Small instances of ArenaCalls: one store with a lent end, in which three  *)
(* slots collide; and two stores, of ratio 1 and 2 as in the models served.  *)
EXTENDS ArenaCalls

MCRatio == [si \in Stores |-> 1]
MCRowsCap == [si \in Stores |-> 5]
MCLentRows == [si \in Stores |-> 4]
TwoStoreRatio == [si \in Stores |-> si]
TwoStoreCap == [si \in Stores |-> IF si = 1 THEN 5 ELSE 3]
TwoStoreLent == [si \in Stores |-> IF si = 1 THEN 3 ELSE 1]
=============================================================================
