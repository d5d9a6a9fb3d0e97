---------------------------- MODULE MCEmbedPhase ----------------------------
(* Small instances of EmbedPhase. *)
EXTENDS EmbedPhase

CONSTANTS a, b, c

\* a request of two inputs, the second as large as a phase; one-input requests
TwoInputs == [x \in Clients |-> IF x = a THEN <<1, 2>> ELSE <<1>>]
=============================================================================
