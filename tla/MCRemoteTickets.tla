--------------------------- MODULE MCRemoteTickets ---------------------------
(* The instances of RemoteTickets are in the .cfg files: numbers only.        *)
EXTENDS RemoteTickets
=============================================================================
