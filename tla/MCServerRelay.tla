--------------------------- MODULE MCServerRelay ---------------------------
(* The instance of ServerRelay that TLC checks. *)
EXTENDS ServerRelay

CONSTANTS c1, c2

MCClients == {c1, c2}
=============================================================================
