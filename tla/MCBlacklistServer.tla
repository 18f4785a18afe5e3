------------------------- MODULE MCBlacklistServer -------------------------
(* The instances of BlacklistServer that TLC checks. *)
EXTENDS BlacklistServer

CONSTANTS u1, u2, i1, h1, h2

MCUpdaters == {u1, u2}
MCIps      == {i1}
MCHashes   == {h1, h2}
MCLists    == {{i1, h1}}
MCAsks     == {[op |-> "scan", keys |-> <<i1>>], [op |-> "scan", keys |-> <<h1, h2>>],
               [op |-> "save", keys |-> <<h2>>], [op |-> "save", keys |-> <<i1>>]}
=============================================================================
