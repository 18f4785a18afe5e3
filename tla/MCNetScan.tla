----------------------------- MODULE MCNetScan -----------------------------
(* Instances of NetScan for TLC. *)
EXTENDS NetScan, TLC

CONSTANTS c1, c2, p1, p2, i1

MCClients == {c1, c2}
NoClients == {}
MCPids    == {p1}
TwoPids   == {p1, p2}
MCIps     == {i1}
MCPorts   == {"SSH"}

Symmetry == Permutations(MCClients)
=============================================================================
