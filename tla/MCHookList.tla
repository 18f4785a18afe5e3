----------------------------- MODULE MCHookList -----------------------------
(* Instances of HookList for TLC. *)
EXTENDS HookList

CONSTANTS e1, e2, r1, n1, n2, n3

MCExecs   == {e1, e2}
MCReaders == {r1}
MCNodes   == {n1, n2, n3}
=============================================================================
