-------------------------- MODULE MCBlockWorkflow --------------------------
(* The instance of BlockWorkflow that TLC checks. *)
EXTENDS BlockWorkflow

CONSTANTS c1, c2, p1

MCClients == {c1, c2}
MCPids    == {p1}
MCAsks    == [op : Signals, pid : MCPids] \cup [op : {"scan"}, pid : {None}]
=============================================================================
