--------------------------- MODULE MCSpybotDriver ---------------------------
(* Instances of SpybotDriver for TLC. *)
EXTENDS SpybotDriver, TLC

CONSTANTS c1, c2, p1

MCCallers == {c1, c2}
MCPids    == {p1}
MCSym     == Permutations(MCCallers)

Ask(opt, param) == [opt |-> opt, param |-> param]

\* Two callers that race on a table of two entries: a scan, a repair of an
\* entry (0), of the word after the table (2) and beyond it (3), and a signal.
MCRacing == {Ask("KILL", p1), Ask("SCT_SCAN", 0)}
                \cup {Ask("SCT_FIX", i) : i \in {0, 2, 3}}

\* The run that loads and unloads, on a table of one entry, the hijacked one:
\* its repair, one refused for its index (2), a scan of the IDT, and
\* a SEND that stores no answer.
MCLoading == {Ask("SCT_FIX", i) : i \in {0, 2}}
                \cup {Ask("IDT_SCAN", 0), Ask("GET_HOOK", 0)}

MCNoPids == {}
=============================================================================
