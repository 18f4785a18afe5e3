----------------------------- MODULE MCFileScan -----------------------------
(* Instances of FileScan for TLC.  A quick scan goes over folder d1, which   *)
(* has a file only in a subfolder, and a full one over d2, which is empty,   *)
(* and d1; folder d3, which may be asked for, holds two files, so that its   *)
(* log may be written in two parts.                                          *)
EXTENDS FileScan, TLC

CONSTANTS c1, c2, s1, f1, f2, d1, d2, d3

MCClients == {c1, c2}
MCStrays  == {s1}
MCFiles   == {f1, f2}
MCFolders == {d1, d2, d3}
MCOwn     == d1 :> {} @@ d2 :> {} @@ d3 :> {f1, f2}
MCSub     == d1 :> {f1} @@ d2 :> {} @@ d3 :> {}
MCQuick   == <<d1>>
MCFull    == <<d2>>
MCMatched == {f1}
MCAsks    == {[kind |-> "file", path |-> f2], [kind |-> "folder", path |-> d3],
              [kind |-> "quick", path |-> None], [kind |-> "full", path |-> None]}
Symmetry  == Permutations(MCClients)
=============================================================================
