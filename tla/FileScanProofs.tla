--------------------------- MODULE FileScanProofs ---------------------------
(***************************************************************************)
(* Proofs about FileScan, for any clients, scripts left behind, files,     *)
(* folders, configuration and requests.                                    *)
(***************************************************************************)
EXTENDS FileScan, SequenceTheorems, TLAPS

\* The paths a script gets are of the request's kind.
PathsOf(k) == IF k = "file" THEN Files ELSE Folders

PathsFit ==
    \A c \in Clients :
        /\ pc[c] # "idle" => [kind |-> kind[c], path |-> path[c]] \in Requests
        /\ \/ todo[c] = <<>>
           \/ /\ todo[c] \in Seq(PathsOf(kind[c]))
              /\ pc[c] \in {"next", "script", "read"}

TypeInv == TypeOK /\ PathsFit

\* A script's listing holds files only.
LEMMA ListingIsFiles ==
    ASSUME TypeOK, NEW k \in Kinds, NEW p \in PathsOf(k)
    PROVE  Listing(k, p) \in SUBSET Files
BY FoldersAssumption DEF Listing, PathsOf, Kinds, TypeOK

\* Its lines are lines about files.
LEMMA JudgementIsEntries ==
    ASSUME NEW fs \in SUBSET Files, NEW hits
    PROVE  Judgement(fs, hits) \in SUBSET Entries
BY DEF Judgement, Entries, Verdicts

\* A client's thread waits for the script that runs for it.
LEMMA ClientWaits ==
    ASSUME TypeOK, NEW c \in Clients, script[c].stage # "none"
    PROVE  pc[c] = "script"
BY DEF TypeOK, NoScript

\* The vector handed to yaraScan or hashScan fits the request.
LEMMA VectorFits ==
    ASSUME TypeInv, NEW c \in Clients, pc[c] # "idle"
    PROVE  Vector(c) \in Seq(PathsOf(kind[c]))
<1>1. [kind |-> kind[c], path |-> path[c]] \in Requests
  BY DEF TypeInv, PathsFit
<1>2. CASE kind[c] = "file"
  BY <1>1, <1>2 DEF Requests, Vector, PathsOf
<1>3. CASE kind[c] = "folder"
  BY <1>1, <1>3 DEF Requests, Vector, PathsOf
<1>4. CASE kind[c] \in {"quick", "full"}
  BY <1>4 DEF Vector, PathsOf, TypeInv, TypeOK
<1>5. QED
  BY <1>2, <1>3, <1>4 DEF TypeInv, TypeOK, Kinds

\* So a request that is being served is about files.
LEMMA AskedAreFiles ==
    ASSUME TypeInv, NEW c \in Clients, pc[c] # "idle"
    PROVE  AskedFiles(c) \subseteq Files
<1>1. [kind |-> kind[c], path |-> path[c]] \in Requests
  BY DEF TypeInv, PathsFit
<1>2. kind[c] \in Kinds
  BY DEF TypeInv, TypeOK
<1>3. PathsIn(Quick) \subseteq Folders /\ PathsIn(Full) \subseteq Folders
  BY FoldersAssumption DEF PathsIn
<1>4. AskedPaths(c) \subseteq PathsOf(kind[c])
  BY <1>1, <1>2, <1>3 DEF Requests, AskedPaths, PathsOf, Kinds
<1>5. QED
  BY <1>2, <1>4, ListingIsFiles DEF AskedFiles, TypeInv

\* A step of a thread's own keeps the types and the fit of the paths.
LEMMA ClientKeepsTypes ==
    ASSUME TypeInv, NEW c \in Clients, ClientStep(c)
    PROVE  TypeInv'
<1> USE FoldersAssumption, AsksAssumption
    DEF TypeInv, TypeOK, PathsFit, world, config, request, thread, Goto
<1>1. CASE Request(c)
  <2>1. PICK r \in Requests : /\ kind' = [kind EXCEPT ![c] = r.kind]
                              /\ path' = [path EXCEPT ![c] = r.path]
    BY <1>1 DEF Request
  <2>2. r.kind \in Kinds /\ r.path \in Paths \cup {None}
        /\ [kind |-> r.kind, path |-> r.path] \in Requests
    BY DEF Requests, Kinds, Paths
  <2>3. TypeOK'
    BY <1>1, <2>1, <2>2 DEF Request
  <2>4. PathsFit'
    BY <1>1, <2>1, <2>2 DEF Request
  <2>5. QED
    BY <2>3, <2>4
<1>2. CASE ParseConfig(c) \/ JoinQuick(c)
  <2>1. fullPaths \o quickPaths \in Seq(Folders)
    OBVIOUS
  <2>2. QED
    BY <1>2, <2>1 DEF ParseConfig, JoinQuick
<1>3. CASE CallYaraScan(c) \/ CallHashScan(c)
  <2>1. Vector(c) \in Seq(PathsOf(kind[c]))
    BY <1>3, VectorFits DEF CallYaraScan, CallHashScan
  <2>2. Vector(c) \in Seq(Paths)
    BY <2>1 DEF PathsOf, Paths
  <2>3. CASE CallYaraScan(c)
    <3>1. TypeOK'
      BY <2>2, <2>3 DEF CallYaraScan
    <3>2. PathsFit'
      BY <2>1, <2>3 DEF CallYaraScan
    <3>3. QED
      BY <3>1, <3>2
  <2>4. CASE CallHashScan(c)
    <3>1. TypeOK'
      BY <2>2, <2>4 DEF CallHashScan, Tools
    <3>2. PathsFit'
      BY <2>1, <2>4 DEF CallHashScan
    <3>3. QED
      BY <3>1, <3>2
  <2>5. QED
    BY <1>3, <2>3, <2>4
<1>4. CASE RunScript(c)
  <2>1. todo[c] \in Seq(PathsOf(kind[c])) /\ todo[c] # <<>>
    BY <1>4 DEF RunScript
  <2>2. Head(todo[c]) \in PathsOf(kind[c]) /\ Tail(todo[c]) \in Seq(PathsOf(kind[c]))
    BY <2>1
  <2>3. Tail(todo[c]) \in Seq(Paths)
    BY <2>2 DEF PathsOf, Paths
  <2>4. Listing(kind[c], Head(todo[c])) \in SUBSET Files
    BY <2>2, ListingIsFiles
  <2> DEFINE new == [stage |-> "judge", tool |-> tool[c],
                     listed |-> Listing(kind[c], Head(todo[c])), lines |-> {}]
  <2>5. new \in Scripts /\ new # NoScript
    BY <2>4 DEF Scripts, NoScript
  <2>6. /\ script' = [script EXCEPT ![c] = new] /\ pc' = [pc EXCEPT ![c] = "script"]
        /\ pc[c] = "next"
    BY <1>4 DEF RunScript
  <2> HIDE DEF new
  <2>7. /\ script' \in [Runners -> Scripts]
        /\ \A d \in Clients : pc'[d] = "script" <=> script'[d] # NoScript
    BY <2>5, <2>6 DEF Runners
  <2>8. TypeOK'
    BY <1>4, <2>3, <2>6, <2>7 DEF RunScript
  <2>9. PathsFit'
    BY <1>4, <2>2, <2>6 DEF RunScript
  <2>10. QED
    BY <2>8, <2>9
<1>5. CASE ReadLog(c)
  <2>1. results' \in [Clients -> [Tools -> {Torn} \cup Results]]
    <3>1. PICK s \in {Torn} \cup Results : results' = [results EXCEPT ![c][tool[c]] = s]
      BY <1>5 DEF ReadLog, Read, ReadTorn, ReadWhole, Readings
    <3>2. QED
      BY <3>1
  <2>2. viruses' \subseteq Files \cup {Torn}
    BY <1>5 DEF ReadLog, Read, ReadTorn, ReadWhole, Entries, Tools
  <2>3. TypeOK'
    BY <1>5, <2>1, <2>2 DEF ReadLog, Read
  <2>4. PathsFit'
    BY <1>5 DEF ReadLog, Read
  <2>5. QED
    BY <2>3, <2>4
<1>6. CASE EndOfHashScan(c)
  BY <1>6 DEF EndOfHashScan, Tools
<1>7. CASE Reply(c)
  <2>1. NoResults \in [Tools -> {Torn} \cup Results]
    BY DEF NoResults, Results, Unset
  <2>2. TypeOK'
    BY <1>7, <2>1 DEF Reply, Kinds, Disturb
  <2>3. PathsFit'
    BY <1>7 DEF Reply
  <2>4. QED
    BY <2>2, <2>3
<1>8. QED
  BY <1>1, <1>2, <1>3, <1>4, <1>5, <1>6, <1>7 DEF ClientStep

\* So does a step of a script, whether its thread still waits for it or not.
LEMMA ScriptKeepsTypes ==
    ASSUME TypeInv, NEW r \in Runners, ScriptStep(r)
    PROVE  TypeInv'
<1> USE DEF TypeInv, TypeOK, PathsFit, world, config, request, thread
<1> DEFINE t == script[r].tool
<1>1. /\ script[r] \in Scripts /\ t \in Tools
      /\ script[r].listed \in SUBSET Files /\ script[r].lines \in SUBSET Entries
  BY DEF Scripts
<1>2. script[r].stage # "none" /\ (r \in Clients => pc[r] = "script")
  BY ClientWaits
  DEF ScriptStep, Judge, ServerIsWrong, JudgeAndOpen, FlushLog, CloseLog, ScriptFails
<1>3. ASSUME NEW hits, JudgeAndOpen(r, hits),
             quiet' \in [Clients -> BOOLEAN], changes' \in Nat
      PROVE  TypeInv'
  <2> DEFINE verdicts == Judgement(script[r].listed, hits)
             new == [stage |-> "write", tool |-> t, listed |-> {}, lines |-> verdicts]
  <2>1. verdicts \in SUBSET Entries
    BY <1>1, JudgementIsEntries
  <2> HIDE DEF verdicts
  <2>2. new \in Scripts /\ new # NoScript
    BY <1>1, <2>1 DEF Scripts, NoScript
  <2>3. {<<t, e>> : e \in verdicts} \subseteq Tools \X Entries
    BY <1>1, <2>1
  <2>4. /\ script' = [script EXCEPT ![r] = new]
        /\ judged' = judged \cup {<<t, e>> : e \in verdicts}
        /\ log' = [log EXCEPT ![t] = IF Writers(t) = {} THEN {} ELSE Torn]
        /\ pieces' = pieces \cup Readers(t)
        /\ UNCHANGED <<up, present, blacklist, config, viruses, pc, request, thread, scans>>
    BY <1>3 DEF JudgeAndOpen, verdicts
  <2> HIDE DEF new
  <2>5. /\ script' \in [Runners -> Scripts]
        /\ \A d \in Clients : pc'[d] = "script" <=> script'[d] # NoScript
    BY <1>2, <2>2, <2>4 DEF Runners
  <2>6. pieces' \subseteq {c \in Clients : pc'[c] = "read"}
    BY <2>4 DEF Readers
  <2>7. log' \in [Tools -> {Torn} \cup SUBSET Entries]
    BY <1>1, <2>4
  <2>8. TypeOK'
    BY <1>3, <2>3, <2>4, <2>5, <2>6, <2>7
  <2>9. PathsFit'
    BY <2>4
  <2>10. QED
    BY <2>8, <2>9
<1>4. CASE Judge(r)
  BY <1>3, <1>4 DEF Judge
<1>5. CASE ServerIsWrong(r)
  BY <1>3, <1>5 DEF ServerIsWrong, Disturb
<1>6. CASE FlushLog(r)
  <2>1. PICK part \in SUBSET script[r].lines :
            /\ Write(t, part)
            /\ script' = [script EXCEPT ![r].lines = @ \ part]
    BY <1>6 DEF FlushLog
  <2>2. log' \in [Tools -> {Torn} \cup SUBSET Entries]
    BY <1>1, <2>1 DEF Write
  <2>3. script' \in [Runners -> Scripts] /\ script'[r].stage = script[r].stage
    BY <1>1, <2>1 DEF Scripts
  <2>4. \A d \in Clients : pc'[d] = "script" <=> script'[d] # NoScript
    <3>1. script[r] # NoScript /\ script'[r] # NoScript /\ pc' = pc
      BY <1>2, <1>6, <2>3 DEF FlushLog, NoScript
    <3>2. \A d \in Clients : d # r => script'[d] = script[d]
      BY <2>1 DEF Runners
    <3>3. QED
      BY <1>2, <3>1, <3>2
  <2>5. TypeOK'
    BY <1>6, <2>2, <2>3, <2>4 DEF FlushLog
  <2>6. PathsFit'
    BY <1>6 DEF FlushLog
  <2>7. QED
    BY <2>5, <2>6
<1>7. ASSUME Ended(r), log' \in [Tools -> {Torn} \cup SUBSET Entries],
             quiet' \in [Clients -> BOOLEAN]
      PROVE  TypeInv'
  <2>1. /\ pc' \in [Clients -> {"idle", "parse", "join", "call", "next", "script",
                                "read", "reply"}]
        /\ \A d \in Clients : pc'[d] = IF d = r THEN "read" ELSE pc[d]
    BY <1>7 DEF Ended
  <2>2. NoScript \in Scripts
    BY DEF NoScript, Scripts, Tools
  <2>3. /\ script' \in [Runners -> Scripts]
        /\ \A d \in Clients : pc'[d] = "script" <=> script'[d] # NoScript
    BY <1>7, <2>1, <2>2 DEF Ended, Runners
  <2>4. TypeOK'
    BY <1>7, <2>1, <2>3 DEF Ended
  <2>5. PathsFit'
    BY <1>2, <1>7, <2>1 DEF Ended
  <2>6. QED
    BY <2>4, <2>5
<1>8. CASE CloseLog(r)
  <2>1. log' \in [Tools -> {Torn} \cup SUBSET Entries]
    BY <1>1, <1>8 DEF CloseLog, Write
  <2>2. QED
    BY <1>7, <1>8, <2>1 DEF CloseLog
<1>9. CASE ScriptFails(r)
  <2>1. quiet' \in [Clients -> BOOLEAN]
    BY <1>9 DEF ScriptFails, Disturb
  <2>2. QED
    BY <1>7, <1>9, <2>1 DEF ScriptFails
<1>10. QED
  BY <1>4, <1>5, <1>6, <1>8, <1>9 DEF ScriptStep

\* A crash leaves the threads nothing, and some strays the scripts they ran.
LEMMA AfterCrash ==
    ASSUME TypeInv, Crash
    PROVE  /\ \A c \in Clients : script'[c] = NoScript
           /\ \A r \in Strays : \E s \in Runners : script'[r] = script[s]
<1>1. PICK stray \in [Running -> Free] :
          script' = [r \in Runners |->
              IF r \in Clients THEN NoScript
              ELSE IF \E c \in Running : stray[c] = r
                   THEN script[CHOOSE c \in Running : stray[c] = r] ELSE script[r]]
  BY DEF Crash
<1>2. \A c \in Clients : script'[c] = NoScript
  BY <1>1 DEF Runners
<1>3. ASSUME NEW r \in Strays PROVE \E s \in Runners : script'[r] = script[s]
  <2>1. r \in Runners /\ r \notin Clients
    BY StraysAssumption DEF Runners
  <2>2. CASE \E c \in Running : stray[c] = r
    <3> DEFINE s == CHOOSE c \in Running : stray[c] = r
    <3>1. s \in Running
      BY <2>2
    <3>2. s \in Runners
      BY <3>1 DEF Running, Runners
    <3>3. script'[r] = script[s]
      BY <1>1, <2>1, <2>2
    <3>4. QED
      BY <3>2, <3>3
  <2>3. CASE ~\E c \in Running : stray[c] = r
    BY <1>1, <2>1, <2>3
  <2>4. QED
    BY <2>2, <2>3
<1>4. QED
  BY <1>2, <1>3

\* Every step keeps the types and the fit of the paths.
LEMMA TypeInvInductive == TypeInv /\ [Next]_vars => TypeInv'
<1> SUFFICES ASSUME TypeInv, [Next]_vars PROVE TypeInv'
  OBVIOUS
<1> USE DEF TypeInv, TypeOK, PathsFit, world, config, request, thread
<1>1. CASE Crash
  <2>1. script' \in [Runners -> Scripts]
    <3>1. \A r \in Runners : script'[r] \in Scripts
      <4>1. NoScript \in Scripts /\ \A r \in Runners : script[r] \in Scripts
        BY DEF Scripts, NoScript, Tools
      <4>2. QED
        BY <1>1, <4>1, AfterCrash DEF Runners
    <3>2. script' = [r \in Runners |-> script'[r]]
      BY <1>1 DEF Crash
    <3>3. QED
      BY <3>1, <3>2
  <2>2. NoResults \in [Tools -> {Torn} \cup Results]
    BY DEF NoResults, Results, Unset
  <2>3. /\ pc' = [c \in Clients |-> "idle"] /\ kind' = [c \in Clients |-> "file"]
        /\ path' = [c \in Clients |-> None] /\ tool' = [c \in Clients |-> "yara"]
        /\ todo' = [c \in Clients |-> <<>>] /\ results' = [c \in Clients |-> NoResults]
        /\ pieces' = {} /\ up' = FALSE /\ quickPaths' = <<>> /\ fullPaths' = <<>>
        /\ quiet' = [c \in Clients |-> quiet[c] /\ c \notin Clients]
        /\ UNCHANGED <<world, log, viruses, scans, judged>>
    BY <1>1 DEF Crash, Disturb
  <2>4. \A c \in Clients : pc'[c] = "script" <=> script'[c] # NoScript
    BY <1>1, <2>3, AfterCrash
  <2>5. TypeOK'
    <3>1. <<>> \in Seq(Paths) /\ <<>> \in Seq(Folders)
      OBVIOUS
    <3>2. path' \in [Clients -> Paths \cup {None}] /\ todo' \in [Clients -> Seq(Paths)]
      BY <2>3, <3>1
    <3>3. kind' \in [Clients -> Kinds] /\ tool' \in [Clients -> Tools]
      BY <2>3 DEF Kinds, Tools
    <3>4. results' \in [Clients -> [Tools -> {Torn} \cup Results]]
      BY <2>2, <2>3
    <3>5. quiet' \in [Clients -> BOOLEAN] /\ pieces' \subseteq {c \in Clients : pc'[c] = "read"}
      BY <2>3
    <3>6. pc' \in [Clients -> {"idle", "parse", "join", "call", "next", "script",
                              "read", "reply"}]
      BY <2>3
    <3>7. /\ up' \in BOOLEAN /\ quickPaths' \in Seq(Folders) /\ fullPaths' \in Seq(Folders)
          /\ UNCHANGED <<present, blacklist, changes, log, viruses, scans, judged>>
      BY <2>3, <3>1
    <3>8. QED
      BY <2>1, <2>4, <3>2, <3>3, <3>4, <3>5, <3>6, <3>7
  <2>6. PathsFit'
    BY <2>3
  <2>7. QED
    BY <2>5, <2>6
<1>2. CASE Restart
  BY <1>2 DEF Restart
<1>3. CASE WorldChanges
  BY <1>3 DEF WorldChanges, Disturb
<1>4. CASE NothingAsked \/ UNCHANGED vars
  BY <1>4 DEF NothingAsked, vars
<1>5. QED
  BY <1>1, <1>2, <1>3, <1>4, ClientKeepsTypes, ScriptKeepsTypes DEF Next

\* At the start all is well typed.
LEMMA TypeInvInit == Init => TypeInv
<1> SUFFICES ASSUME Init PROVE TypeInv
  OBVIOUS
<1>1. NoScript \in Scripts /\ NoResults \in [Tools -> {Torn} \cup Results]
  BY DEF NoScript, Scripts, NoResults, Results, Unset, Tools
<1>2. QED
  BY <1>1 DEF Init, TypeInv, TypeOK, PathsFit, Kinds, Tools, Runners

\* Every reachable state is well typed: no script is handed a folder for a
\* file or a file for a folder, whatever crashes and overlaps occur.
THEOREM ScanTypeCorrect == Spec => []TypeOK
<1>1. QED
  BY TypeInvInit, TypeInvInductive, PTL DEF Spec, TypeInv

-----------------------------------------------------------------------------
\* What is on its way to a response or a table was judged: the lines that
\* scripts have still to write, those of any backend, and the logs.
Provenance ==
    /\ \A r \in Runners : \A e \in script[r].lines : <<script[r].tool, e>> \in judged
    /\ \A t \in Tools : log[t] # Torn => \A e \in log[t] : <<t, e>> \in judged
    /\ VerdictsJudged
    /\ VirusesJudged

\* Reading a log, torn or not, adds what was judged, or is known to be torn.
LEMMA ReadKeepsProvenance ==
    ASSUME TypeInv, Provenance, NEW c \in Clients, ReadLog(c)
    PROVE  VerdictsJudged' /\ VirusesJudged'
<1> USE DEF TypeInv, TypeOK, Provenance
<1> DEFINE t == tool[c]
           l == log[t]
<1>1. t \in Tools /\ judged' = judged
  BY DEF ReadLog, Read
<1>2. CASE c \in pieces \/ l = Torn
  <2>1. ReadTorn(c)
    BY <1>2 DEF ReadLog, Read
  <2>2. VerdictsJudged'
    BY <1>1, <2>1 DEF ReadTorn, VerdictsJudged
  <2>3. VirusesJudged'
    BY <1>1, <2>1 DEF ReadTorn, VirusesJudged
  <2>4. QED
    BY <2>2, <2>3
<1>3. CASE ~(c \in pieces \/ l = Torn)
  <2> DEFINE saves == {e \in l : t = "hash" /\ e.verdict \in {"hit"}}
  <2>1. ReadWhole(c, l, saves)
    BY <1>3 DEF ReadLog, Read
  <2>2. l \in SUBSET Entries /\ \A e \in l : <<t, e>> \in judged
    BY <1>1, <1>3
  <2>3. PICK saved \in SUBSET {e.name : e \in saves} : viruses' = viruses \cup saved
    BY <2>1 DEF ReadWhole
  <2>4. PICK s \in IF results[c][t] = Torn THEN {Torn} ELSE Readings(results[c][t], l) :
            results' = [results EXCEPT ![c][t] = s]
    BY <2>1 DEF ReadWhole
  <2>5. ASSUME s # Torn, NEW f \in Files, s[f] # "unset"
        PROVE  <<t, [name |-> f, verdict |-> s[f]]>> \in judged
    <3>1. results[c][t] # Torn /\ s \in Readings(results[c][t], l)
      BY <2>4, <2>5
    <3>2. \/ [name |-> f, verdict |-> s[f]] \in l
          \/ s[f] = results[c][t][f]
      BY <3>1 DEF Readings
    <3>3. QED
      BY <1>1, <2>2, <2>5, <3>1, <3>2 DEF VerdictsJudged
  <2>6. VerdictsJudged'
    <3> SUFFICES ASSUME NEW d \in Clients, NEW u \in Tools, results'[d][u] # Torn,
                        NEW f \in Files, results'[d][u][f] # "unset"
                 PROVE  <<u, [name |-> f, verdict |-> results'[d][u][f]]>> \in judged
      BY <1>1 DEF VerdictsJudged
    <3>1. CASE d = c /\ u = t
      BY <1>1, <2>4, <2>5, <3>1
    <3>2. CASE ~(d = c /\ u = t)
      <4>1. results'[d][u] = results[d][u]
        BY <1>1, <2>4, <3>2
      <4>2. QED
        BY <4>1 DEF VerdictsJudged
    <3>3. QED
      BY <3>1, <3>2
  <2>7. ASSUME NEW f \in saved
        PROVE  <<"hash", [name |-> f, verdict |-> "hit"]>> \in judged
    <3>1. PICK e \in l : t = "hash" /\ e.verdict = "hit" /\ e.name = f
      BY <2>3
    <3>2. e = [name |-> f, verdict |-> "hit"]
      BY <2>2, <3>1 DEF Entries
    <3>3. QED
      BY <2>2, <3>1, <3>2
  <2>8. VirusesJudged'
    BY <1>1, <2>3, <2>7 DEF VirusesJudged
  <2>9. QED
    BY <2>6, <2>8
<1>4. QED
  BY <1>2, <1>3

\* A script writes what it has judged, whoever else has the log open.
LEMMA ScriptKeepsProvenance ==
    ASSUME TypeInv, Provenance, NEW r \in Runners, ScriptStep(r)
    PROVE  Provenance'
<1> USE DEF TypeInv, TypeOK, Provenance, VerdictsJudged, VirusesJudged,
            world, config, request, thread
<1> DEFINE t == script[r].tool
<1>1. /\ t \in Tools /\ script[r].lines \in SUBSET Entries
      /\ \A e \in script[r].lines : <<t, e>> \in judged
  BY DEF Scripts
<1>2. ASSUME NEW hits, JudgeAndOpen(r, hits)
      PROVE  Provenance'
  <2> DEFINE verdicts == Judgement(script[r].listed, hits)
  <2>1. /\ script' = [script EXCEPT ![r] =
                [stage |-> "write", tool |-> t, listed |-> {}, lines |-> verdicts]]
        /\ judged' = judged \cup {<<t, e>> : e \in verdicts}
        /\ log' = [log EXCEPT ![t] = IF Writers(t) = {} THEN {} ELSE Torn]
        /\ UNCHANGED <<viruses, results>>
    BY <1>2 DEF JudgeAndOpen
  <2> HIDE DEF verdicts
  <2>2. \A s \in Runners : \A e \in script'[s].lines : <<script'[s].tool, e>> \in judged'
    BY <2>1
  <2>3. \A u \in Tools : log'[u] # Torn => \A e \in log'[u] : <<u, e>> \in judged'
    BY <1>1, <2>1
  <2>4. VerdictsJudged' /\ VirusesJudged'
    BY <2>1
  <2>5. QED
    BY <2>2, <2>3, <2>4
<1>3. CASE Judge(r) \/ ServerIsWrong(r)
  BY <1>2, <1>3 DEF Judge, ServerIsWrong
<1>4. ASSUME NEW part \in SUBSET script[r].lines, Write(t, part)
      PROVE  \A u \in Tools : log'[u] # Torn => \A e \in log'[u] : <<u, e>> \in judged
  <2>1. \A u \in Tools : log'[u] # Torn =>
            log[u] # Torn /\ (log'[u] = log[u] \/ (u = t /\ log'[u] = log[u] \cup part))
    BY <1>1, <1>4 DEF Write
  <2>2. QED
    BY <1>1, <2>1
<1>5. CASE FlushLog(r)
  <2>1. PICK part \in SUBSET script[r].lines :
            /\ Write(t, part)
            /\ script' = [script EXCEPT ![r].lines = @ \ part]
    BY <1>5 DEF FlushLog
  <2>2. judged' = judged /\ viruses' = viruses /\ results' = results
    BY <1>5 DEF FlushLog
  <2>3. \A s \in Runners : script'[s].tool = script[s].tool
                           /\ script'[s].lines \subseteq script[s].lines
    BY <2>1 DEF Scripts
  <2>4. QED
    BY <1>4, <2>1, <2>2, <2>3
<1>6. ASSUME Ended(r)
      PROVE  /\ \A s \in Runners : \A e \in script'[s].lines :
                    <<script'[s].tool, e>> \in judged'
             /\ VerdictsJudged' /\ VirusesJudged' /\ judged' = judged
  BY <1>6 DEF Ended, NoScript
<1>7. CASE CloseLog(r)
  BY <1>4, <1>6, <1>7 DEF CloseLog
<1>8. CASE ScriptFails(r)
  BY <1>6, <1>8 DEF ScriptFails
<1>9. QED
  BY <1>3, <1>5, <1>7, <1>8 DEF ScriptStep

\* Every step keeps it.
LEMMA ProvenanceInductive == TypeInv /\ Provenance /\ [Next]_vars => Provenance'
<1> SUFFICES ASSUME TypeInv, Provenance, [Next]_vars PROVE Provenance'
  OBVIOUS
<1> USE DEF TypeInv, TypeOK, Provenance, VerdictsJudged, VirusesJudged, Goto,
            world, config, request, thread
<1>1. ASSUME NEW c \in Clients, ClientStep(c)
      PROVE  Provenance'
  <2>1. CASE Request(c) \/ ParseConfig(c) \/ JoinQuick(c) \/ CallYaraScan(c)
             \/ CallHashScan(c) \/ EndOfHashScan(c)
    BY <2>1 DEF Request, ParseConfig, JoinQuick, CallYaraScan, CallHashScan,
                EndOfHashScan
  <2>2. CASE RunScript(c)
    BY <2>2 DEF RunScript
  <2>3. CASE ReadLog(c)
    BY <2>3, ReadKeepsProvenance DEF ReadLog, Read
  <2>4. CASE Reply(c)
    BY <2>4 DEF Reply, NoResults, Unset
  <2>5. QED
    BY <1>1, <2>1, <2>2, <2>3, <2>4 DEF ClientStep
<1>2. CASE Crash
  <2>1. \A r \in Runners : \/ script'[r] = NoScript
                           \/ \E s \in Runners : script'[r] = script[s]
    BY <1>2, AfterCrash DEF Runners
  <2>2. UNCHANGED <<log, viruses, judged>> /\ results' = [c \in Clients |-> NoResults]
    BY <1>2 DEF Crash
  <2>3. \A r \in Runners : \A e \in script'[r].lines : <<script'[r].tool, e>> \in judged'
    <3>1. NoScript.lines = {}
      BY DEF NoScript
    <3>2. QED
      BY <2>1, <2>2, <3>1
  <2>4. VerdictsJudged'
    BY <2>2 DEF NoResults, Unset
  <2>5. QED
    BY <2>2, <2>3, <2>4
<1>3. CASE Restart
  BY <1>3 DEF Restart
<1>4. CASE WorldChanges
  BY <1>4 DEF WorldChanges
<1>5. CASE NothingAsked \/ UNCHANGED vars
  BY <1>5 DEF NothingAsked, vars
<1>6. QED
  BY <1>1, <1>2, <1>3, <1>4, <1>5, ScriptKeepsProvenance DEF Next

\* It holds in every reachable state.
LEMMA ProvenanceHolds == Spec => [](TypeInv /\ Provenance)
<1>1. Init => Provenance
  BY DEF Init, Tools, NoResults, NoScript, Unset, Provenance, VerdictsJudged,
         VirusesJudged
<1>2. QED
  BY <1>1, TypeInvInit, TypeInvInductive, ProvenanceInductive, PTL DEF Spec

\* Whatever overlaps, fails or crashes, and whatever answers the server gives,
\* a verdict in a response was come to by a script of that kind for that file,
\* unless the scan has read a torn log.
THEOREM VerdictsAreJudged == Spec => []VerdictsJudged
BY ProvenanceHolds, PTL DEF Provenance

\* And a file in the table of viruses, but out of a torn log, was called
\* malicious by the server.
THEOREM VirusesAreJudged == Spec => []VirusesJudged
BY ProvenanceHolds, PTL DEF Provenance

-----------------------------------------------------------------------------
(* A quiet scan.                                                           *)

Right(c, t, f, v) ==
    /\ f \in AskedFiles(c)
    /\ v = IF f \in Hits(t) THEN "hit" ELSE "clean"
    /\ t = "hash" => f \in present

\* Has the script of thread c begun to write its log, or ended?
Written(c) == pc[c] = "read" \/ script[c].stage = "write"

\* All that a scan has read is right, and what it has not read yet is ahead:
\* in a path to come, in what the script has listed, in the lines it has still
\* to write, in the log.
SoFarRight(c) ==
    \A t \in Tools : /\ results[c][t] # Torn
                     /\ \A f \in Files : results[c][t][f] # "unset" =>
                            Right(c, t, f, results[c][t][f])

Complete(c, t) == \A f \in AskedFiles(c) : results[c][t][f] # "unset"

Ahead(c, f) ==
    \/ \E i \in DOMAIN todo[c] : f \in Listing(kind[c], todo[c][i])
    \/ script[c].stage = "judge" /\ f \in script[c].listed
    \/ script[c].stage = "write" /\ \E e \in script[c].lines : e.name = f
    \/ Written(c) /\ \E e \in log[tool[c]] : e.name = f

InHand(c) ==
    /\ \A i \in DOMAIN todo[c] : todo[c][i] \in AskedPaths(c)
    /\ script[c].stage # "none" => script[c].tool = tool[c]
    /\ script[c].stage = "judge" => script[c].listed \subseteq AskedFiles(c)
    /\ script[c].stage = "write" =>
            \A e \in script[c].lines : Right(c, tool[c], e.name, e.verdict)
    /\ Written(c) => /\ log[tool[c]] # Torn
                     /\ \A e \in log[tool[c]] : Right(c, tool[c], e.name, e.verdict)

Stage(c) ==
    CASE pc[c] = "parse" -> tool[c] = "yara" /\ results[c] = NoResults
      [] pc[c] = "join"  -> /\ tool[c] = "yara" /\ results[c] = NoResults
                            /\ quickPaths = Quick /\ fullPaths = Full
      [] pc[c] = "call"  -> /\ tool[c] = "yara" /\ results[c] = NoResults
                            /\ quickPaths = Quick /\ fullPaths = Full \o Quick
      [] pc[c] = "reply" -> Complete(c, "yara") /\ Complete(c, "hash")
      [] OTHER -> /\ quickPaths = Quick /\ fullPaths = Full \o Quick
                  /\ tool[c] = "hash" => Complete(c, "yara")
                  /\ tool[c] = "yara" => results[c]["hash"] = Unset
                  /\ \A f \in AskedFiles(c) :
                        results[c][tool[c]][f] # "unset" \/ Ahead(c, f)

\* No other thread and no script left behind can touch the logs.
Alone(c) ==
    /\ up /\ pc[c] # "idle" /\ c \notin pieces
    /\ \A d \in Clients \ {c} : pc[d] = "idle"
    /\ \A r \in Strays : script[r] = NoScript

Quiet(c) == Alone(c) /\ SoFarRight(c) /\ InHand(c) /\ Stage(c)

\* Between scans nothing is left over from the last one.
IdleClean ==
    \A c \in Clients :
        /\ pc[c] = "idle" => results[c] = NoResults
        /\ pc[c] \in {"idle", "parse", "join", "call", "reply"} => tool[c] = "yara"

QuietInv == IdleClean /\ \A c \in Clients : quiet[c] => Quiet(c)

\* The paths in two vectors joined.
LEMMA PathsInJoined ==
    ASSUME NEW S, NEW s \in Seq(S), NEW t \in Seq(S)
    PROVE  PathsIn(s \o t) = PathsIn(s) \cup PathsIn(t)
<1>1. ASSUME NEW i \in DOMAIN (s \o t)
      PROVE  (s \o t)[i] \in PathsIn(s) \cup PathsIn(t)
  <2>1. CASE i =< Len(s)
    BY <2>1 DEF PathsIn
  <2>2. CASE i > Len(s)
    <3>1. i - Len(s) \in DOMAIN t /\ (s \o t)[i] = t[i - Len(s)]
      BY <2>2
    <3>2. QED
      BY <3>1 DEF PathsIn
  <2>3. QED
    BY <2>1, <2>2
<1>2. ASSUME NEW i \in DOMAIN s
      PROVE  s[i] \in PathsIn(s \o t)
  <2>1. i \in DOMAIN (s \o t) /\ (s \o t)[i] = s[i]
    OBVIOUS
  <2>2. QED
    BY <2>1 DEF PathsIn
<1>3. ASSUME NEW i \in DOMAIN t
      PROVE  t[i] \in PathsIn(s \o t)
  <2>1. i + Len(s) \in DOMAIN (s \o t) /\ (s \o t)[i + Len(s)] = t[i]
    OBVIOUS
  <2>2. QED
    BY <2>1 DEF PathsIn
<1>4. QED
  BY <1>1, <1>2, <1>3 DEF PathsIn

\* With the vectors parsed, a scanner is called with the paths asked for.
LEMMA VectorIsAsked ==
    ASSUME TypeInv, NEW c \in Clients, quickPaths = Quick, fullPaths = Full \o Quick
    PROVE  PathsIn(Vector(c)) = AskedPaths(c)
<1>1. PathsIn(Full \o Quick) = PathsIn(Full) \cup PathsIn(Quick)
  BY PathsInJoined, FoldersAssumption
<1>2. PathsIn(<<path[c]>>) = {path[c]}
  BY DEF PathsIn
<1>3. QED
  BY <1>1, <1>2 DEF Vector, AskedPaths

\* So every file asked for is ahead then.
LEMMA AllAhead ==
    ASSUME TypeInv, NEW c \in Clients, quickPaths = Quick, fullPaths = Full \o Quick,
           NEW f \in AskedFiles(c)
    PROVE  \E i \in DOMAIN Vector(c) : f \in Listing(kind[c], Vector(c)[i])
<1>1. PICK p \in AskedPaths(c) : f \in Listing(kind[c], p)
  BY DEF AskedFiles
<1>2. PICK i \in DOMAIN Vector(c) : p = Vector(c)[i]
  BY VectorIsAsked DEF PathsIn
<1>3. QED
  BY <1>1, <1>2

\* Nothing is left over after a scan or a crash.
LEMMA IdleCleanInductive == TypeInv /\ IdleClean /\ [Next]_vars => IdleClean'
<1> SUFFICES ASSUME TypeInv, IdleClean, [Next]_vars PROVE IdleClean'
  OBVIOUS
<1> USE DEF TypeInv, TypeOK, IdleClean, Goto, world, config, request, thread
<1>1. ASSUME NEW c \in Clients, ClientStep(c)
      PROVE  IdleClean'
  <2>1. CASE Request(c) \/ ParseConfig(c) \/ JoinQuick(c) \/ CallYaraScan(c)
             \/ RunScript(c)
    BY <2>1 DEF Request, ParseConfig, JoinQuick, CallYaraScan, RunScript
  <2>2. CASE ReadLog(c)
    <3>1. /\ pc[c] = "read" /\ pc' = [pc EXCEPT ![c] = "next"] /\ tool' = tool
          /\ \A d \in Clients \ {c} : results'[d] = results[d]
      BY <2>2 DEF ReadLog, Read, ReadTorn, ReadWhole
    <3>2. QED
      BY <3>1
  <2>3. CASE CallHashScan(c) \/ EndOfHashScan(c) \/ Reply(c)
    BY <2>3 DEF CallHashScan, EndOfHashScan, Reply
  <2>4. QED
    BY <1>1, <2>1, <2>2, <2>3 DEF ClientStep
<1>2. ASSUME NEW r \in Runners, ScriptStep(r)
      PROVE  IdleClean'
  <2>1. UNCHANGED thread /\ \A c \in Clients : pc'[c] \in {"read", pc[c]}
    BY <1>2 DEF ScriptStep, Judge, ServerIsWrong, JudgeAndOpen, FlushLog, CloseLog,
                ScriptFails, Ended
  <2>2. QED
    BY <2>1
<1>3. CASE Crash
  BY <1>3 DEF Crash
<1>4. CASE Restart \/ WorldChanges \/ NothingAsked \/ UNCHANGED vars
  BY <1>4 DEF Restart, WorldChanges, NothingAsked, vars
<1>5. QED
  BY <1>1, <1>2, <1>3, <1>4 DEF Next

\* A step that leaves the request and the world alone leaves alone what is
\* asked and what is right.
LEMMA SameQuestion ==
    ASSUME NEW c, kind' = kind, path' = path, UNCHANGED world
    PROVE  /\ AskedPaths(c)' = AskedPaths(c)
           /\ AskedFiles(c)' = AskedFiles(c)
           /\ \A t, f, v : Right(c, t, f, v)' <=> Right(c, t, f, v)
           /\ \A p : Listing(kind[c], p)' = Listing(kind[c], p)
<1>1. AskedPaths(c)' = AskedPaths(c)
  BY DEF AskedPaths
<1>2. \A p : Listing(kind[c], p)' = Listing(kind[c], p)
  BY DEF Listing, world
<1>3. AskedFiles(c)' = AskedFiles(c)
  BY <1>1, <1>2 DEF AskedFiles
<1>4. \A t, f, v : Right(c, t, f, v)' <=> Right(c, t, f, v)
  BY <1>3 DEF Right, Hits, world
<1>5. QED
  BY <1>1, <1>2, <1>3, <1>4

\* A scan that is alone has the only script.
LEMMA AloneRunsOne ==
    ASSUME TypeInv, NEW c \in Clients, Alone(c), NEW r \in Runners, r # c
    PROVE  script[r] = NoScript
BY DEF TypeInv, TypeOK, Alone, Runners

\* A thread that waits for no script has none.
LEMMA NoneRuns ==
    ASSUME TypeInv, NEW c \in Clients, pc[c] # "script"
    PROVE  script[c].stage = "none"
<1>1. script[c] = NoScript
  BY DEF TypeInv, TypeOK
<1>2. NoScript.stage = "none"
  BY DEF NoScript
<1>3. QED
  BY <1>1, <1>2

\* The steps of a quiet scan, one by one.  It begins.
LEMMA QuietRequest ==
    ASSUME TypeInv, IdleClean, NEW c \in Clients, NEW d \in Clients, Request(d), quiet'[c]
    PROVE  Quiet(c)'
<1> USE DEF TypeInv, TypeOK, Goto, world, config, thread
<1>1. /\ c = d /\ \A e \in Clients \ {c} : pc[e] = "idle"
      /\ \A r \in Strays : script[r] = NoScript
  BY DEF Request
<1>2. pc' = [pc EXCEPT ![c] = "parse"] /\ pc[c] = "idle" /\ up' /\ script' = script
  BY <1>1 DEF Request
<1>3. results'[c] = NoResults /\ tool'[c] = "yara" /\ todo'[c] = <<>>
  BY <1>1, <1>2 DEF Request, IdleClean, PathsFit
<1>4. c \notin pieces'
  BY <1>1, <1>2 DEF Request
<1>5. SoFarRight(c)'
  <2>1. \A t \in Tools : results'[c][t] = Unset
    BY <1>3 DEF NoResults
  <2>2. Unset # Torn /\ \A f \in Files : Unset[f] = "unset"
    BY TornAssumption DEF Unset, Results
  <2>3. QED
    BY <2>1, <2>2 DEF SoFarRight
<1>6. script'[c].stage = "none"
  BY <1>2, NoneRuns
<1>7. InHand(c)' /\ Stage(c)'
  BY <1>2, <1>3, <1>6 DEF InHand, Stage, Written
<1>8. QED
  BY <1>1, <1>2, <1>4, <1>5, <1>7 DEF Quiet, Alone

\* The vectors are read again.
LEMMA QuietParse ==
    ASSUME TypeInv, NEW c \in Clients, Quiet(c), ParseConfig(c) \/ JoinQuick(c)
    PROVE  Quiet(c)'
<1> USE DEF TypeInv, TypeOK, Goto, request, config, thread
<1>1. UNCHANGED <<up, world, kind, path, tool, todo, results, script, pieces>>
  BY DEF ParseConfig, JoinQuick
<1>2. todo[c] = <<>> /\ script[c].stage = "none" /\ pc'[c] \in {"join", "call"}
  BY NoneRuns DEF ParseConfig, JoinQuick, PathsFit
<1>3. SoFarRight(c)'
  BY <1>1, SameQuestion DEF Quiet, SoFarRight
<1>4. InHand(c)'
  BY <1>1, <1>2 DEF InHand, Written
<1>5. Stage(c)'
  <2>1. CASE ParseConfig(c)
    BY <1>1, <2>1 DEF ParseConfig, Stage, Quiet
  <2>2. CASE JoinQuick(c)
    BY <1>1, <2>2 DEF JoinQuick, Stage, Quiet
  <2>3. QED
    BY <2>1, <2>2
<1>6. Alone(c)'
  BY <1>1 DEF ParseConfig, JoinQuick, Quiet, Alone
<1>7. QED
  BY <1>3, <1>4, <1>5, <1>6 DEF Quiet

\* A scanner is called, and every file asked for is ahead of it.
LEMMA QuietCall ==
    ASSUME TypeInv, NEW c \in Clients, Quiet(c), CallYaraScan(c) \/ CallHashScan(c)
    PROVE  Quiet(c)'
<1> USE DEF TypeInv, TypeOK, Goto, request, config, thread
<1>1. UNCHANGED <<up, world, config, kind, path, results, script, pieces>>
  BY DEF CallYaraScan, CallHashScan
<1>2. quickPaths = Quick /\ fullPaths = Full \o Quick
  BY DEF CallYaraScan, CallHashScan, Quiet, Stage
<1>3. /\ todo'[c] = Vector(c) /\ pc' = [pc EXCEPT ![c] = "next"]
      /\ script[c].stage = "none" /\ pc[c] \in {"call", "next"}
  BY NoneRuns DEF CallYaraScan, CallHashScan
<1>4. SoFarRight(c)'
  BY <1>1, SameQuestion DEF Quiet, SoFarRight
<1>5. InHand(c)'
  BY <1>1, <1>2, <1>3, VectorIsAsked, SameQuestion DEF InHand, PathsIn, Written
<1>6. ASSUME NEW f \in AskedFiles(c)' PROVE Ahead(c, f)'
  <2>1. PICK i \in DOMAIN Vector(c) : f \in Listing(kind[c], Vector(c)[i])
    BY <1>1, <1>2, <1>6, AllAhead, SameQuestion
  <2>2. QED
    BY <1>1, <1>3, <2>1 DEF Ahead, Listing, world
<1>7. Stage(c)'
  <2>1. CASE CallYaraScan(c)
    <3>1. tool'[c] = "yara" /\ results'[c]["hash"] = Unset
      BY <2>1 DEF CallYaraScan, Quiet, Stage, Tools, NoResults
    <3>2. QED
      BY <1>1, <1>2, <1>3, <1>6, <3>1 DEF Stage
  <2>2. CASE CallHashScan(c)
    <3>1. ASSUME NEW f \in AskedFiles(c) PROVE results[c]["yara"][f] # "unset"
      BY <1>3, <2>2, <3>1 DEF CallHashScan, Quiet, Stage, Ahead, Written
    <3>2. Complete(c, "yara")'
      BY <1>1, <3>1, SameQuestion DEF Complete
    <3>3. tool'[c] = "hash"
      BY <2>2 DEF CallHashScan
    <3>4. QED
      BY <1>1, <1>2, <1>3, <1>6, <3>2, <3>3 DEF Stage
  <2>3. QED
    BY <2>1, <2>2
<1>8. QED
  BY <1>1, <1>3, <1>4, <1>5, <1>7 DEF Quiet, Alone

\* A script starts: the files of its path pass from the vector to its list.
LEMMA QuietRunScript ==
    ASSUME TypeInv, NEW c \in Clients, Quiet(c), RunScript(c)
    PROVE  Quiet(c)'
<1> USE DEF TypeInv, TypeOK, Goto, request, config, thread
<1>1. UNCHANGED <<up, world, config, kind, path, tool, log, results, pieces>>
  BY DEF RunScript
<1>2. /\ todo[c] \in Seq(Paths) /\ todo[c] # <<>>
      /\ todo'[c] = Tail(todo[c])
      /\ pc[c] = "next" /\ pc' = [pc EXCEPT ![c] = "script"]
  BY DEF RunScript
<1>3. /\ script'[c] = [stage |-> "judge", tool |-> tool[c],
                       listed |-> Listing(kind[c], Head(todo[c])), lines |-> {}]
      /\ \A r \in Runners \ {c} : script'[r] = script[r]
  BY DEF RunScript, Runners
<1>4. SoFarRight(c)'
  BY <1>1, SameQuestion DEF Quiet, SoFarRight
<1>5. /\ 1 \in DOMAIN todo[c] /\ Head(todo[c]) = todo[c][1]
      /\ \A i \in DOMAIN todo'[c] : i + 1 \in DOMAIN todo[c] /\ todo'[c][i] = todo[c][i + 1]
  BY <1>2
<1>6. Head(todo[c]) \in AskedPaths(c)
  BY <1>5 DEF Quiet, InHand
<1>7. InHand(c)'
  <2>1. Listing(kind[c], Head(todo[c])) \subseteq AskedFiles(c)
    BY <1>6 DEF AskedFiles
  <2>2. \A i \in DOMAIN todo'[c] : todo'[c][i] \in AskedPaths(c)
    BY <1>5 DEF Quiet, InHand
  <2>3. QED
    BY <1>1, <1>2, <1>3, <2>1, <2>2, SameQuestion DEF InHand, Written
<1>8. ASSUME NEW f \in AskedFiles(c), results[c][tool[c]][f] = "unset"
      PROVE  Ahead(c, f)'
  <2>1. PICK i \in DOMAIN todo[c] : f \in Listing(kind[c], todo[c][i])
    <3>1. script[c].stage = "none" /\ ~Written(c)
      BY <1>2, NoneRuns DEF Written
    <3>2. QED
      BY <1>2, <1>8, <3>1 DEF Quiet, Stage, Ahead
  <2>2. CASE i = 1
    BY <1>3, <1>5, <2>1, <2>2 DEF Ahead
  <2>3. CASE i # 1
    <3>1. i - 1 \in DOMAIN todo'[c] /\ todo'[c][i - 1] = todo[c][i]
      <4>1. i \in 2 .. Len(todo[c]) /\ Len(todo'[c]) = Len(todo[c]) - 1
        BY <1>2, <2>1, <2>3
      <4>2. QED
        BY <1>2, <4>1
    <3>2. QED
      BY <1>1, <2>1, <3>1 DEF Ahead, Listing, world
  <2>4. QED
    BY <2>2, <2>3
<1>9. Stage(c)'
  BY <1>1, <1>2, <1>8, SameQuestion DEF Quiet, Stage, Complete
<1>10. Alone(c)'
  BY <1>1, <1>2, <1>3, StraysAssumption DEF Quiet, Alone, Runners
<1>11. QED
  BY <1>4, <1>7, <1>9, <1>10 DEF Quiet

\* It judges them, rightly: they pass to its lines, and the log is empty.
LEMMA QuietJudge ==
    ASSUME TypeInv, NEW c \in Clients, Quiet(c), Judge(c)
    PROVE  Quiet(c)'
<1> USE DEF TypeInv, TypeOK, request, config, thread
<1> DEFINE s == script[c]
           t == tool[c]
           verdicts == Judgement(s.listed, Hits(t))
<1>1. c \in Runners /\ t \in Tools /\ s.stage = "judge" /\ s.tool = t
  BY DEF Judge, JudgeAndOpen, Quiet, InHand, Runners
<1>2. /\ UNCHANGED <<up, world, config, kind, path, tool, todo, results, pc>>
      /\ script' = [script EXCEPT ![c] =
             [stage |-> "write", tool |-> t, listed |-> {}, lines |-> verdicts]]
      /\ log' = [log EXCEPT ![t] = IF Writers(t) = {} THEN {} ELSE Torn]
      /\ pieces' = pieces \cup Readers(t)
      /\ t = "hash" => s.listed \subseteq present
  BY <1>1 DEF Judge, JudgeAndOpen, world
<1>3. /\ script'[c].stage = "write" /\ script'[c].tool = t
      /\ script'[c].lines = verdicts
      /\ \A r \in Runners \ {c} : script'[r] = script[r]
  BY <1>1, <1>2
<1>4. pc[c] = "script"
  BY <1>1, ClientWaits
<1>5. Writers(t) = {} /\ Readers(t) = {}
  <2>1. NoScript.stage = "none"
    BY DEF NoScript
  <2>2. \A r \in Runners : script[r].stage # "write"
    BY <1>1, <2>1, AloneRunsOne DEF Quiet
  <2>3. \A d \in Clients : pc[d] # "read"
    BY <1>4 DEF Quiet, Alone
  <2>4. QED
    BY <2>2, <2>3 DEF Writers, Readers
<1>6. log'[t] = {} /\ pieces' = pieces
  BY <1>1, <1>2, <1>5
<1>7. Alone(c)'
  BY <1>2, <1>3, <1>6, StraysAssumption DEF Quiet, Alone, Runners
<1>8. SoFarRight(c)'
  BY <1>2, SameQuestion DEF Quiet, SoFarRight
<1>9. ASSUME NEW e \in verdicts PROVE Right(c, t, e.name, e.verdict)
  <2>1. s.listed \subseteq AskedFiles(c)
    BY <1>1 DEF Quiet, InHand
  <2>2. e.name \in s.listed
        /\ e.verdict = IF e.name \in Hits(t) THEN "hit" ELSE "clean"
    BY <1>9 DEF Judgement
  <2>3. QED
    BY <1>2, <2>1, <2>2 DEF Right
<1>10. InHand(c)'
  <2>1. log'[t] # Torn
    BY <1>6, TornAssumption
  <2>2. \A i \in DOMAIN todo[c] : todo[c][i] \in AskedPaths(c)
    BY DEF Quiet, InHand
  <2> HIDE DEF verdicts
  <2>3. QED
    BY <1>2, <1>3, <1>6, <1>9, <2>1, <2>2, SameQuestion DEF InHand
<1>11. ASSUME NEW f \in AskedFiles(c), results[c][t][f] = "unset"
       PROVE  Ahead(c, f)'
  <2>1. CASE f \in s.listed
    <3>1. [name |-> f, verdict |-> IF f \in Hits(t) THEN "hit" ELSE "clean"] \in verdicts
      BY <2>1 DEF Judgement
    <3>2. \E e \in verdicts : e.name = f
      BY <3>1
    <3> HIDE DEF verdicts
    <3>3. QED
      BY <1>3, <3>2 DEF Ahead
  <2>2. CASE \E i \in DOMAIN todo[c] : f \in Listing(kind[c], todo[c][i])
    BY <1>2, <2>2 DEF Ahead, Listing, world
  <2>3. QED
    BY <1>1, <1>4, <1>11, <2>1, <2>2 DEF Quiet, Stage, Ahead, Written
<1>12. Stage(c)'
  <2>1. /\ quickPaths = Quick /\ fullPaths = Full \o Quick
        /\ t = "hash" => Complete(c, "yara")
        /\ t = "yara" => results[c]["hash"] = Unset
    BY <1>4 DEF Quiet, Stage
  <2>2. QED
    BY <1>2, <1>4, <1>11, <2>1, SameQuestion DEF Stage, Complete
<1>13. QED
  BY <1>7, <1>8, <1>10, <1>12 DEF Quiet

\* Its lines pass to the log, some now and the rest at the end; nothing else
\* gets into it.
LEMMA QuietWrites ==
    ASSUME TypeInv, NEW c \in Clients, Quiet(c), NEW part, part \subseteq script[c].lines,
           script[c].stage = "write", Write(script[c].tool, part),
           UNCHANGED <<up, world, config, kind, path, tool, todo, results, pieces>>,
           \A r \in Runners \ {c} : script'[r] = script[r],
           \A d \in Clients \ {c} : pc'[d] = pc[d],
           \/ /\ script'[c].stage = "write" /\ script'[c].tool = script[c].tool
              /\ script'[c].lines = script[c].lines \ part /\ pc'[c] = "script"
           \/ script'[c].stage = "none" /\ part = script[c].lines /\ pc'[c] = "read"
    PROVE  Quiet(c)'
<1> USE DEF TypeInv, TypeOK, config
<1> DEFINE s == script[c]
           t == tool[c]
<1>1. t \in Tools /\ s.tool = t /\ pc[c] = "script" /\ Written(c)
  BY ClientWaits DEF Quiet, InHand, Written
<1>2. log[t] # Torn /\ log'[t] = log[t] \cup part /\ Written(c)'
  BY <1>1 DEF Quiet, InHand, Write, Written
<1>3. s.lines \in SUBSET Entries /\ log'[t] \in SUBSET Entries
  <2>1. s \in Scripts
    BY DEF Runners
  <2>2. QED
    BY <1>1, <1>2, <2>1 DEF Scripts
<1>4. Alone(c)'
  BY StraysAssumption DEF Quiet, Alone, Runners
<1>5. SoFarRight(c)'
  BY SameQuestion DEF Quiet, SoFarRight
<1>6. \A e \in s.lines \cup log'[t] : Right(c, t, e.name, e.verdict)
  BY <1>1, <1>2 DEF Quiet, InHand
<1>7. InHand(c)'
  <2>1. log'[t] # Torn
    BY <1>3, TornAssumption
  <2>2. \A i \in DOMAIN todo[c] : todo[c][i] \in AskedPaths(c)
    BY DEF Quiet, InHand
  <2>3. QED
    BY <1>1, <1>6, <2>1, <2>2, SameQuestion DEF InHand
<1>8. ASSUME NEW f \in AskedFiles(c), results[c][t][f] = "unset"
      PROVE  Ahead(c, f)'
  <2>1. CASE \E i \in DOMAIN todo[c] : f \in Listing(kind[c], todo[c][i])
    BY <2>1 DEF Ahead, Listing, world
  <2>2. CASE \E e \in s.lines \cup log[t] : e.name = f
    <3>1. PICK e \in s.lines \cup log[t] : e.name = f
      BY <2>2
    <3>2. e \in log'[t] \/ (script'[c].stage = "write" /\ e \in script'[c].lines)
      BY <1>2, <3>1
    <3>3. QED
      BY <1>2, <3>1, <3>2 DEF Ahead
  <2>3. QED
    <3>1. Ahead(c, f)
      BY <1>1, <1>8 DEF Quiet, Stage
    <3>2. QED
      BY <2>1, <2>2, <3>1 DEF Ahead
<1>9. Stage(c)'
  <2>1. /\ quickPaths = Quick /\ fullPaths = Full \o Quick
        /\ t = "hash" => Complete(c, "yara")
        /\ t = "yara" => results[c]["hash"] = Unset
    BY <1>1 DEF Quiet, Stage
  <2>2. pc'[c] \in {"script", "read"}
    OBVIOUS
  <2>3. QED
    BY <1>8, <2>1, <2>2, SameQuestion DEF Stage, Complete
<1>10. QED
  BY <1>4, <1>5, <1>7, <1>9 DEF Quiet

\* A part of the lines is written.
LEMMA QuietFlushLog ==
    ASSUME TypeInv, NEW c \in Clients, Quiet(c), FlushLog(c)
    PROVE  Quiet(c)'
<1> USE DEF TypeInv, TypeOK, config, request, thread
<1>1. PICK part \in SUBSET script[c].lines :
          /\ Write(script[c].tool, part)
          /\ script' = [script EXCEPT ![c].lines = @ \ part]
  BY DEF FlushLog
<1>2. c \in Runners /\ script[c] \in Scripts
  BY DEF Runners
<1>3. script[c].stage = "write" /\ pc[c] = "script"
  BY ClientWaits DEF FlushLog
<1>4. /\ script'[c].stage = "write" /\ script'[c].tool = script[c].tool
      /\ script'[c].lines = script[c].lines \ part
      /\ \A r \in Runners \ {c} : script'[r] = script[r]
  BY <1>1, <1>2, <1>3 DEF Scripts
<1>5. UNCHANGED <<up, world, config, kind, path, tool, todo, results, pieces, pc>>
  BY DEF FlushLog
<1>6. QED
  BY <1>1, <1>3, <1>4, <1>5, QuietWrites

\* The script writes the rest and ends.
LEMMA QuietCloseLog ==
    ASSUME TypeInv, NEW c \in Clients, Quiet(c), CloseLog(c)
    PROVE  Quiet(c)'
<1> USE DEF TypeInv, TypeOK, config, request, thread
<1>1. NoScript.stage = "none"
  BY DEF NoScript
<1>2. /\ script'[c].stage = "none" /\ \A r \in Runners \ {c} : script'[r] = script[r]
      /\ pc'[c] = "read" /\ \A d \in Clients \ {c} : pc'[d] = pc[d]
  BY <1>1 DEF CloseLog, Ended, Runners
<1>3. UNCHANGED <<up, world, config, kind, path, tool, todo, results, pieces>>
  BY DEF CloseLog, Ended
<1>4. script[c].stage = "write" /\ Write(script[c].tool, script[c].lines)
  BY DEF CloseLog
<1>5. QED
  BY <1>2, <1>3, <1>4, QuietWrites

\* The log is read: what it says of them is in the response.
LEMMA QuietReadLog ==
    ASSUME TypeInv, NEW c \in Clients, Quiet(c), ReadLog(c)
    PROVE  Quiet(c)'
<1> USE DEF TypeInv, TypeOK, Goto, request, config, thread
<1> DEFINE t == tool[c]
           l == log[t]
<1>1. /\ UNCHANGED <<up, world, config, kind, path, tool, todo, log, script>>
      /\ pieces' = pieces \ {c} /\ t \in Tools
  BY DEF ReadLog, Read
<1>2. /\ pc[c] = "read" /\ pc' = [pc EXCEPT ![c] = "next"]
      /\ script[c].stage = "none"
  BY NoneRuns DEF ReadLog, Read
<1>3. l # Torn /\ l \in SUBSET Entries /\ c \notin pieces /\ results[c][t] # Torn
  BY <1>1, <1>2 DEF Quiet, Alone, InHand, SoFarRight, Written
<1>4. PICK r \in Readings(results[c][t], l) : results' = [results EXCEPT ![c][t] = r]
  BY <1>3 DEF ReadLog, Read, ReadWhole
<1>5. /\ results'[c][t] = r /\ r \in Results
      /\ \A u \in Tools \ {t} : results'[c][u] = results[c][u]
  BY <1>1, <1>4 DEF Readings
<1>6. \A f \in Files : IF \E e \in l : e.name = f THEN [name |-> f, verdict |-> r[f]] \in l
                                                 ELSE r[f] = results[c][t][f]
  BY DEF Readings
<1>7. ASSUME NEW f \in Files, r[f] # "unset"
      PROVE  Right(c, t, f, r[f])
  <2>1. CASE \E e \in l : e.name = f
    <3>1. Written(c)
      BY <1>2 DEF Written
    <3>2. \A e \in l : Right(c, t, e.name, e.verdict)
      BY <3>1 DEF Quiet, InHand
    <3> DEFINE e == [name |-> f, verdict |-> r[f]]
    <3>3. Right(c, t, e.name, e.verdict)
      BY <1>6, <2>1, <3>2
    <3>4. QED
      BY <3>3
  <2>2. CASE ~\E e \in l : e.name = f
    BY <1>1, <1>6, <1>7, <2>2 DEF Quiet, SoFarRight
  <2>3. QED
    BY <2>1, <2>2
<1>8. SoFarRight(c)'
  <2> SUFFICES ASSUME NEW u \in Tools
               PROVE  /\ results'[c][u] # Torn
                      /\ \A f \in Files : results'[c][u][f] # "unset" =>
                             Right(c, u, f, results'[c][u][f])
    BY <1>1, SameQuestion DEF SoFarRight
  <2>1. CASE u = t
    BY <1>5, <1>7, <2>1, TornAssumption
  <2>2. CASE u # t
    BY <1>5, <2>2 DEF Quiet, SoFarRight
  <2>3. QED
    BY <2>1, <2>2
<1>9. InHand(c)'
  BY <1>1, <1>2, SameQuestion DEF Quiet, InHand, Written
<1>10. ASSUME NEW f \in AskedFiles(c), f \in Files, r[f] = "unset"
       PROVE  Ahead(c, f)'
  <2>1. ~\E e \in l : e.name = f
    <3>1. [name |-> f, verdict |-> r[f]] \notin Entries
      BY <1>10 DEF Entries, Verdicts
    <3>2. QED
      BY <1>3, <1>6, <1>10, <3>1
  <2>2. results[c][t][f] = "unset"
    BY <1>6, <1>10, <2>1
  <2>3. PICK i \in DOMAIN todo[c] : f \in Listing(kind[c], todo[c][i])
    BY <1>2, <2>1, <2>2 DEF Quiet, Stage, Ahead
  <2>4. QED
    BY <1>1, <2>3 DEF Ahead, Listing, world
<1>11. AskedFiles(c) \subseteq Files
  BY AskedAreFiles DEF Quiet, Alone
<1>12. Stage(c)'
  <2>1. /\ quickPaths = Quick /\ fullPaths = Full \o Quick
        /\ t = "hash" => Complete(c, "yara")
        /\ t = "yara" => results[c]["hash"] = Unset
    BY <1>2 DEF Quiet, Stage
  <2>2. t = "hash" => Complete(c, "yara")'
    BY <1>1, <1>5, <2>1, SameQuestion DEF Complete, Tools
  <2>3. t = "yara" => results'[c]["hash"] = Unset
    BY <1>5, <2>1 DEF Tools
  <2>4. \A f \in AskedFiles(c) : results'[c][t][f] # "unset" \/ Ahead(c, f)'
    BY <1>5, <1>10, <1>11
  <2>5. QED
    BY <1>1, <1>2, <2>1, <2>2, <2>3, <2>4, SameQuestion DEF Stage
<1>13. QED
  BY <1>1, <1>2, <1>8, <1>9, <1>12 DEF Quiet, Alone

\* hashScan returns: nothing is ahead any more.
LEMMA QuietEndOfHashScan ==
    ASSUME TypeInv, NEW c \in Clients, Quiet(c), EndOfHashScan(c)
    PROVE  Quiet(c)'
<1> USE DEF TypeInv, TypeOK, Goto, request, config, thread
<1>1. UNCHANGED <<up, world, config, kind, path, todo, log, script, results, pieces>>
  BY DEF EndOfHashScan
<1>2. /\ todo[c] = <<>> /\ tool[c] = "hash" /\ script[c].stage = "none"
      /\ pc[c] = "next" /\ pc' = [pc EXCEPT ![c] = "reply"]
  BY NoneRuns DEF EndOfHashScan
<1>3. SoFarRight(c)'
  BY <1>1, SameQuestion DEF Quiet, SoFarRight
<1>4. InHand(c)'
  BY <1>1, <1>2 DEF InHand, Written
<1>5. \A f \in AskedFiles(c) : ~Ahead(c, f)
  BY <1>2 DEF Ahead, Written
<1>6. Complete(c, "yara") /\ Complete(c, "hash")
  BY <1>2, <1>5 DEF Quiet, Stage, Complete
<1>7. Stage(c)'
  BY <1>1, <1>2, <1>6, SameQuestion DEF Stage, Complete
<1>8. QED
  BY <1>1, <1>2, <1>3, <1>4, <1>7 DEF Quiet, Alone

\* A step that is nobody's leaves a quiet scan as it is.
LEMMA QuietStutter ==
    ASSUME NEW c, Quiet(c), UNCHANGED vars
    PROVE  Quiet(c)'
<1> USE DEF vars, request, config, thread
<1>1. SoFarRight(c)' /\ InHand(c)' /\ Alone(c)'
  BY SameQuestion DEF Quiet, SoFarRight, InHand, Written, Alone
<1>2. \A f : Ahead(c, f)' <=> Ahead(c, f)
  BY SameQuestion DEF Ahead, Listing, Written
<1>3. Stage(c)'
  BY <1>2, SameQuestion DEF Quiet, Stage, Complete
<1>4. QED
  BY <1>1, <1>3 DEF Quiet

\* Only a scan that is alone takes a step, or the script it waits for.
LEMMA OnlyQuietSteps ==
    ASSUME TypeInv, NEW c \in Clients, Alone(c)
    PROVE  /\ \A d \in Clients : ClientStep(d) /\ ~Request(d) => d = c
           /\ \A r \in Runners : ScriptStep(r) => r = c
<1> USE DEF TypeInv, TypeOK, Goto
<1>1. ASSUME NEW d \in Clients, ClientStep(d), ~Request(d) PROVE d = c
  <2>1. pc[d] # "idle"
    BY <1>1 DEF ClientStep, ParseConfig, JoinQuick, CallYaraScan, RunScript, ReadLog,
                Read, CallHashScan, EndOfHashScan, Reply
  <2>2. QED
    BY <2>1 DEF Alone
<1>2. ASSUME NEW r \in Runners, ScriptStep(r) PROVE r = c
  <2>1. script[r].stage # "none"
    BY <1>2 DEF ScriptStep, Judge, ServerIsWrong, JudgeAndOpen, FlushLog, CloseLog,
                ScriptFails
  <2>2. NoScript.stage = "none"
    BY DEF NoScript
  <2>3. QED
    BY <2>1, <2>2, AloneRunsOne
<1>3. QED
  BY <1>1, <1>2

\* Every step keeps all quiet scans right, and makes none of a scan that is not.
LEMMA QuietInductive == TypeInv /\ QuietInv /\ [Next]_vars => QuietInv'
<1> SUFFICES ASSUME TypeInv, QuietInv, [Next]_vars PROVE QuietInv'
  OBVIOUS
<1>1. IdleClean'
  BY IdleCleanInductive DEF QuietInv
<1>2. ASSUME NEW c \in Clients, quiet'[c] PROVE Quiet(c)'
  <2>1. CASE \E d \in Clients : Request(d)
    BY <1>2, <2>1, QuietRequest DEF QuietInv
  <2>2. CASE ~\E d \in Clients : Request(d)
    <3>1. quiet[c] /\ ~(Crash \/ WorldChanges)
      <4>1. ASSUME NEW d \in Clients, ClientStep(d) PROVE quiet' = quiet \/ Disturb({d})
        BY <2>2, <4>1
        DEF ClientStep, ParseConfig, JoinQuick, CallYaraScan, RunScript, ReadLog, Read,
            CallHashScan, EndOfHashScan, Reply
      <4>2. ASSUME NEW r \in Runners, ScriptStep(r) PROVE quiet' = quiet \/ Disturb({r})
        BY <4>2
        DEF ScriptStep, Judge, ServerIsWrong, FlushLog, CloseLog, ScriptFails
      <4>3. \/ quiet' = quiet /\ ~(Crash \/ WorldChanges)
            \/ \E d : Disturb({d})
            \/ Disturb(Clients)
        BY <4>1, <4>2 DEF Next, Crash, Restart, WorldChanges, NothingAsked, vars
      <4>4. QED
        BY <1>2, <4>3 DEF Disturb, Crash, WorldChanges
    <3>2. Quiet(c) /\ Alone(c)
      BY <3>1 DEF QuietInv, Quiet
    <3>3. ASSUME NEW d \in Clients, ClientStep(d) PROVE Quiet(c)'
      <4>1. d = c
        BY <2>2, <3>2, <3>3, OnlyQuietSteps
      <4>2. ~Reply(c)
        BY <1>2 DEF Reply, Disturb
      <4>3. QED
        BY <2>2, <3>2, <3>3, <4>1, <4>2, QuietParse, QuietCall, QuietRunScript,
           QuietReadLog, QuietEndOfHashScan DEF ClientStep
    <3>4. ASSUME NEW r \in Runners, ScriptStep(r) PROVE Quiet(c)'
      <4>1. r = c
        BY <3>2, <3>4, OnlyQuietSteps
      <4>2. ~ServerIsWrong(c) /\ ~ScriptFails(c)
        BY <1>2 DEF ServerIsWrong, ScriptFails, Disturb
      <4>3. QED
        BY <3>2, <3>4, <4>1, <4>2, QuietJudge, QuietFlushLog, QuietCloseLog DEF ScriptStep
    <3>5. ~Restart
      BY <3>2 DEF Restart, Alone
    <3>6. CASE NothingAsked \/ UNCHANGED vars
      BY <3>2, <3>6, QuietStutter DEF NothingAsked
    <3>7. QED
      BY <3>1, <3>3, <3>4, <3>5, <3>6 DEF Next
  <2>3. QED
    BY <2>1, <2>2
<1>3. QED
  BY <1>1, <1>2 DEF QuietInv

\* What a quiet scan has in hand at its end is the answer.
LEMMA QuietReplyIsRight == TypeInv /\ QuietInv => QuietScanIsRight
<1> SUFFICES ASSUME TypeInv, QuietInv, NEW c \in Clients, pc[c] = "reply", quiet[c]
             PROVE  /\ results[c]["yara"] = RightAnswer(c, Matched)
                    /\ results[c]["hash"] = RightAnswer(c, blacklist)
  BY DEF QuietScanIsRight
<1>1. SoFarRight(c) /\ Complete(c, "yara") /\ Complete(c, "hash")
  BY DEF QuietInv, Quiet, Stage
<1>2. \A t \in Tools : results[c][t] \in [Files -> Verdicts \cup {"unset"}]
  <2>1. \A t \in Tools : results[c][t] \in {Torn} \cup Results /\ results[c][t] # Torn
    BY <1>1 DEF TypeInv, TypeOK, SoFarRight
  <2>2. QED
    BY <2>1 DEF Results
<1>3. ASSUME NEW f \in Files \ AskedFiles(c), NEW t \in Tools
      PROVE  results[c][t][f] = "unset"
  BY <1>1 DEF SoFarRight, Right
<1>4. ASSUME NEW f \in Files, f \in AskedFiles(c)
      PROVE  /\ results[c]["hash"][f] = IF f \in blacklist THEN "hit" ELSE "clean"
             /\ f \in present
  BY <1>1, <1>4 DEF SoFarRight, Complete, Right, Tools, Hits
<1>5. ASSUME NEW f \in Files, f \in AskedFiles(c)
      PROVE  results[c]["yara"][f] = IF f \in Matched THEN "hit" ELSE "clean"
  BY <1>1, <1>4, <1>5 DEF SoFarRight, Complete, Right, Tools, Hits
<1>6. \A f \in Files : results[c]["yara"][f] = RightAnswer(c, Matched)[f]
  BY <1>3, <1>5 DEF RightAnswer, Tools
<1>7. \A f \in Files : results[c]["hash"][f] = RightAnswer(c, blacklist)[f]
  BY <1>3, <1>4 DEF RightAnswer, Tools
<1>8. QED
  BY <1>2, <1>6, <1>7 DEF RightAnswer, Tools

\* A scan gets the right verdicts for the right files, if the server answers
\* it right, no script of it fails, and from its beginning no other scan, no
\* script of a dead backend and no change of the files disturbs it, whatever
\* earlier scans and crashes have left behind.
THEOREM QuietScansAreRight == Spec => []QuietScanIsRight
<1>1. Init => QuietInv
  BY DEF Init, QuietInv, IdleClean
<1>2. QED
  BY <1>1, TypeInvInit, TypeInvInductive, QuietInductive, QuietReplyIsRight, PTL DEF Spec
=============================================================================
