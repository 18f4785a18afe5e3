------------------------------ MODULE FileScan ------------------------------
(***************************************************************************)
(* The file part of RequestHandler::scan.  Each client's thread reads      *)
(* config.json into two static vectors of paths, then runs yaraScan and    *)
(* hashScan over the paths of the request.  For every path each of them    *)
(* runs a script, which lists the files, judges them and leaves one line a *)
(* file in a log (yara.log, hash-scan.log), and then reads that log.  The  *)
(* logs have fixed names: all scans share them, and a script that fails    *)
(* leaves the log of an earlier one.  Nothing is locked.                   *)
(*                                                                         *)
(* A script opens its log with "w", which empties it, and then writes it   *)
(* buffer by buffer.  When two scripts have a log open at once, each goes  *)
(* on where it was: what the file holds then is torn, with lines of both,  *)
(* and lines joined of pieces of both.                                     *)
(*                                                                         *)
(* The names of files are assumed to be UTF-8, with no '@' and no newline, *)
(* so that they can be written and read back.                              *)
(***************************************************************************)
EXTENDS Naturals, Sequences

CONSTANTS
    Clients,  \* client threads of the backend
    Strays,   \* bound: scripts that have outlived their backend
    Files,
    Folders,
    Own,      \* Own[d]: the files that lie in folder d itself
    Sub,      \* Sub[d]: those in its subfolders
    Quick,    \* config.json: the folders of a quick scan, in order,
    Full,     \*              and those a full scan adds
    Matched,  \* the files that some yara rule matches
    None,
    Torn,     \* what a log holds that two scripts have had open at once, and what
              \* comes of it: any verdicts, for files and for pieces of names
    Asks,     \* bound: the requests that are made
    MaxScans, \* bound: how many
    MaxChanges \* bound: changes of the files and of the blacklist, and wrong
               \* answers of the server

ASSUME FoldersAssumption ==
    /\ Own \in [Folders -> SUBSET Files] /\ Sub \in [Folders -> SUBSET Files]
    /\ Quick \in Seq(Folders) /\ Full \in Seq(Folders)
    /\ Files \cap Folders = {}

ASSUME StraysAssumption == Clients \cap Strays = {}

\* scanRequest; a quick or full scan does not look at the path.
Requests == [kind : {"file"}, path : Files] \cup [kind : {"folder"}, path : Folders]
                \cup [kind : {"quick", "full"}, path : {None}]

ASSUME AsksAssumption == Asks \subseteq Requests

Tools    == {"yara", "hash"}
Kinds    == {"file", "folder", "quick", "full"}
Paths    == Files \cup Folders
Verdicts == {"clean", "hit"}
Entries  == [name : Files, verdict : Verdicts]

Results  == [Files -> Verdicts \cup {"unset"}]
Unset    == [n \in Files |-> "unset"]

ASSUME TornAssumption ==
    Torn \notin Files /\ \A x \in Results \cup SUBSET Entries : x # Torn

\* A script: the files it has listed, then the lines it has still to write.
Runners  == Clients \cup Strays
Scripts  == [stage : {"none", "judge", "write"}, tool : Tools,
             listed : SUBSET Files, lines : SUBSET Entries]
NoScript == [stage |-> "none", tool |-> "yara", listed |-> {}, lines |-> {}]

VARIABLES
    up,         \* does the backend run
    present,    \* the files that exist
    blacklist,  \* the files whose hash the server calls malicious
    quickPaths, \* config::_quickPathsForScan, config::_fullPathsForScan
    fullPaths,
    log,        \* the content of yara.log and hash-scan.log
    viruses,    \* VirusTable, the names in it (Torn: any, besides)
    script,     \* the script that a thread waits for, or that has no backend
    pc,         \* where each client's thread is
    kind, path, \* scanRequest
    tool,       \* which of yaraScan and hashScan runs
    todo,       \* its paths that are left
    results,    \* scanResp.yaraResults, scanResp.hashesResults
    pieces,     \* the threads whose log was emptied while they read it
    scans,      \* counts the requests
    changes,    \* counts the changes of the world and the wrong answers
    quiet,      \* history: has nothing disturbed the scan
    judged      \* history: all verdicts that any script came to

world   == <<present, blacklist, changes>>
config  == <<quickPaths, fullPaths>>
request == <<kind, path>>
thread  == <<tool, todo, results>>
vars == <<up, world, config, log, viruses, script, pc, request, thread, pieces,
          scans, quiet, judged>>

NoResults == [t \in Tools |-> Unset]

Init ==
    /\ up = TRUE
    /\ present = Files
    /\ blacklist = {}
    /\ quickPaths = <<>> /\ fullPaths = <<>>
    /\ log = [t \in Tools |-> {}]
    /\ viruses = {}
    /\ script = [r \in Runners |-> NoScript]
    /\ pc = [c \in Clients |-> "idle"]
    /\ kind = [c \in Clients |-> "file"]
    /\ path = [c \in Clients |-> None]
    /\ tool = [c \in Clients |-> "yara"]
    /\ todo = [c \in Clients |-> <<>>]
    /\ results = [c \in Clients |-> NoResults]
    /\ pieces = {}
    /\ scans = 0 /\ changes = 0
    /\ quiet = [c \in Clients |-> FALSE]
    /\ judged = {}

\* Something happens to the scans of some threads.
Disturb(some) == quiet' = [c \in Clients |-> quiet[c] /\ c \notin some]

Goto(c, from, to) == pc[c] = from /\ pc' = [pc EXCEPT ![c] = to]

-----------------------------------------------------------------------------
(* The request and the configuration.                                      *)

\* A scan begins.  It is quiet as long as it is the only one, and no script of
\* a dead backend runs.
Request(c) ==
    /\ up /\ scans < MaxScans
    /\ Goto(c, "idle", "parse")
    /\ \E r \in Asks :
        /\ kind' = [kind EXCEPT ![c] = r.kind]
        /\ path' = [path EXCEPT ![c] = r.path]
    /\ scans' = scans + 1
    /\ quiet' = [d \in Clients |-> /\ d = c
                                   /\ \A e \in Clients \ {c} : pc[e] = "idle"
                                   /\ \A r \in Strays : script[r] = NoScript]
    /\ UNCHANGED <<up, world, config, log, viruses, script, thread, pieces, judged>>

\* parseConfigData assigns the two static vectors, and then joins them.  (The
\* first two assignments are one step: all threads assign the same.)
ParseConfig(c) ==
    /\ up /\ Goto(c, "parse", "join")
    /\ quickPaths' = Quick
    /\ fullPaths' = Full
    /\ UNCHANGED <<up, world, log, viruses, script, request, thread, pieces, scans,
                   quiet, judged>>

\* Mutant: the quick paths are not added.
JoinNothing(c) ==
    /\ up /\ Goto(c, "join", "call")
    /\ UNCHANGED <<up, world, config, log, viruses, script, request, thread, pieces,
                   scans, quiet, judged>>

JoinQuick(c) ==
    /\ up /\ Goto(c, "join", "call")
    /\ fullPaths' = fullPaths \o quickPaths
    /\ UNCHANGED <<up, world, quickPaths, log, viruses, script, request, thread,
                   pieces, scans, quiet, judged>>

\* yaraScan and hashScan take their vector by value, each when it is called.
Vector(c) ==
    CASE kind[c] = "quick" -> quickPaths
      [] kind[c] = "full"  -> fullPaths
      [] OTHER             -> <<path[c]>>

CallYaraScan(c) ==
    /\ up /\ Goto(c, "call", "next")
    /\ todo' = [todo EXCEPT ![c] = Vector(c)]
    /\ UNCHANGED <<up, world, config, log, viruses, script, request, tool, results,
                   pieces, scans, quiet, judged>>

-----------------------------------------------------------------------------
(* One path: the script, and the reading of its log.                       *)

\* Mutant: "-f" is passed for folders too.
ListingOfFile(k, p) == IF k = "full" THEN (Own[p] \cup Sub[p]) \cap present ELSE {p}

\* get_dir_files, or the file itself; a full scan asks for subfolders too.
Listing(k, p) ==
    CASE k = "file" -> {p}
      [] k = "full" -> (Own[p] \cup Sub[p]) \cap present
      [] OTHER      -> Own[p] \cap present

\* system() starts the script, which lists the files; the thread waits for it.
RunScript(c) ==
    /\ up /\ Goto(c, "next", "script")
    /\ todo[c] # <<>>
    /\ todo' = [todo EXCEPT ![c] = Tail(@)]
    /\ script' = [script EXCEPT ![c] =
            [stage |-> "judge", tool |-> tool[c],
             listed |-> Listing(kind[c], Head(todo[c])), lines |-> {}]]
    /\ UNCHANGED <<up, world, config, log, viruses, request, tool, results, pieces,
                   scans, quiet, judged>>

\* scanner.py finds no rule for a file that is gone; hash-scanner.py asks the
\* server about the hashes of all the files it has listed.
Hits(t) == IF t = "yara" THEN Matched \cap present ELSE blacklist

Judgement(files, hits) ==
    {[name |-> f, verdict |-> IF f \in hits THEN "hit" ELSE "clean"] : f \in files}

\* The scripts that have the log of tool t open, and the threads that read it.
Writers(t) == {r \in Runners : script[r].stage = "write" /\ script[r].tool = t}
Readers(t) == {c \in Clients : pc[c] = "read" /\ tool[c] = t}

\* The verdicts, and open(LOG_FILE, "w"), which empties the log whoever reads
\* or writes it.  Nobody sees what lies between.
JudgeAndOpen(r, hits) ==
    LET s == script[r]
        verdicts == Judgement(s.listed, hits)
    IN
    /\ s.stage = "judge"
    /\ script' = [script EXCEPT ![r] = [stage |-> "write", tool |-> s.tool,
                                       listed |-> {}, lines |-> verdicts]]
    /\ judged' = judged \cup {<<s.tool, e>> : e \in verdicts}
    /\ log' = [log EXCEPT ![s.tool] = IF Writers(s.tool) = {} THEN {} ELSE Torn]
    /\ pieces' = pieces \cup Readers(s.tool)
    /\ UNCHANGED <<up, present, blacklist, config, viruses, pc, request, thread, scans>>

\* hash-scanner.py raises an exception when a file is gone.
Judge(r) ==
    /\ script[r].tool = "hash" => script[r].listed \subseteq present
    /\ JudgeAndOpen(r, Hits(script[r].tool))
    /\ UNCHANGED <<changes, quiet>>

\* While an updater has the server's database locked, its answers are anything.
ServerIsWrong(r) ==
    /\ script[r].tool = "hash" /\ script[r].listed \subseteq present
    /\ changes < MaxChanges /\ changes' = changes + 1
    /\ \E hits \in SUBSET Files : JudgeAndOpen(r, hits)
    /\ Disturb({r})

\* Lines in a log; what is torn already stays torn.
Write(t, entries) ==
    log' = [log EXCEPT ![t] = IF @ = Torn THEN Torn ELSE @ \cup entries]

\* A buffer is full.  (Where it ends with a part of a line, a reader leaves the
\* part out or reads the verdict right.)
FlushLog(r) ==
    /\ script[r].stage = "write"
    /\ \E part \in SUBSET script[r].lines \ {{}, script[r].lines} :
        /\ Write(script[r].tool, part)
        /\ script' = [script EXCEPT ![r].lines = @ \ part]
    /\ UNCHANGED <<up, world, config, viruses, pc, request, thread, pieces, scans,
                   quiet, judged>>

\* system() returns to the thread that waits for the script.
Ended(r) ==
    /\ script' = [script EXCEPT ![r] = NoScript]
    /\ pc' = [c \in Clients |-> IF c = r THEN "read" ELSE pc[c]]
    /\ UNCHANGED <<up, world, config, viruses, request, thread, pieces, scans, judged>>

CloseLog(r) ==
    /\ script[r].stage = "write"
    /\ Write(script[r].tool, script[r].lines)
    /\ UNCHANGED quiet
    /\ Ended(r)

\* Either script may fail before it opens its log: a file is gone, the server
\* cannot be reached, a module is missing.  system() returns all the same.
ScriptFails(r) ==
    /\ script[r].stage = "judge"
    /\ UNCHANGED log
    /\ Disturb({r})
    /\ Ended(r)

\* The map after reading log l into map r; of two lines for a name, which are
\* in no order here, either may be the later one.
Readings(r, l) ==
    {s \in Results : \A f \in Files :
        IF \E e \in l : e.name = f THEN [name |-> f, verdict |-> s[f]] \in l
                                   ELSE s[f] = r[f]}

\* The loop over log l, whose malicious lines are `saves`.  hashScan saves them
\* (updateVirusTables) on a connection of its own: the insertion may be refused,
\* and nobody looks.
ReadWhole(c, l, saves) ==
    /\ \E saved \in SUBSET {e.name : e \in saves} : viruses' = viruses \cup saved
    /\ LET r == results[c][tool[c]] IN
        \E s \in IF r = Torn THEN {Torn} ELSE Readings(r, l) :
            results' = [results EXCEPT ![c][tool[c]] = s]

\* The loop over a log that is torn, or was emptied on the way: a line may join
\* one script's "name@" to the end of another's line.
ReadTorn(c) ==
    /\ results' = [results EXCEPT ![c][tool[c]] = Torn]
    /\ viruses' = IF tool[c] = "hash" THEN viruses \cup {Torn} ELSE viruses

Read(c, t, hits) ==
    /\ up /\ Goto(c, "read", "next")
    /\ IF c \in pieces \/ log[t] = Torn
       THEN ReadTorn(c)
       ELSE ReadWhole(c, log[t], {e \in log[t] : tool[c] = "hash" /\ e.verdict \in hits})
    /\ pieces' = pieces \ {c}
    /\ UNCHANGED <<up, world, config, log, script, request, tool, todo, scans, quiet,
                   judged>>

\* Mutants: hashScan reads the other log; it saves every file it reads.
ReadLogOfYara(c)   == Read(c, "yara", {"hit"})
ReadLogSavesAll(c) == Read(c, tool[c], Verdicts)

ReadLog(c) == Read(c, tool[c], {"hit"})

\* yaraScan's loop ends, and hashScan is called.
CallHashScan(c) ==
    /\ up /\ todo[c] = <<>> /\ tool[c] = "yara"
    /\ Goto(c, "next", "next")
    /\ tool' = [tool EXCEPT ![c] = "hash"]
    /\ todo' = [todo EXCEPT ![c] = Vector(c)]
    /\ UNCHANGED <<up, world, config, log, viruses, script, request, results, pieces,
                   scans, quiet, judged>>

\* hashScan's loop ends.  Of a quick or full scan the tables and the network
\* part follow; they touch nothing here (SpybotDriver, NetScan).
EndOfHashScan(c) ==
    /\ up /\ todo[c] = <<>> /\ tool[c] = "hash"
    /\ Goto(c, "next", "reply")
    /\ tool' = [tool EXCEPT ![c] = "yara"]
    /\ UNCHANGED <<up, world, config, log, viruses, script, request, todo, results,
                   pieces, scans, quiet, judged>>

Reply(c) ==
    /\ up /\ Goto(c, "reply", "idle")
    /\ kind' = [kind EXCEPT ![c] = "file"]
    /\ path' = [path EXCEPT ![c] = None]
    /\ results' = [results EXCEPT ![c] = NoResults]
    /\ Disturb({c})
    /\ UNCHANGED <<up, world, config, log, viruses, script, tool, todo, pieces, scans,
                   judged>>

-----------------------------------------------------------------------------
(* Crashes, and the world.                                                 *)

Running == {c \in Clients : script[c] # NoScript}
Free    == {r \in Strays : script[r] = NoScript}

\* The backend may die at any time: accesses to the static vectors of paths are
\* unordered, as are others (NetScan), and a send to a client that has left
\* raises SIGPIPE (ServerRelay).  Its memory is gone; the scripts go on.
Crash ==
    /\ up
    /\ up' = FALSE
    /\ \E stray \in [Running -> Free] :
        /\ \A c, d \in Running : stray[c] = stray[d] => c = d
        /\ script' = [r \in Runners |->
                IF r \in Clients THEN NoScript
                ELSE IF \E c \in Running : stray[c] = r
                     THEN script[CHOOSE c \in Running : stray[c] = r] ELSE script[r]]
    /\ quickPaths' = <<>> /\ fullPaths' = <<>>
    /\ pc' = [c \in Clients |-> "idle"]
    /\ kind' = [c \in Clients |-> "file"]
    /\ path' = [c \in Clients |-> None]
    /\ tool' = [c \in Clients |-> "yara"]
    /\ todo' = [c \in Clients |-> <<>>]
    /\ results' = [c \in Clients |-> NoResults]
    /\ pieces' = {}
    /\ Disturb(Clients)
    /\ UNCHANGED <<world, log, viruses, scans, judged>>

\* Someone starts it again; nobody waits for the scripts.
Restart ==
    /\ ~up
    /\ up' = TRUE
    /\ UNCHANGED <<world, config, log, viruses, script, pc, request, thread, pieces,
                   scans, quiet, judged>>

\* A file comes or goes, or the server learns of a hash.
WorldChanges ==
    /\ changes < MaxChanges
    /\ \E f \in Files :
        \/ /\ present' = IF f \in present THEN present \ {f} ELSE present \cup {f}
           /\ UNCHANGED blacklist
        \/ /\ f \notin blacklist /\ blacklist' = blacklist \cup {f}
           /\ UNCHANGED present
    /\ changes' = changes + 1
    /\ Disturb(Clients)
    /\ UNCHANGED <<up, config, log, viruses, script, pc, request, thread, pieces,
                   scans, judged>>

ClientStep(c) ==
    \/ Request(c) \/ ParseConfig(c) \/ JoinQuick(c) \/ CallYaraScan(c)
    \/ RunScript(c) \/ ReadLog(c) \/ CallHashScan(c) \/ EndOfHashScan(c) \/ Reply(c)

ScriptStep(r) ==
    \/ Judge(r) \/ ServerIsWrong(r) \/ FlushLog(r) \/ CloseLog(r) \/ ScriptFails(r)

\* All threads wait for requests, and the bounds allow no more.
NothingAsked ==
    /\ up /\ scans = MaxScans /\ \A c \in Clients : pc[c] = "idle"
    /\ UNCHANGED vars

Next ==
    \/ \E c \in Clients : ClientStep(c)
    \/ \E r \in Runners : ScriptStep(r)
    \/ Crash \/ Restart \/ WorldChanges \/ NothingAsked

Spec == Init /\ [][Next]_vars

-----------------------------------------------------------------------------
(* Properties.                                                             *)

\* Every variable has its type, a thread has a script while it waits for one,
\* and only a thread that reads a log can have it emptied under it.
TypeOK ==
    /\ up \in BOOLEAN
    /\ present \subseteq Files /\ blacklist \subseteq Files
    /\ quickPaths \in Seq(Folders) /\ fullPaths \in Seq(Folders)
    /\ log \in [Tools -> {Torn} \cup SUBSET Entries]
    /\ viruses \subseteq Files \cup {Torn}
    /\ script \in [Runners -> Scripts]
    /\ pc \in [Clients -> {"idle", "parse", "join", "call", "next", "script",
                           "read", "reply"}]
    /\ \A c \in Clients : pc[c] = "script" <=> script[c] # NoScript
    /\ kind \in [Clients -> Kinds]
    /\ path \in [Clients -> Paths \cup {None}]
    /\ tool \in [Clients -> Tools]
    /\ todo \in [Clients -> Seq(Paths)]
    /\ results \in [Clients -> [Tools -> {Torn} \cup Results]]
    /\ pieces \subseteq {c \in Clients : pc[c] = "read"}
    /\ scans \in Nat /\ changes \in Nat
    /\ quiet \in [Clients -> BOOLEAN]
    /\ judged \subseteq Tools \X Entries

PathsIn(s) == {s[i] : i \in DOMAIN s}

\* The folders and files a request is about: a full scan covers the folders of
\* a quick one too.
AskedPaths(c) ==
    CASE kind[c] = "quick" -> PathsIn(Quick)
      [] kind[c] = "full"  -> PathsIn(Quick) \cup PathsIn(Full)
      [] OTHER             -> {path[c]}

AskedFiles(c) == UNION {Listing(kind[c], p) : p \in AskedPaths(c)}

RightAnswer(c, hits) ==
    [f \in Files |-> IF f \notin AskedFiles(c) THEN "unset"
                     ELSE IF f \in hits THEN "hit" ELSE "clean"]

\* A scan that is never alongside another, nor a script of a dead backend, with
\* no script failing, no wrong answer of the server, and no file or hash
\* changing during it, reports each file under each of its paths, no other
\* name, and the right verdicts of both scanners, whatever earlier scans,
\* failures and crashes have left in the logs.  So the client, which looks up
\* every yara result among the hash results, finds it.
QuietScanIsRight ==
    \A c \in Clients : pc[c] = "reply" /\ quiet[c] =>
        /\ results[c]["yara"] = RightAnswer(c, Matched)
        /\ results[c]["hash"] = RightAnswer(c, blacklist)

\* However scans overlap, read logs half written or long finished, and crash,
\* the verdict they report for a name is one that a script of that kind came
\* to for a file of that name: unless the scan has read a log that two scripts
\* had open at once, or that was emptied while it was read.
VerdictsJudged ==
    \A c \in Clients, t \in Tools : results[c][t] # Torn =>
        \A f \in Files : results[c][t][f] # "unset" =>
            <<t, [name |-> f, verdict |-> results[c][t][f]]>> \in judged

\* No name comes into the table of viruses, but of such logs, that is not that of
\* a file the server has called malicious.
VirusesJudged ==
    \A f \in viruses \ {Torn} : <<"hash", [name |-> f, verdict |-> "hit"]>> \in judged
=============================================================================
