------------------------------ MODULE NetScan ------------------------------
(***************************************************************************)
(* The network scans of the backend.  PeriodicScanHandler::periodicScan is *)
(* a thread that, after each sleep, runs net-scanner.py, reads the         *)
(* malicious.log it leaves, has the driver kill every process listed, and  *)
(* adds what it found to the static _packetScanResult; then the same with  *)
(* spofing-scanner.py and _spofingScanResult.  A quick or full scan of any *)
(* client (RequestHandler::scan) copies both stores into its response and  *)
(* empties them.  No lock covers the stores.                               *)
(*                                                                         *)
(* An entry of _packetScanResult is the text about some kills; here it is  *)
(* the set of the pids it tells of, and the vector the set of its entries. *)
(*                                                                         *)
(* A script that runs when the backend dies runs on, and writes its log    *)
(* when a new backend may be at work on it.                                *)
(***************************************************************************)
EXTENDS Naturals, Sequences, FiniteSets

CONSTANTS
    Clients,   \* client threads that ask for quick or full scans
    Pids,      \* process identifiers
    Ips,       \* addresses that may try to spoof
    Ports,     \* the services spofing-scanner.py watches
    None,
    MaxLines,  \* bound: lines in malicious.log
    MaxOrphans \* bound: net-scanner.py's that have lost their backend

ASSUME LinesAssumption == MaxLines \in Nat
ASSUME NoneAssumption == None \notin Ports \cup Pids

\* A line of malicious.log: the pid it was written for, and the one it is read
\* as.  Its fields are separated by "-": a process name that has one shifts
\* them, and the pid field is then another number, or none.  The third field is
\* history: was the server wrong about the process, or has the pid changed
\* hands, or the process what it does, since the script looked at it?
Lines == [pid : Pids, reads : Pids \cup {None}, doubt : BOOLEAN]

\* The map read from spofing.log: one port for an address.
Spofs   == [Ips -> Ports \cup {None}]
NoSpofs == [i \in Ips |-> None]

VARIABLES
    up,            \* does the backend run
    proc,          \* what each process does: "good", or "bad" if it talks to
                   \* a malicious address
    malicious_log, \* the log file
    at,            \* where the periodic thread is
    lines,         \* net-scanner.py's LOG_DATA, then packetScan's open log
    orphans,       \* the LOG_DATA of scripts whose backend is gone
    results,       \* packetScan's vector, then what is left of it to add
    spofing,       \* spofingScan's map, until it is inserted
    packets,       \* _packetScanResult
    spofs,         \* _spofingScanResult
    pc,            \* where each client's thread is
    packetsResp,   \* scanResp.packetsResults
    spofResp,      \* scanResp.spofingResults
    owed,          \* history: pids found and not yet reported to a client
    excused,       \* history: pids last added during a scan's copy-and-clear,
                   \* or lost since with an exception, a crash or a response
    spofOwed,      \* history: the same for addresses
    spofExcused

scripts == <<lines, orphans>>
found   == <<results, spofing>>
stores  == <<packets, spofs>>
clients == <<pc, packetsResp, spofResp>>
netHistory  == <<owed, excused>>
spofHistory == <<spofOwed, spofExcused>>
vars == <<up, proc, malicious_log, at, scripts, found, stores, clients,
          netHistory, spofHistory>>

Init ==
    /\ up = TRUE
    /\ proc \in [Pids -> {"none", "good", "bad"}]
    /\ malicious_log = <<>>
    /\ at = "sleep"
    /\ lines = <<>> /\ orphans = {}
    /\ results = <<>> /\ spofing = NoSpofs
    /\ packets = {} /\ spofs = NoSpofs
    /\ pc = [c \in Clients |-> "idle"]
    /\ packetsResp = [c \in Clients |-> {}]
    /\ spofResp = [c \in Clients |-> NoSpofs]
    /\ owed = {} /\ excused = {}
    /\ spofOwed = {} /\ spofExcused = {}

\* A scan's response is out of date between its copy and its clear.
PacketsWindow == {c \in Clients : pc[c] \in {"spofs", "clear_packets"}}
SpofWindow    == {c \in Clients : pc[c] \in {"clear_packets", "clear_spofs"}}

Named(entries) == UNION entries
Listed(f) == {i \in Ips : f[i] # None}

-----------------------------------------------------------------------------
(* The periodic thread.                                                    *)

\* The lists of up to MaxLines lines of a set.
ListsOf(S) == UNION {[1 .. n -> S] : n \in 0 .. MaxLines}

\* What a process that runs is listed as.  An answer of the server is right,
\* or, while an updater has the database locked, anything.
Rightly(l) == proc[l.pid] = "bad" /\ ~l.doubt
Wrongly(l) == proc[l.pid] = "good" /\ l.doubt

\* Mutant: is_malicious_ip is not asked.
IdentifyAll ==
    /\ up /\ at = "sleep"
    /\ lines' \in ListsOf({l \in Lines : proc[l.pid] # "none" /\ ~l.doubt})
    /\ at' = "sniff"
    /\ UNCHANGED <<up, proc, malicious_log, orphans, found, stores, clients,
                   netHistory, spofHistory>>

\* sleep_for returns and net-scanner.py runs: identify_process lists processes
\* that the server says talk to malicious addresses.
IdentifyProcess ==
    /\ up /\ at = "sleep"
    /\ lines' \in ListsOf({l \in Lines : Rightly(l) \/ Wrongly(l)})
    /\ at' = "sniff"
    /\ UNCHANGED <<up, proc, malicious_log, orphans, found, stores, clients,
                   netHistory, spofHistory>>

\* What is in the log after two scripts have written lists s and t at once, at
\* any moment of it: lines of both, and lines joined of pieces, which can be
\* read as any number.
Mixtures(s, t) ==
    LET source == {s[k] : k \in DOMAIN s} \cup {t[k] : k \in DOMAIN t}
    IN ListsOf({l \in Lines : \E m \in source : l.pid = m.pid /\ l.doubt = m.doubt})

\* The sniffing of five seconds adds nothing; then the list goes to the log.
WriteLog ==
    /\ up /\ at = "sniff"
    /\ malicious_log' \in IF orphans = {} THEN {lines}
                                          ELSE Mixtures(lines, malicious_log)
    /\ at' = "open"
    /\ lines' = <<>>
    /\ UNCHANGED <<up, proc, orphans, found, stores, clients, netHistory,
                   spofHistory>>

\* The script fails before it opens the log (the server is away, say), which
\* stays what an earlier one has left.
NetScannerFails ==
    /\ up /\ at = "sniff"
    /\ at' = "open"
    /\ lines' = <<>>
    /\ UNCHANGED <<up, proc, malicious_log, orphans, found, stores, clients,
                   netHistory, spofHistory>>

\* A script without a backend writes some of its list, or all of it and ends, or
\* it fails.  (Scripts that have found the same are one element of orphans.)
OrphanWrites(o) ==
    /\ malicious_log' \in Mixtures(o, malicious_log)
    /\ orphans' \in {orphans, orphans \ {o}}
    /\ UNCHANGED <<up, proc, at, lines, found, stores, clients, netHistory,
                   spofHistory>>

OrphanFails(o) ==
    /\ orphans' = orphans \ {o}
    /\ UNCHANGED <<up, proc, malicious_log, at, lines, found, stores, clients,
                   netHistory, spofHistory>>

\* packetScan opens the log.
OpenLog ==
    /\ up /\ at = "open"
    /\ lines' = malicious_log
    /\ at' = "read"
    /\ UNCHANGED <<up, proc, malicious_log, orphans, found, stores, clients,
                   netHistory, spofHistory>>

\* packetScan's text so far: `output` is never reset between lines.
Output == IF results = <<>> THEN {} ELSE results[Len(results)]

\* One line: blockPid asks the driver to kill the process, which does it if
\* the device is there, and the line is added to the results.
ReadLine ==
    /\ up /\ at = "read" /\ lines # <<>>
    /\ LET pid == Head(lines).reads IN
        /\ pid # None
        /\ proc' \in {proc, [proc EXCEPT ![pid] = "none"]}
        /\ results' = Append(results, Output \cup {pid})
        /\ owed' = owed \cup {pid}
    /\ lines' = Tail(lines)
    /\ UNCHANGED <<up, malicious_log, at, orphans, spofing, stores, clients,
                   excused, spofHistory>>

\* Mutants: results outlives the exception, or the exception stops the thread.
UnreadableLineKeeps ==
    /\ up /\ at = "read" /\ lines # <<>>
    /\ Head(lines).reads = None
    /\ at' = "sleep"
    /\ lines' = <<>>
    /\ UNCHANGED <<up, proc, malicious_log, orphans, found, stores, clients,
                   netHistory, spofHistory>>

UnreadableLineFatal ==
    /\ up /\ at = "read" /\ lines # <<>>
    /\ Head(lines).reads = None
    /\ UNCHANGED vars

\* stoi throws, and periodicScan starts over: what this run has found and
\* killed so far is gone, and spofingScan is not run.
UnreadableLine ==
    /\ up /\ at = "read" /\ lines # <<>>
    /\ Head(lines).reads = None
    /\ at' = "sleep"
    /\ lines' = <<>>
    /\ results' = <<>>
    /\ excused' = excused \cup Output
    /\ UNCHANGED <<up, proc, malicious_log, orphans, spofing, stores, clients,
                   owed, spofHistory>>

EndOfLog ==
    /\ up /\ at = "read" /\ lines = <<>>
    /\ at' = "push"
    /\ UNCHANGED <<up, proc, malicious_log, scripts, found, stores, clients,
                   netHistory, spofHistory>>

\* The loop of push_back's.
PushBack ==
    /\ up /\ at = "push" /\ results # <<>>
    /\ packets' = packets \cup {Head(results)}
    /\ results' = Tail(results)
    /\ excused' = IF PacketsWindow = {} THEN excused \ Head(results)
                                        ELSE excused \cup Head(results)
    /\ UNCHANGED <<up, proc, malicious_log, at, scripts, spofing, spofs,
                   clients, owed, spofHistory>>

\* spofing-scanner.py, which may fail as well, and meet one that has lost its
\* backend; then its log is read.
SpofingScanner ==
    /\ up /\ at = "push" /\ results = <<>>
    /\ spofing' \in Spofs
    /\ spofOwed' = spofOwed \cup Listed(spofing')
    /\ at' = "insert"
    /\ UNCHANGED <<up, proc, malicious_log, scripts, results, stores, clients,
                   netHistory, spofExcused>>

\* Mutant: the map is assigned to.
InsertReplaces ==
    /\ up /\ at = "insert"
    /\ spofs' = spofing
    /\ spofExcused' = IF SpofWindow = {} THEN spofExcused \ Listed(spofing)
                                         ELSE spofExcused \cup Listed(spofing)
    /\ at' = "sleep"
    /\ spofing' = NoSpofs
    /\ UNCHANGED <<up, proc, malicious_log, scripts, results, packets, clients,
                   netHistory, spofOwed>>

\* map::insert: an address that is already there keeps its port.
Insert ==
    /\ up /\ at = "insert"
    /\ spofs' = [i \in Ips |-> IF spofs[i] # None THEN spofs[i] ELSE spofing[i]]
    /\ spofExcused' = IF SpofWindow = {} THEN spofExcused \ Listed(spofing)
                                         ELSE spofExcused \cup Listed(spofing)
    /\ at' = "sleep"
    /\ spofing' = NoSpofs
    /\ UNCHANGED <<up, proc, malicious_log, scripts, results, packets, clients,
                   netHistory, spofOwed>>

-----------------------------------------------------------------------------
(* A quick or full scan, from the point where it uses the stores.          *)

Goto(c, there) == pc' = [pc EXCEPT ![c] = there]

Request(c) ==
    /\ up /\ pc[c] = "idle"
    /\ Goto(c, "packets")
    /\ UNCHANGED <<up, proc, malicious_log, at, scripts, found, stores,
                   packetsResp, spofResp, netHistory, spofHistory>>

CopyPackets(c) ==
    /\ up /\ pc[c] = "packets"
    /\ packetsResp' = [packetsResp EXCEPT ![c] = packets]
    /\ Goto(c, "spofs")
    /\ UNCHANGED <<up, proc, malicious_log, at, scripts, found, stores,
                   spofResp, netHistory, spofHistory>>

\* After sctScan.
CopySpofs(c) ==
    /\ up /\ pc[c] = "spofs"
    /\ spofResp' = [spofResp EXCEPT ![c] = spofs]
    /\ Goto(c, "clear_packets")
    /\ UNCHANGED <<up, proc, malicious_log, at, scripts, found, stores,
                   packetsResp, netHistory, spofHistory>>

ClearPackets(c) ==
    /\ up /\ pc[c] = "clear_packets"
    /\ packets' = {}
    /\ Goto(c, "clear_spofs")
    /\ UNCHANGED <<up, proc, malicious_log, at, scripts, found, spofs,
                   packetsResp, spofResp, netHistory, spofHistory>>

\* Mutant: the other store is cleared twice.
ClearPacketsAgain(c) ==
    /\ up /\ pc[c] = "clear_spofs"
    /\ packets' = {}
    /\ Goto(c, "respond")
    /\ UNCHANGED <<up, proc, malicious_log, at, scripts, found, spofs,
                   packetsResp, spofResp, netHistory, spofHistory>>

ClearSpofs(c) ==
    /\ up /\ pc[c] = "clear_spofs"
    /\ spofs' = NoSpofs
    /\ Goto(c, "respond")
    /\ UNCHANGED <<up, proc, malicious_log, at, scripts, found, packets,
                   packetsResp, spofResp, netHistory, spofHistory>>

\* The response is no more, nor the thread that had it.
Drop(c) ==
    /\ packetsResp' = [packetsResp EXCEPT ![c] = {}]
    /\ spofResp' = [spofResp EXCEPT ![c] = NoSpofs]
    /\ Goto(c, "idle")
    /\ UNCHANGED <<up, proc, malicious_log, at, scripts, found, stores>>

\* serializeResponse, and sendData to a client that is there to take it.
SendData(c) ==
    /\ up /\ pc[c] = "respond"
    /\ owed' = owed \ Named(packetsResp[c])
    /\ spofOwed' = spofOwed \ Listed(spofResp[c])
    /\ UNCHANGED <<excused, spofExcused>>
    /\ Drop(c)

\* The serialization throws (a name that is no UTF-8), or the client has left
\* and the response goes nowhere: the stores are empty already.
ResponseLost(c) ==
    /\ up /\ pc[c] = "respond"
    /\ excused' = excused \cup Named(packetsResp[c])
    /\ spofExcused' = spofExcused \cup Listed(spofResp[c])
    /\ UNCHANGED <<owed, spofOwed>>
    /\ Drop(c)

-----------------------------------------------------------------------------
(* Crashes, and the machine's other processes.                             *)

\* The process dies and its memory is gone.  It may do so at any time: the
\* accesses to the stores are unordered, as are others (FileScan), and a send
\* to a client that has left raises SIGPIPE (ServerRelay).  A script runs on.
Crash ==
    /\ up
    /\ up' = FALSE
    /\ orphans' = IF at = "sniff" THEN orphans \cup {lines} ELSE orphans
    /\ Cardinality(orphans') =< MaxOrphans
    /\ at' = "sleep"
    /\ lines' = <<>>
    /\ results' = <<>> /\ spofing' = NoSpofs
    /\ packets' = {} /\ spofs' = NoSpofs
    /\ pc' = [c \in Clients |-> "idle"]
    /\ packetsResp' = [c \in Clients |-> {}]
    /\ spofResp' = [c \in Clients |-> NoSpofs]
    /\ excused' = excused \cup owed
    /\ spofExcused' = spofExcused \cup spofOwed
    /\ UNCHANGED <<proc, malicious_log, owed, spofOwed>>

\* Someone starts the backend again; the files are still there.
Restart ==
    /\ ~up
    /\ up' = TRUE
    /\ UNCHANGED <<proc, malicious_log, at, scripts, found, stores, clients,
                   netHistory, spofHistory>>

Doubt(s, p) ==
    [k \in DOMAIN s |-> IF s[k].pid = p THEN [s[k] EXCEPT !.doubt = TRUE] ELSE s[k]]

\* Processes start, change what they do, and end.
ProcessChanges(p) ==
    /\ \E now \in {"none", "good", "bad"} \ {proc[p]} :
            proc' = [proc EXCEPT ![p] = now]
    /\ malicious_log' = Doubt(malicious_log, p)
    /\ lines' = Doubt(lines, p)
    /\ orphans' = {Doubt(o, p) : o \in orphans}
    /\ UNCHANGED <<up, at, found, stores, clients, netHistory, spofHistory>>

-----------------------------------------------------------------------------
Periodic ==
    \/ IdentifyProcess \/ WriteLog \/ NetScannerFails \/ OpenLog
    \/ ReadLine \/ UnreadableLine \/ EndOfLog \/ PushBack
    \/ SpofingScanner \/ Insert

ScanStep(c) ==
    \/ CopyPackets(c) \/ CopySpofs(c) \/ ClearPackets(c) \/ ClearSpofs(c)
    \/ SendData(c) \/ ResponseLost(c)

Next ==
    \/ Periodic
    \/ \E c \in Clients : Request(c) \/ ScanStep(c)
    \/ Crash \/ Restart
    \/ \E o \in orphans : OrphanWrites(o) \/ OrphanFails(o)
    \/ \E p \in Pids : ProcessChanges(p)

Spec == Init /\ [][Next]_vars

\* The periodic thread's sleep and its scripts end.
FairSpec == Spec /\ WF_vars(Periodic)

-----------------------------------------------------------------------------
(* Properties.                                                             *)

\* Every variable keeps its type, and a batch of findings lives only from the
\* log it is read from to its last push_back.
TypeOK ==
    /\ up \in BOOLEAN
    /\ proc \in [Pids -> {"none", "good", "bad"}]
    /\ malicious_log \in Seq(Lines) /\ Len(malicious_log) =< MaxLines
    /\ at \in {"sleep", "sniff", "open", "read", "push", "insert"}
    /\ lines \in Seq(Lines) /\ Len(lines) =< MaxLines
    /\ at \notin {"sniff", "read"} => lines = <<>>
    /\ orphans \in SUBSET ListsOf(Lines)
    /\ results \in Seq(SUBSET Pids)
    /\ at \notin {"read", "push"} => results = <<>>
    /\ spofing \in Spofs
    /\ at # "insert" => spofing = NoSpofs
    /\ packets \in SUBSET SUBSET Pids
    /\ spofs \in Spofs
    /\ pc \in [Clients -> {"idle", "packets", "spofs", "clear_packets",
                           "clear_spofs", "respond"}]
    /\ packetsResp \in [Clients -> SUBSET SUBSET Pids]
    /\ spofResp \in [Clients -> Spofs]
    /\ owed \in SUBSET Pids /\ excused \in SUBSET Pids
    /\ spofOwed \in SUBSET Ips /\ spofExcused \in SUBSET Ips

InHand == UNION {results[k] : k \in DOMAIN results}
Copied == UNION {Named(packetsResp[c]) : c \in Clients}
SpofInHand == Listed(spofing)
SpofCopied == UNION {Listed(spofResp[c]) : c \in Clients}

\* Whoever scans and clears, in whatever order, a kill can go unreported in
\* four ways only: its batch ended in an exception, the backend crashed, the
\* last entry that names it was added between a scan's copy and its clear, or
\* the response that had it could not be serialized or found the client gone.
\* Otherwise it is in the periodic thread's hands, in the store, or in the
\* response of a scan that is under way.
KillsAccounted ==
    owed \subseteq InHand \cup Named(packets) \cup Copied \cup excused

\* The same for an address that tried to spoof, whatever its ports: inserting
\* over a store that is not empty loses no address.
SpofsAccounted ==
    spofOwed \subseteq SpofInHand \cup Listed(spofs) \cup SpofCopied
                            \cup spofExcused

\* No line of a log and no exception stops the periodic scans.
ScansForever ==
    /\ []<>(at = "sleep" \/ ~up)
    /\ []<>(at # "sleep" \/ ~up)

\* Between the script's look at a process and its death lie seconds of sniffing,
\* failed scripts with the log left as it was, scripts of a dead backend that
\* write over each other, and restarts.  A process that does not talk to a
\* malicious address is killed only by a line that it, or whoever had its pid,
\* was listed in: since the look it has begun or become harmless, or the server
\* answered wrongly; or by a line that is read as another number than was
\* written, for a dash in a name or for being joined of two.
KillsWhatItSaw ==
    [][results' # results =>
        \A p \in Pids : proc'[p] # proc[p] =>
            \/ proc[p] = "bad"
            \/ Head(lines).doubt
            \/ Head(lines).reads # Head(lines).pid]_vars

-----------------------------------------------------------------------------
(* The inductive invariant behind the proofs of NetScanProofs.             *)

\* Each entry of a batch tells of all the kills before it as well.
Cumulative == \A k \in DOMAIN results : results[k] \subseteq Output

\* A process that a line lists beyond doubt is bad, or dead.
Sound(s) == \A k \in DOMAIN s : s[k].doubt \/ proc[s[k].pid] \in {"bad", "none"}

\* Wherever the line is: in the log, or with a script or packetScan.
LogInv == Sound(malicious_log) /\ Sound(lines) /\ \A o \in orphans : Sound(o)

\* A response is empty until its store is copied.
EmptyUntilCopied ==
    \A c \in Clients :
        /\ pc[c] \in {"idle", "packets"} => packetsResp[c] = {}
        /\ pc[c] \in {"idle", "packets", "spofs"} => spofResp[c] = NoSpofs

\* What is in a store, and was not added during a scan's copy and clear, is in
\* the response of every scan that is about to clear the store.
KillsInv ==
    /\ KillsAccounted /\ Cumulative /\ EmptyUntilCopied
    /\ \A c \in PacketsWindow :
            Named(packets) \subseteq Named(packetsResp[c]) \cup excused

SpofsInv ==
    /\ SpofsAccounted /\ EmptyUntilCopied
    /\ \A c \in SpofWindow :
            Listed(spofs) \subseteq Listed(spofResp[c]) \cup spofExcused
=============================================================================
