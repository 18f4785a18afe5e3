--------------------------- MODULE BlacklistServer ---------------------------
(***************************************************************************)
(* The server of black lists and its updaters.  ServerData.db has a table  *)
(* of addresses and one of hashes.  The server looks up and adds rows for  *)
(* its clients, a thread for each, all on one connection to the database,  *)
(* which makes every statement wait for the others'.  Updater.py is        *)
(* another process: each midnight it downloads a list of addresses, then   *)
(* one of hashes, and adds what its table has not.  While its insertion is *)
(* being written no other connection can read or write the tables.         *)
(*                                                                         *)
(* Each start of the server starts an updater, which nothing ends but its  *)
(* own failures: it outlives the server.                                   *)
(***************************************************************************)
EXTENDS Integers, Sequences, FiniteSets

CONSTANTS
    Updaters,  \* processes that may run Updater.py, each started once
    Ips,
    Hashes,
    None,
    Lists,     \* bounds: what the sources may list, what is asked for, and
    Asks,      \* how many requests, midnights and faults there are in all
    MaxEvents

ASSUME BlacklistAssumption ==
    /\ IsFiniteSet(Updaters)
    /\ Ips \cap Hashes = {} /\ None \notin Ips \cup Hashes \cup Updaters
    /\ Lists \subseteq SUBSET (Ips \cup Hashes)
    /\ Asks \subseteq [op : {"scan"}, keys : {<<i>> : i \in Ips} \cup Seq(Hashes)]
                   \cup [op : {"save"}, keys : {<<key>> : key \in Ips \cup Hashes}]
    /\ MaxEvents \in Nat

Keys == Ips \cup Hashes

\* The relay and hash-scanner.py connect for each request.
Connections == 1 .. MaxEvents

\* What is in a table: a key, and whether a carriage return follows it.  The
\* list of hashes has one at the end of each line, as ServerData.db shows: the
\* 1414 hashes from the list have it, the one added by hand has not.
Plain(key) == <<key, FALSE>>
Line(key)  == <<key, key \in Hashes>>
Texts      == {Plain(key) : key \in Keys} \cup {Line(key) : key \in Keys}

VARIABLES
    up,       \* does the server run
    rows,     \* how many rows of its table have this text
    list,     \* the keys that the sources list since midnight: getHash takes
              \* any line for a hash, those of an error page too
    night,    \* counts the midnights
    updater,  \* of each process: what it is at, the lines still to be looked
              \* up, and the one found to be missing
    lock,     \* the updater that is writing, or None
    request,  \* of each connection: the keys it asks about, the answers so far;
              \* history: what the tables held when it began, and which
              \* answers came while they were locked
    asks,     \* counts the requests
    faults,   \* counts the faults
    told      \* history: of each text, how many additions clients were told of

vars == <<up, rows, list, night, updater, lock, request, asks, faults, told>>

NoUpdater == [at |-> "none", todo |-> {}, missing |-> None]
NoRequest == [op |-> "none", keys |-> <<>>, answers |-> <<>>, before |-> {}, torn |-> {}]

Init ==
    /\ up = FALSE
    /\ rows = [t \in Texts |-> 0]
    /\ list = {}
    /\ night = 0
    /\ updater = [u \in Updaters |-> NoUpdater]
    /\ lock = None
    /\ request = [c \in Connections |-> NoRequest]
    /\ asks = 0 /\ faults = 0
    /\ told = [t \in Texts |-> 0]

Alive(u) == updater[u].at \notin {"none", "dead"}
MoreEvents == asks + night + faults < MaxEvents
Fault == MoreEvents /\ faults' = faults + 1

-----------------------------------------------------------------------------
(* The server.                                                             *)

\* The updater is a detached thread's system(): it may not have started when
\* the server ends, or may not start at all.
StartUpdater ==
    \/ UNCHANGED updater
    \/ \E u \in Updaters : /\ updater[u].at = "none"
                           /\ updater' = [updater EXCEPT ![u].at = "idle"]

\* main.  Server::Server starts the updater before serve tries to bind.
StartServer ==
    /\ ~up
    /\ up' = TRUE
    /\ StartUpdater
    /\ UNCHANGED <<rows, list, night, lock, request, asks, faults, told>>

\* The port is taken, by a server that runs or by what an earlier one left.
BindFails ==
    /\ StartUpdater
    /\ UNCHANGED <<up, rows, list, night, lock, request, asks, faults, told>>

ServerDies ==
    /\ up /\ Fault
    /\ up' = FALSE
    /\ request' = [c \in Connections |-> NoRequest]
    /\ UNCHANGED <<rows, list, night, updater, lock, asks, told>>

Stored == {t \in Texts : rows[t] > 0}

\* A scan of one address or of a list of hashes, or the addition of either.
Request(c) ==
    /\ up /\ MoreEvents
    /\ c = asks + 1 /\ asks' = c
    /\ \E r \in Asks :
        request' = [request EXCEPT ![c] =
            [op |-> r.op, keys |-> r.keys, answers |-> <<>>, before |-> Stored, torn |-> {}]]
    /\ UNCHANGED <<up, rows, list, night, updater, lock, faults, told>>

\* Mutant: one row is too few.
OverOne(key) == rows[Plain(key)] > 1

\* SELECT COUNT of the rows with exactly this text, compared with 1.
IsMalicious(key) == rows[Plain(key)] >= 1

\* IPisMalicious and HASHisMalicious: a statement that fails calls nothing
\* back, and `ans` is what the stack had.
Lookup(c) ==
    LET r == request[c]
        k == Len(r.answers) + 1
    IN  /\ up /\ r.op = "scan" /\ k <= Len(r.keys)
        /\ \E answer \in IF lock = None THEN {IsMalicious(r.keys[k])} ELSE BOOLEAN :
            request' = [request EXCEPT
                ![c].answers = Append(@, answer),
                ![c].torn = IF lock = None THEN @ ELSE @ \cup {k}]
        /\ UNCHANGED <<up, rows, list, night, updater, lock, asks, faults, told>>

\* Mutant: the result of the statement is not looked at.
SaveBlindly(c) ==
    LET r == request[c] IN
    /\ up /\ r.op = "save" /\ r.answers = <<>>
    /\ rows' = IF lock = None THEN [rows EXCEPT ![Plain(r.keys[1])] = @ + 1] ELSE rows
    /\ told' = [told EXCEPT ![Plain(r.keys[1])] = @ + 1]
    /\ request' = [request EXCEPT ![c].answers = <<TRUE>>]
    /\ UNCHANGED <<up, list, night, updater, lock, asks, faults>>

\* addIP and addHASH: nothing asks whether the row is there.
Save(c) ==
    LET r == request[c]
        isWorked == lock = None
    IN  /\ up /\ r.op = "save" /\ r.answers = <<>>
        /\ rows' = IF isWorked THEN [rows EXCEPT ![Plain(r.keys[1])] = @ + 1] ELSE rows
        /\ told' = IF isWorked THEN [told EXCEPT ![Plain(r.keys[1])] = @ + 1] ELSE told
        /\ request' = [request EXCEPT ![c].answers = <<isWorked>>]
        /\ UNCHANGED <<up, list, night, updater, lock, asks, faults>>

Answer(c) ==
    /\ up /\ request[c] # NoRequest
    /\ Len(request[c].answers) = Len(request[c].keys)
    /\ request' = [request EXCEPT ![c] = NoRequest]
    /\ UNCHANGED <<up, rows, list, night, updater, lock, asks, faults, told>>

-----------------------------------------------------------------------------
(* The updaters.                                                           *)

\* schedule.run_pending finds the task due.  A task that still runs is given
\* its next midnight when it returns, and misses this one.
Midnight ==
    /\ MoreEvents /\ night' = night + 1
    /\ list' \in Lists
    /\ updater' = [u \in Updaters |->
            IF updater[u].at = "idle" THEN [NoUpdater EXCEPT !.at = "getIps"]
                                      ELSE updater[u]]
    /\ UNCHANGED <<up, rows, lock, request, asks, faults, told>>

\* getIP and getHash: the whole list is in memory before its first line is
\* looked up.
Download(u) ==
    /\ \/ /\ updater[u].at = "getIps"
          /\ updater' = [updater EXCEPT ![u].at = "ips", ![u].todo = list \cap Ips]
       \/ /\ updater[u].at = "getHashes"
          /\ updater' = [updater EXCEPT ![u].at = "hashes", ![u].todo = list \cap Hashes]
    /\ UNCHANGED <<up, rows, list, night, lock, request, asks, faults, told>>

\* Mutant: every line is taken for a new one.
NeverExists(line) == FALSE

isExists(line) == rows[line] > 0

LookUpLine(u) ==
    /\ lock = None
    /\ updater[u].missing = None
    /\ \E key \in updater[u].todo :
        updater' = IF isExists(Line(key)) THEN [updater EXCEPT ![u].todo = @ \ {key}]
                                          ELSE [updater EXCEPT ![u].missing = key]
    /\ UNCHANGED <<up, rows, list, night, lock, request, asks, faults, told>>

\* executescript waits for another's insertion to end.
BeginInsert(u) ==
    /\ lock = None
    /\ updater[u].missing # None
    /\ lock' = u
    /\ UNCHANGED <<up, rows, list, night, updater, request, asks, faults, told>>

EndInsert(u) ==
    LET key == updater[u].missing IN
    /\ lock = u
    /\ lock' = None
    /\ rows' = [rows EXCEPT ![Line(key)] = @ + 1]
    /\ updater' = [updater EXCEPT ![u].missing = None, ![u].todo = @ \ {key}]
    /\ UNCHANGED <<up, list, night, request, asks, faults, told>>

\* Mutant: the hashes are left for another night.
EndOfListStops(u) ==
    /\ updater[u].at \in {"ips", "hashes"} /\ updater[u].todo = {}
    /\ updater' = [updater EXCEPT ![u].at = "idle"]
    /\ UNCHANGED <<up, rows, list, night, lock, request, asks, faults, told>>

\* blocklistTask returns, then BazzarTask.
EndOfList(u) ==
    /\ updater[u].at \in {"ips", "hashes"} /\ updater[u].todo = {}
    /\ updater' = [updater EXCEPT ![u].at = IF @ = "ips" THEN "getHashes" ELSE "idle"]
    /\ UNCHANGED <<up, rows, list, night, lock, request, asks, faults, told>>

\* Mutant: what died goes on locking the database.
DieLocking(u) ==
    /\ Alive(u) /\ Fault
    /\ updater' = [updater EXCEPT ![u] = [NoUpdater EXCEPT !.at = "dead"]]
    /\ UNCHANGED <<up, rows, list, night, lock, request, asks, told>>

\* get raises when a source cannot be reached, executescript when the database
\* stays locked, and nothing catches either; or the process is killed.  What it
\* was writing is rolled back, and the second task is not run.
Die(u) ==
    /\ Alive(u) /\ Fault
    /\ updater' = [updater EXCEPT ![u] = [NoUpdater EXCEPT !.at = "dead"]]
    /\ lock' = IF lock = u THEN None ELSE lock
    /\ UNCHANGED <<up, rows, list, night, request, asks, told>>

Task(u) ==
    Download(u) \/ LookUpLine(u) \/ BeginInsert(u) \/ EndInsert(u) \/ EndOfList(u)

\* The bound allows nothing more.
NothingLeft ==
    /\ up /\ ~MoreEvents /\ \A c \in Connections : request[c] = NoRequest
    /\ \A u \in Updaters : updater[u].at \in {"none", "idle", "dead"}
    /\ UNCHANGED vars

Next ==
    \/ StartServer \/ BindFails \/ ServerDies
    \/ \E c \in Connections :
        Request(c) \/ Lookup(c) \/ Save(c) \/ Answer(c)
    \/ Midnight
    \/ \E u \in Updaters : Task(u) \/ Die(u)
    \/ NothingLeft

\* A source answers or cannot be reached, and Updater.py, a process of its own,
\* is given the processor.
Spec == Init /\ [][Next]_vars /\ \A u \in Updaters : WF_vars(Task(u))

-----------------------------------------------------------------------------
(* Properties.                                                             *)

\* Every variable has its type, no request has more answers than keys, and the
\* database is locked only by a live updater with a line to insert.
TypeOK ==
    /\ up \in BOOLEAN
    /\ rows \in [Texts -> Nat]
    /\ list \in Lists \cup {{}}
    /\ night \in 0 .. MaxEvents
    /\ updater \in [Updaters ->
            [at : {"none", "idle", "getIps", "ips", "getHashes", "hashes", "dead"},
             todo : SUBSET Keys, missing : Keys \cup {None}]]
    /\ lock \in {None} \cup {u \in Updaters : updater[u].missing # None}
    /\ request \in [Connections ->
            [op : {"none", "scan", "save"}, keys : Seq(Keys), answers : Seq(BOOLEAN),
             before : SUBSET Texts, torn : SUBSET Nat]]
    /\ \A c \in Connections :
        /\ Len(request[c].answers) <= Len(request[c].keys)
        /\ request[c].torn \subseteq 1 .. Len(request[c].answers)
    /\ asks \in 0 .. MaxEvents /\ faults \in 0 .. MaxEvents
    /\ told \in [Texts -> Nat]

\* The answers of a scan, by position, that did not come from a locked database.
Clear(c) == IF request[c].op = "scan"
            THEN DOMAIN request[c].answers \ request[c].torn ELSE {}

\* A list of hashes is looked up one by one while other threads and the
\* updaters add rows.  But for the database being locked, which makes an answer
\* arbitrary, each answer fits its own key: what is called malicious has a row,
\* and what is called clean had none when the scan began.
AnswersFit ==
    \A c \in Connections : \A i \in Clear(c) :
        LET text == Plain(request[c].keys[i]) IN
        IF request[c].answers[i] THEN rows[text] > 0 ELSE text \notin request[c].before

Begun == {u \in Updaters : updater[u].at # "none"}

\* However the updaters of several servers, dead and alive, look and insert
\* between each other, each of them adds a line once in its life at most; and
\* no addition that a client was told of is missing.
RowsExplained ==
    \A t \in Texts :
        /\ told[t] <= rows[t]
        /\ rows[t] <= told[t] + Cardinality(Begun)

\* A line that is listed at midnight gets into its table, unless the list drops
\* it or the updater dies: other updaters, alive or killed while they write,
\* and a server that dies, keep no updater from both its lists.
ListedIsStored ==
    \A u \in Updaters : \A key \in Keys :
        updater[u].at = "getIps" /\ key \in list
            ~> rows[Line(key)] > 0 \/ key \notin list \/ updater[u].at = "dead"
=============================================================================
