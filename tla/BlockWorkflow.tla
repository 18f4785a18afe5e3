---------------------------- MODULE BlockWorkflow ----------------------------
(***************************************************************************)
(* How a process is blocked, freed or killed.  The archives window sends   *)
(* two requests on a connection of their own: the first has the driver     *)
(* signal the process, and is answered; the second adds the process to the *)
(* table of blocked processes, or removes it, and the window does not wait *)
(* for its answer.  Each connection has a thread of the backend: the       *)
(* second request of one click may be handled after those of the next.     *)
(* The scans of the system tables ask the driver in the same way.          *)
(*                                                                         *)
(* The driver is seen from outside: SpybotDriver has its inside.           *)
(***************************************************************************)
EXTENDS Integers

CONSTANTS
    Clients,   \* user interfaces, each a process with one thread
    Pids,
    None,
    Asks,      \* bound: what is asked for
    MaxClicks, \* bound: how often
    MaxFaults  \* bound: crashes, departures, failed insertions, unloadings, and
               \* reuses of a pid

Signals  == {"block", "free", "kill"}
Requests == [op : Signals, pid : Pids] \cup [op : {"scan"}, pid : {None}]

ASSUME WorkflowAssumption ==
    /\ Asks \subseteq Requests
    /\ MaxClicks \in Nat /\ MaxFaults \in Nat
    /\ None \notin Pids /\ None \notin Clients

Clicks == 1 .. MaxClicks

\* sctScan and idtScan: -1, or the number of an entry that is hooked.
ScanAnswers == {-1, 0}
Answers     == ScanAnswers \cup {0, 1}

VARIABLES
    up,      \* does the backend run
    device,  \* is the driver loaded
    result,  \* the driver's answer to the last SEND
    status,  \* of each process: "running", "stopped", "none"
    rows,    \* BlockedTable: how many rows has each process
    thread,  \* of each click: its request, and where the thread handling it is
    busy,    \* the click each client is waiting for the end of, or 0
    clicks,  \* counts the clicks
    faults,  \* counts the faults
    settled  \* history: was the last click on the process quiet to its end,
             \* with no later click and no other process of that number

kernel == <<device, result, status>>
vars == <<up, kernel, rows, thread, busy, clicks, faults, settled>>

\* Two fields are history: quiet, has nothing disturbed the click, and earned,
\* the driver's answers since the click's SEND.
NoThread == [at |-> "none", op |-> "scan", pid |-> None, answer |-> 0,
             quiet |-> FALSE, earned |-> {}]

Init ==
    /\ up = TRUE
    /\ device \in BOOLEAN
    /\ result = 0
    /\ status \in [Pids -> {"running", "none"}]
    /\ rows = [p \in Pids |-> 0]
    /\ thread = [k \in Clicks |-> NoThread]
    /\ busy = [c \in Clients |-> 0]
    /\ clicks = 0 /\ faults = 0
    /\ settled = [p \in Pids |-> FALSE]

At(k, place) == up /\ thread[k].at = place
ClicksOn(p)  == {k \in Clicks : thread[k].at # "none" /\ thread[k].pid = p}
Fault        == faults < MaxFaults /\ faults' = faults + 1
Disturbed(ks) == [k \in Clicks |-> IF k \in ks THEN [thread[k] EXCEPT !.quiet = FALSE]
                                   ELSE thread[k]]
Gone(k)      == thread' = [thread EXCEPT ![k] = NoThread]

-----------------------------------------------------------------------------
(* The window.                                                             *)

\* A click connects and sends the first request.
Click(c) ==
    /\ up /\ busy[c] = 0 /\ clicks < MaxClicks
    /\ clicks' = clicks + 1
    /\ busy' = [busy EXCEPT ![c] = clicks']
    /\ \E r \in Asks :
        /\ thread' = [Disturbed(ClicksOn(r.pid)) EXCEPT ![clicks'] =
                        [at |-> "signal", op |-> r.op, pid |-> r.pid, answer |-> 0,
                         quiet |-> ClicksOn(r.pid) = {}, earned |-> {}]]
        /\ settled' = [p \in Pids |-> settled[p] /\ p # r.pid]
    /\ UNCHANGED <<up, kernel, rows, faults>>

\* The answer is shown, and whatever it is the table is to follow.  Nothing
\* of that kind follows a kill or a scan.
GetReply(c) ==
    LET k == busy[c]
        t == thread[k]
    IN  /\ k # 0 /\ At(k, "answered")
        /\ IF t.op \in {"block", "free"}
           THEN /\ thread' = [thread EXCEPT ![k].at = "update"]
                /\ UNCHANGED settled
           ELSE /\ Gone(k)
                /\ settled' = [p \in Pids |-> IF p = t.pid THEN t.quiet ELSE settled[p]]
        /\ busy' = [busy EXCEPT ![c] = 0]
        /\ UNCHANGED <<up, kernel, rows, clicks, faults>>

\* The client's process ends; its request is handled all the same.
Leave(c) ==
    LET k == busy[c] IN
    /\ k # 0 /\ Fault
    /\ busy' = [busy EXCEPT ![c] = 0]
    /\ IF thread[k].at = "answered" THEN Gone(k) ELSE thread' = Disturbed({k})
    /\ UNCHANGED <<up, kernel, rows, clicks, settled>>

\* getBlockedPorcesses, and ToggleTable2, which leaves out the numbers that
\* no process has.
Listed == {p \in Pids : rows[p] > 0 /\ status[p] # "none"}

-----------------------------------------------------------------------------
(* The thread of a connection.                                             *)

\* open and SEND: the driver signals the process, or scans a table.
Send(k) ==
    LET t == thread[k]
        alive == t.op # "scan" /\ status[t.pid] # "none"
        after == CASE t.op = "block" -> "stopped"
                   [] t.op = "free"  -> "running"
                   [] OTHER          -> "none"
    IN  /\ At(k, "signal") /\ device
        /\ status' = IF alive THEN [status EXCEPT ![t.pid] = after] ELSE status
        /\ result' \in IF t.op = "scan" THEN ScanAnswers ELSE {IF alive THEN 1 ELSE 0}
        /\ thread' = [j \in Clicks |->
                        IF j = k THEN [t EXCEPT !.at = "recv", !.earned = {result'}]
                        ELSE IF thread[j].at = "recv"
                        THEN [thread[j] EXCEPT !.earned = @ \cup {result'}]
                        ELSE thread[j]]
        /\ UNCHANGED <<up, device, rows, busy, clicks, faults, settled>>

\* The client is told, if it is still there.  Without the driver nothing was done.
Answer(k, value) ==
    /\ IF \E c \in Clients : busy[c] = k
       THEN thread' = [thread EXCEPT ![k].at = "answered", ![k].answer = value,
                                       ![k].quiet = @ /\ device]
       ELSE Gone(k)
    /\ UNCHANGED <<up, kernel, rows, busy, clicks, faults, settled>>

\* Mutant: no answer is sent when the driver has failed.
RecvSilent(k) ==
    /\ At(k, "recv")
    /\ IF result = 0 THEN Gone(k) /\ UNCHANGED <<up, kernel, rows, busy, clicks, faults, settled>>
       ELSE Answer(k, result)

\* RECV and close.  Another's SEND may have come between.
Recv(k) == At(k, "recv") /\ Answer(k, result)

\* Mutant: the answer is not set to 0 before the two calls.
NoDeviceStale(k) == At(k, "signal") /\ ~device /\ Answer(k, result)

\* open fails, and is not looked at; nor do the two calls do anything.
NoDevice(k) == At(k, "signal") /\ ~device /\ Answer(k, 0)

\* Mutants: removing takes one row.
UpdatedDown(t) == [rows EXCEPT ![t.pid] = IF t.op = "block" THEN @ + 1 ELSE @ - 1]
UpdatedByOne(t) ==
    [rows EXCEPT ![t.pid] = CASE t.op = "block" -> @ + 1
                              [] @ = 0          -> 0
                              [] OTHER          -> @ - 1]

\* The second request.  Adding looks for no other row; removing takes all.
Updated(t) == [rows EXCEPT ![t.pid] = IF t.op = "block" THEN @ + 1 ELSE 0]

UpdateTable(k) ==
    /\ At(k, "update")
    /\ Gone(k)
    /\ rows' = Updated(thread[k])
    /\ settled' = [settled EXCEPT ![thread[k].pid] = thread[k].quiet]
    /\ UNCHANGED <<up, kernel, busy, clicks, faults>>

\* updateVirusTables writes on a connection of its own, and locks out others.
UpdateFails(k) ==
    /\ At(k, "update") /\ Fault
    /\ Gone(k)
    /\ UNCHANGED <<up, kernel, rows, busy, clicks, settled>>

-----------------------------------------------------------------------------
(* Crashes, the driver and the processes.                                  *)

\* The backend dies.  Who waits for an answer gets an exception, which ends
\* the client.
Crash ==
    /\ up /\ Fault
    /\ up' = FALSE
    /\ thread' = [k \in Clicks |-> NoThread]
    /\ busy' = [c \in Clients |-> 0]
    /\ UNCHANGED <<kernel, rows, clicks, settled>>

Restart ==
    /\ ~up /\ up' = TRUE
    /\ UNCHANGED <<kernel, rows, thread, busy, clicks, faults, settled>>

\* A module in use is not unloaded.
Rmmod ==
    /\ device /\ ~\E k \in Clicks : thread[k].at = "recv"
    /\ Fault
    /\ device' = FALSE
    /\ UNCHANGED <<up, result, status, rows, thread, busy, clicks, settled>>

Insmod ==
    /\ ~device
    /\ device' = TRUE /\ result' = 0
    /\ UNCHANGED <<up, status, rows, thread, busy, clicks, faults, settled>>

Exit(p) ==
    /\ status[p] # "none"
    /\ status' = [status EXCEPT ![p] = "none"]
    /\ UNCHANGED <<up, device, result, rows, thread, busy, clicks, faults, settled>>

\* A new process gets the number.
Start(p) ==
    /\ status[p] = "none" /\ Fault
    /\ status' = [status EXCEPT ![p] = "running"]
    /\ thread' = Disturbed(ClicksOn(p))
    /\ settled' = [settled EXCEPT ![p] = FALSE]
    /\ UNCHANGED <<up, device, result, rows, busy, clicks>>

ThreadStep(k) ==
    Send(k) \/ Recv(k) \/ NoDevice(k) \/ UpdateTable(k) \/ UpdateFails(k)

\* The bounds allow no more clicks.
NothingAsked ==
    /\ up /\ clicks = MaxClicks /\ \A k \in Clicks : thread[k] = NoThread
    /\ UNCHANGED vars

Next ==
    \/ \E c \in Clients : Click(c) \/ GetReply(c) \/ Leave(c)
    \/ \E k \in Clicks : ThreadStep(k)
    \/ \E p \in Pids : Exit(p) \/ Start(p)
    \/ Crash \/ Restart \/ Rmmod \/ Insmod \/ NothingAsked

Fairness ==
    /\ \A k \in Clicks : WF_vars(ThreadStep(k))
    /\ \A c \in Clients : WF_vars(GetReply(c))

Spec == Init /\ [][Next]_vars /\ Fairness

-----------------------------------------------------------------------------
(* Properties.                                                             *)

\* Every variable has its type.
TypeOK ==
    /\ up \in BOOLEAN /\ device \in BOOLEAN
    /\ result \in Answers
    /\ status \in [Pids -> {"running", "stopped", "none"}]
    /\ rows \in [Pids -> Nat]
    /\ thread \in [Clicks -> [at : {"none", "signal", "recv", "answered", "update"},
                              op : Signals \cup {"scan"}, pid : Pids \cup {None},
                              answer : Answers, quiet : BOOLEAN,
                              earned : SUBSET Answers]]
    /\ busy \in [Clients -> 0 .. MaxClicks]
    /\ clicks \in 0 .. MaxClicks /\ faults \in 0 .. MaxFaults
    /\ settled \in [Pids -> BOOLEAN]

\* The table agrees with the processes wherever it can.  A click on a process
\* is undisturbed when no other on it is under way, the driver is there, the
\* insertion works, and neither side dies; after it the window lists the
\* process exactly when it is stopped, whatever disagreement crashes, races,
\* failures and double clicks have left before, and until the next click on
\* it or reuse of its number.
SettledShown ==
    \A p \in Pids : settled[p] => (p \in Listed <=> status[p] = "stopped")

\* What a client is told comes from a call the driver served while the client's
\* own was in progress, or is 0 because there is no driver: success is never
\* reported, nor "no hook", from the time before an unloading or a crash.
AnswerEarned ==
    \A k \in Clicks : thread[k].at \in {"answered", "update"} =>
        thread[k].answer \in (IF thread[k].earned = {} THEN {0} ELSE thread[k].earned)

\* The window, which waits inside a click, comes back, whether the driver is
\* there or not, and whoever dies.
ClickEnds == \A c \in Clients : busy[c] # 0 ~> busy[c] = 0
=============================================================================
