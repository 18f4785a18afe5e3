# Linux-Defender: a TLA+ verification project

Linux-Defender is an antivirus in four parts: a kernel module (`Driver/`), a
backend daemon (`Backend/`), a blacklist server (`Server/`) and a desktop client
(`UIclient/`). This directory holds TLA+ models of its concurrent core, the TLC
configurations that check them on small instances, and TLAPS proofs of their main
safety properties for instances of any size.

    tlc -workers 2 -config MCSpybotCalls.cfg MCSpybotDriver
    tlapm SpybotDriverProofs.tla

## 1. Inventory

| component | state it keeps | operations | what is hard about it |
|---|---|---|---|
| Kernel module, ioctl side (`Driver/spybot.c`) | `sys_call_table` and its copy `temp_sct`, the IDT and `temp_idt`, `execve_scf`, the page protection, one global `result` | load, unload, SEND (KILL, SUSPEND, CONT, SCT_SCAN, SCT_FIX, IDT_SCAN, GET_HOOK), RECV | any number of threads, no lock; SEND and RECV are two calls; the tables change while they are scanned; tasks exit while they are signalled; loading fails half-way |
| Kernel module, execve records (same file) | the list `hooks_list`, `hook_id`, `hook_mutex` | `new_execve` appends, GET_HOOK pops, `cleanup_spybot` drains | every execve of the system runs it; unloading does not wait for it; the counter is outside the mutex |
| Backend: accept loop, client threads (`Backend.cpp`) | sockets, the shared `_ServerSocket` | accept, dispatch by code, relay to the server | one detached thread per client; all relays share one descriptor |
| Backend: periodic thread (`PeriodicScanHandler.cpp`) | `_packetScanResult`, `_spofingScanResult`, `_time`, log files of fixed names | network scans at intervals, kills by the driver | shares its stores with every client's scan, without a lock; scripts fail and leave old logs |
| Backend: scans on request (`RequestHandler::scan`) | a response | yara, hash, port, table scans; copies and clears the stores | log files of fixed names shared by all scans; static path vectors rewritten by each |
| Backend: database (`SqliteHelper.cpp`, `Helper.cpp`) | tables of blocked processes and viruses | add, remove, list | blocking is a signal and a row, in two requests handled by two threads; numbers of processes are reused; a second connection of the same program locks the tables |
| Framing (`Helper.cpp` twice, `Communication.cs`) | none | code, length, payload over TCP | short reads and end of stream pass for success |
| Blacklist server (`Server/*.cpp`) | tables of addresses and hashes | look up, add | threads share a connection and, with the updaters, one SQLite file; a statement that fails leaves the answer undefined |
| Blacklist updater (`Server/*.py`) | the downloaded lists | each midnight: download, look up each line, insert | one process for each start of the server, which it outlives; looks and insertions are separate statements; any exception ends it for good |
| Client (`UIclient/`) | the archives window's list | block, free, kill: a request to the driver, and one to the table | the second request is not waited for; the list is a join of the table and of `/proc` |

How they interact: the client sends requests to the backend over TCP; the backend
opens `/dev/spybot` and issues SEND and RECV for each kill, suspension or table scan;
it runs Python scripts that leave their results in log files; requests 112 to 115 are
relayed to the server, which the scripts also ask directly. The periodic thread and
the client threads share the static result stores.

What makes each part correct: an answer of the driver belongs to the request and is
right about some moment of it; a repair never undoes the driver's own hook; unloading
leaves nothing behind; each execve record is kept once, in order, and is handed out
once; what the network scans find and kill reaches a client; a relayed answer reaches
the client that asked; once a click is over the window lists the process exactly while
it is stopped; a look-up fits its key, no addition is lost, and what is downloaded is
stored; a message is read as it was sent.

## 2. Modules

| module | models |
|---|---|
| `SpybotDriver` | `Driver/spybot.c` but for the list of records, with the callers of `RequestHandler::communicateWithDriver` |
| `SpybotDriverProofs` | its theorems |
| `HookFifo` | what the comments on `add_hook` and `pop_hook` promise: a queue of records |
| `HookList` | the linked list that implements it, pointer by pointer, with `hook_mutex`, `hook_id`, the allocator and the unloading |
| `HookListProofs` | its theorems |
| `NetScan` | the periodic thread, `net-scanner.py` and its log, what `spofing-scanner.py` leaves, and the scans that copy and clear the result stores and send a response |
| `NetScanProofs` | its theorems |
| `FileScan` | the file part of `RequestHandler::scan`: the configuration's static vectors, `yaraScan` and `hashScan`, their scripts and those of a dead backend, the logs and the table of viruses |
| `FileScanProofs` | its theorems |
| `RemoteCall` | what the relay promises while no two relays overlap: a request is taken up while its client waits, and then answered once |
| `ServerRelay` | the backend's thread per connection, and its relay of requests to the blacklist server, which implement it |
| `ServerRelayProofs` | its theorems |
| `BlockWorkflow` | a click of the archives window: the signal by the driver, the answer, the table of blocked processes; the scans of the system tables; the driver seen from outside |
| `BlockWorkflowProofs` | its theorems |
| `BlacklistServer` | the server's tables, the threads that look up and add, the updaters |
| `BlacklistServerProofs` | its theorems |
| `MCSpybotDriver`, `MCHookList`, `MCNetScan`, `MCFileScan`, `MCServerRelay`, `MCBlockWorkflow`, `MCBlacklistServer` | the instances TLC checks |

`HookList` implements `HookFifo`, and `ServerRelay` `RemoteCall` (both checked as
properties and proved). The others meet where one
calls the other, and each takes the other's part as its environment: `NetScan` and
`SpybotDriver` at the kill and scan requests, `FileScan` and `NetScan` inside one scan
request, `BlockWorkflow` and `SpybotDriver` at SEND and RECV, `ServerRelay` and
`BlacklistServer` at a request to the server. There is no module that composes them, so
each is only as good as its environment: `NetScan` and `FileScan` take an answer of the
server to be right about a blacklist of their own or, while its database is locked,
anything (`Wrongly`, `ServerIsWrong`); `BlacklistServer` is where it is shown which
answers those are. A crash of the backend may have its cause in another module; each
module that has one lets it come at any step.

### SpybotDriver

Each ioctl is split where another thread can come between: a SEND finds the task
(`FindTask`) and then signals it (`SendSig`); a scan compares one entry a step
(`CompareScts`, `CompareIdts`); `fix_sct` makes the page writable, stores, and seals
it (`SetPageRw`, `WriteEntry`, `SetPageRo`); the answer is stored in `result`
(`StoreResult`) and read back by the second call (`Recv`). `val[c]` is the value a
handler has computed and not yet assigned. `Insmod` to `CdevAdd` are the steps of
`init_spybot`, `InitFails` its two error returns, `Rmmod` to `Unregister`
`cleanup_spybot`. The rest of the kernel patches table entries, starts and ends
processes at any time.

A table entry is one of a few handlers: the kernel's, a rootkit's, the driver's
(`own`), or the driver's after its memory is gone (`dangling`). The word after each
SCT array is modelled because `fix_sct` admits the index `__NR_syscalls`, writes that
word and reports success: `driver_fix_index` shows it against the comment on `fix_sct`,
and `FixVerdict` claims something of the entries of the table proper and of the indices
that are refused only. A stale task
pointer may deliver its signal to any process or to none; a store to a page that
another caller has sealed may fault (`WriteFaults`) or succeed through a cached
translation. `held` and `seen` are history: the facts a request is about that were
true all through the call, and at some time in it. `Observe` keeps them up to date.

### HookList

Pointers are model values of `Nodes`. `NewExecve` allocates and fills a record;
`LockAdd` to `UnlockAdd` are `add_hook` under the mutex, its recursion one link a
step; `ReadId`, `WriteId` and `WrapId` are the increment and the wrap, outside the
mutex. A GET_HOOK caller pops under the mutex and copies the fields afterwards;
`DereferenceNull` is the empty list, which kills the caller. `cleanup_spybot` pops in
two accesses without the mutex. `InitOnAlloc` says whether the kernel zeroes what
`kmalloc` returns (`init_on_alloc`): the code never sets `next`, so all positive
results are for kernels that do; on one that does not, the list runs on past the object
added last, and no run asks what is left of it. What a thread does that walks over a freed node, while `cleanup_spybot`
drains the list, is undefined (`WalkFreed`): it stops there with the mutex held, or
takes what it reads or writes for the end of the list and goes on. `HookFifo` is the
queue; its records are those read down the links from the head (`ListRecords`, over
`Link`, a recursive function), its `given` what each reader has popped and not yet
returned, and unloading discards the rest.

### NetScan

`net-scanner.py` looks at the processes and asks the server about them
(`IdentifyProcess`), sniffs for five seconds, and only then opens and writes its log
(`WriteLog`), or fails before that (`NetScannerFails`), which leaves the log of an
earlier period. `packetScan` opens the log (`OpenLog`) and kills the process of each
line (`ReadLine`). A script whose backend dies goes on (`orphans`): it writes its list,
or a part of it, over whatever the log holds, at any time (`OrphanWrites`), so that a
log may hold lines of two scripts and lines joined of pieces (`Mixtures`). A line is
the pid it was written for and the one it is read as: the fields are separated by "-",
so a process name that holds one shifts them, as joined lines do, and the number read is
another one (which is then killed) or none, which makes `stoi` throw (`UnreadableLine`),
and the batch is gone. `doubt`, the third part of a line, is history: was the server
wrong about the process, or has the pid changed hands, or the process what it does,
since the script looked. Processes change at any step (`ProcessChanges`), and the doubt
follows the line from the script to the log and to `packetScan`.

An entry of `_packetScanResult` is a text about the kills of a batch; the model keeps
the set of pids it names, and the vector as the set of its entries. `packetScan`
never resets its text between lines, so each entry names the earlier pids of its
batch too (`Cumulative`, part of the invariant). A scan copies both stores, clears both,
and has then still to serialize and send its response: `SendData` is a response that a
client takes, `ResponseLost` one that throws in `serializeResponse` or finds its client
gone. `owed` is history: pids found and not yet sent to a client. `excused` names those
for which the loss is known: the last entry naming the pid was added between a scan's
copy and its clear, or was lost with an exception, a crash or a response. The backend
may die at any step (`Crash`), and be started again (`Restart`). `spofing-scanner.py` is
one step: nothing is killed for what it finds, and its log may hold anything.

### FileScan

Every scan runs `scanner.py` and `hash-scanner.py`, which leave their verdicts in
`yara.log` and `hash-scan.log`, and reads these. All scans share the two files.
`script[r]` is a script: the files it has listed, then the lines it has still to write.
`Judge` is the verdicts and the `open` that empties the log, under whoever reads or
writes it; `FlushLog` is a buffer that is full, `CloseLog` the end of the script;
`ServerIsWrong` is `Judge` with answers from a locked database, which are anything. A
script that fails before it opens its log (`ScriptFails`) leaves that of an earlier
scan, and the thread reads it all the same.

When two scripts have a log open at once, each writes on where it was, and what the
file holds is lines of both, a first old line without its beginning, and lines joined
of pieces: the log is `Torn`, as long as it is not emptied again. A thread that reads a
torn log, or one that was emptied while it read (`pieces`), gets any verdicts for any
names: its result is `Torn` too, and with `hashScan` so is the table of viruses, which
may get the name of a piece. What is written buffer by buffer into a log of one script
is not torn: of a last line that is cut, the loop drops the name, or has its verdict.

`parseConfigData` assigns and then joins two static vectors (`ParseConfig`,
`JoinQuick`) while other threads copy them. The backend may die at any step (`Crash`);
the scripts it has started go on as `Strays`, and `Restart` does not wait for them.
`config.json` is taken to be there and to parse, some yara rule to exist, and names of
files to be UTF-8 without '@' and newline. Steps of a thread that touch only its own
variables are merged with the next one; the reading of a log is one step, and what
comes between its reads is in `pieces`, in `Torn`, or a part of a log that is being
written. `quiet` and `judged` are history: has anything (another scan, a script left
behind, a failing script, a wrong answer, a change of a file or of the blacklist)
disturbed the scan, and which verdicts the scripts have come to.

### ServerRelay

Descriptors are numbers, and `fds` says which socket each stands for, so that a
descriptor closed twice may meanwhile be somebody else's. `handleServerRequest` keeps
its connection in the member `_ServerSocket` and reads it again at each step: `NewSocket`
(or `NoSocket`, when `socket` fails), `Connect`, `SendRequest`, `CallRead`, `ReadAnswer`,
`Reply`, `CloseServer`. Messages are records in a sequence for each direction of a
socket. `getAllTheSocket` is three calls of `recv`, for which the end of the stream is a
success: two readers of one stream tear a message (`TornRead`), and a reader at the end
gets garbage. Garbage either throws or is a message of no known code. A send to a
broken connection may be lost, may fail, or may end the process, since SIGPIPE is not
handled (`Killed`, `Die`). Clients ask one request at a time and may go away; the server
may die and come back. The descriptor the constructor puts in `_ServerSocket` is never
used or closed. `overlap` and `faults` are history: have two threads ever relayed at
once, has the server died, a client left or `socket` failed. `RemoteCall` sees of all
this each client's requests and answers, the requests the server has taken up, and
these two flags: without an overlap, sockets, threads and failures between them are
steps it does not see. Since it keeps the requests taken up as a set, that none is
taken up twice is left to `NothingTwice`.

### BlockWorkflow

A click is numbered, and `thread[k]` is its request and the place of the backend's
thread that handles it: `Click` sends the first request; `Send`, `Recv` and `NoDevice`
are `communicateWithDriver` (or `sctScan`, `idtScan`) around the driver, whose one
`result` any two calls share; `GetReply` is the client's thread, which after blocking or
freeing sends the second request on another connection and goes on; `UpdateTable` is
`updateBlockedTable`, `UpdateFails` its failure while the same program's other
connection writes. A client that leaves, a backend that dies and comes back, rmmod and
insmod, processes that end and numbers that are used again may come between any two
steps. `Updated` adds a row without looking for one, and removes all rows of the number;
`Listed` is `getBlockedPorcesses` with the window's join, which drops numbers of no
process. An answer is the driver's `result` at RECV, so it may be another caller's.
`quiet`, `earned` and `settled` are history: has nothing disturbed the click, which
results has the driver had since its SEND, and was the last click on the process quiet
to its end.

### BlacklistServer

`rows` counts the rows of each text. A text is a key, followed or not by a carriage
return: `getHash` splits the download at the line feed only, and the lines end in both
(`Line`), while the server looks up what `hash-scanner.py` asks (`Plain`). `Lookup` is
one key of a scan: if another connection has the database locked the statement fails,
the callback is not called, and the answer is what the stack had. `Save` is not looked
up before. An updater is started by each start of the server (`StartUpdater`, which
comes before a `bind` that may fail) and outlives it; `Download`, `LookUpLine`,
`BeginInsert`, `EndInsert` and `EndOfList` are its two tasks, `lock` the writer between
the two halves of an insertion, `Die` an exception nothing catches or a kill, with the
insertion rolled back. `getHash` does not look at the status of the HTTP answer; the
lines of an error page are keys like any other, as `ServerData.db` shows. `told`,
`before` and `torn` are history: additions that clients were told of, the rows when a
scan began, and the answers that came from a locked database.

## 3. Runs

| run | instance | shows |
|---|---|---|
| `driver_calls` | 2 callers, 1 pid, a table of 2 entries, requests KILL, SCT_SCAN, SCT_FIX of entry 0, of the word after the table and beyond it | `ScanVerdict`, `FixVerdict`, `SignalVerdict`: what a handler computes is right about some moment of the call. `AnswerFresh`: no path of SEND leaves an older answer to be read |
| `driver_load` | 2 callers, a table of 1 entry (the hijacked one), 1 gate, requests SCT_FIX of 0 and 2, IDT_SCAN, GET_HOOK; fair | `PageSealed`, `OwnHookKept`, `UnloadLeavesNoPointer`, `CallsReturn` |
| `driver_dangling` | as `driver_calls` | violation: a failed load leaves the hijack in the table |
| `driver_fix_index` | as `driver_calls` | violation: a repair of index `__NR_syscalls` writes the word after the table and reports a valid index |
| `hook_list` | 2 threads in execve, 1 reader, 3 objects, record numbers 0..0 with racing values up to 2; fair | `ListSound`, `NoRecordLost`, `Exclusive`, `IdRestored`, `ExecProceeds`; `ImplementsFifo`: the list implements `HookFifo`; `OneLeftEach`: what an unloading leaves behind is one record of each thread at most |
| `hook_cleanup` | as `hook_list` | violation: a record outlives the module |
| `net_stores` | 2 clients, 1 pid, 1 address, logs of up to 2 lines | `KillsAccounted`, `SpofsAccounted`: what is found is lost in four named ways only |
| `net_thread` | no client, 2 pids, logs of 1 line, 1 script that outlives its backend; fair | `KillsWhatItSaw`: a harmless process is killed only by a line in doubt or misread. `ScansForever`: no line stops the periodic scans |
| `file_scans` | 2 clients, 2 scans, 1 script left behind, 2 files in 3 folders, one change of a file or hash or one wrong answer; requests of all four kinds | `QuietScanIsRight`: old logs, failures and crashes before it leave no trace in an undisturbed scan. `VerdictsJudged`, `VirusesJudged`: however scans overlap, no verdict is made up but out of a torn log |
| `relay` | 2 clients, 5 descriptors, 3 requests and faults in all; fair | until two relays overlap, `AloneIsRight` (each client gets its own answers) and `AloneIsTidy` (no descriptor leaks); `ImplementsCalls`: the relay implements `RemoteCall`; `NothingTwice` however they overlap; `Answered` but for overlaps and faults |
| `block` | 2 clients, 1 pid, 3 clicks, 1 fault; fair | `SettledShown`: an undisturbed click leaves the list and the process in agreement, whatever came before it. `AnswerEarned`: no answer is older than the request. `ClickEnds`: a waiting window comes back |
| `blacklist` | 2 updaters, 1 address, 2 hashes, 3 events (requests, midnights and faults in all); fair | `AnswersFit`: each answer of a scan fits its own key. `RowsExplained`: no addition is lost, and updaters double a row at most once each. `ListedIsStored`: what is listed gets in, whoever else dies |

Why the bounds are enough. The races of the driver are between two callers, a caller
and the kernel, or a caller and the loader: two callers and one pid show them all. Two
table entries give an entry before and after the one that changes during a scan; one
entry, the hijacked one, is what loading and repairs are about. In the list, two
threads and a reader contend for the mutex, three objects let the list be longer than
the walk's first step and let the allocator run dry, and one valid number makes every
race of the increments visible; `IdCap` stands for every number above. In `net_stores`,
two clients' copies and clears overlap with each other and with the periodic thread;
two lines give a kill before an unreadable line; no script is left behind, since the
stores do not see who wrote the log. In `net_thread`, which is about the log, two pids
let a line be read as the other one, and one script left behind (`MaxOrphans`) writes
over the log of the next backend. In `FileScan`, two
scans give every pair of overlapping steps, and one after another that left its logs;
one stray is a script of the first scan beside the second; two files let a log be
written in two parts; the full scan goes over an empty folder, whose log is empty, and
then over one with a file in a subfolder; a file may go, a hash come, or the server
err, once and at any step. (Two paths that both hold files take TLC over five minutes;
`FileScanProofs` is about any number of them.) In `ServerRelay`, `MaxEvents` bounds requests and faults together, so that one
client may ask three times, two clients overlap and one of them ask again, or two
overlap around a fault; five descriptors are the constructor's, two clients' and two
relays'. A client accepted during an overlap whose new descriptor is then closed by
another's relay needs more than this instance; `RelayGivesOnce` is about it too. Each
relay has a request of its own, so that the guard `made < MaxEvents` of `NewSocket`
stops none. In `BlockWorkflow` one process and three clicks
give a click that is disturbed by a second and settled by a third, with each fault at
each step; clicks on different processes share only the driver's `result`, which the
scans show. In `BlacklistServer` three events give two midnights and a request, a scan
between two additions, and a death of the server or of an updater before and after
another midnight; two hashes put one answer of a scan before an addition and one after. The theorems
hold for every size.

Fairness. A thread that is inside the kernel runs on (`WF` of a caller's steps in
`SpybotDriver`; in `HookList` also `SF` of taking the mutex, which is a fair sleeping
lock). In `ServerRelay`
the backend's threads, the server's while it is up, and a client that has an answer go on
(`WF`); nobody has to ask, and the server need not come back. Nothing is assumed of
callers, processes, rootkits, rmmod, or who restarts the
backend. The periodic thread's sleep and its scripts are taken to end (`WF_vars(Periodic)`).
In `BlockWorkflow` the backend's threads and a client that has its answer go on; nobody
has to click, and nothing has to come back. In `BlacklistServer` an updater's task goes
on (`WF_vars(Task(u))`): a download ends or fails, and the process is scheduled.
Deadlock is checked everywhere but for `HookList`, where nothing is left to move
after the module is gone. `NothingAsked` and `Waiting` are the states in which the
bounds allow no more requests: threads then wait for ever, as they should.

What the violations say. They are disagreements between the code and its own comments,
listed with quotes under "findings" in `PROJECT.json`. Two more are modelled and have no
run: without zeroed allocations the list of `HookList` goes on past the object that
`add_hook` adds "to the end" (spybot.c:335), and a hash that an updater has stored with
its carriage return is never found by the look-up of README.md:18 (`Line` and `Plain` of
`BlacklistServer`).

## 4. Proofs

All theorems are for arbitrary constants under the ASSUMEs of their modules
(`TableAssumption`, `AskedAssumption`; `IdAssumption`, `ListAssumption`, which takes
the objects to be finitely many, as memory is;
`LinesAssumption`, `NoneAssumption`; `FoldersAssumption`, `StraysAssumption`,
`AsksAssumption`, `TornAssumption`;
`BoundsAssumption`; `WorkflowAssumption`; `BlacklistAssumption`).

* `SpybotDriverProofs`. The inductive invariant is `IInv` with `TypeOK`. A caller
  inside the driver holds the device open and so keeps the module loaded (`Pinned`);
  each handler runs for its own requests only (`HandlerFits`); `held` and `seen`
  bracket the present facts (`Bracketed`), and a scan has passed over nothing hooked
  throughout (`Progress`), from which the three verdicts follow at the step that
  computes them. `OwnPlaces` says where `new_execve` can be found in each phase, from
  which `OwnHookIsKept` and `UnloadIsClean` follow: any number of repairs puts back
  only what the copy holds.
* `HookListProofs`. `ListTypeCorrect` and `IdIsRestored` need no assumption on the
  kernel. The others assume `InitOnAlloc`. `ListInv` says who holds the mutex
  (`MutexHeld`) and what each thread has in hand (`Hands`), and keeps "no object linked
  twice" (`Exclusive`) through the append and the pop. That allows a cycle beside the
  list, so it is not enough for what is read from the head. `ChainInv` adds `Ordered`:
  some sequence without repetition, linked one by one and ended by NULL, is all that is
  linked (`IsChain`). The append puts the new object at its end (`AddExtendsChain`), the
  pop takes the first (`PopShortensChain`), all other steps are apart from it
  (`ApartKeepsChain`). Reading from the head then gives that sequence
  (`ReadingOfChain`): the reading is recursive, and the induction over it is by the
  least link that differs (`LeastNumber`, from the well-foundedness of the numbers, so
  that no induction theorem with an operator as parameter is needed). From this follow
  `ListIsSound`, `RecordsAreKept` and, with a lemma for each kind of step on the queue,
  `ListIsFifo`. `MutexIsServed` says that no thread dies with the mutex, the safety half
  of `ExecProceeds`. `UnloadInv` goes on after unloading has begun: `Drained(K)` says that
  the list is a part `K` of the allocated objects, and that of the rest each thread
  has one at most; `UnloadLeavesOneEach` follows when the module is gone.
* `NetScanProofs`. `KillsInv` says besides `KillsAccounted` that what is in the store
  and not excused is in the response of every scan that is about to clear it: such a
  scan copied after the entry was added. `SpofsInv` is the same for the map. `LogInv`
  says that a process that a line lists beyond doubt is bad or dead (`Sound`), wherever
  the line is: in the log, with a script, with one whose backend is gone, or with
  `packetScan`; `KillsAreOfTheSeen` follows at the line that kills.
* `FileScanProofs`. `TypeInv` is `TypeOK` with the paths of each scan fitting its
  kind. `Provenance`, inductive with it, says that every line of a log that is not torn,
  that a script has still to write, or in a result was judged; `VerdictsAreJudged` and
  `VirusesAreJudged` follow.
  `QuietInv` says of a quiet scan that no other thread and no stray is at work
  (`Alone`), that the verdicts it has so far are right (`SoFarRight`), that the lists,
  lines and log in hand are of its own paths, right and not torn (`InHand`), and that
  each file it is about is reported or still to come (`Ahead`, `Stage`), as its lines
  pass to the log some now and the rest at the end (`QuietWrites`); `IdleClean` says
  that a thread begins with empty hands. `QuietScansAreRight` follows at the reply.

* `ServerRelayProofs`, four invariants besides the types. `Tidy`: until relays overlap
  one thread at most is past its `socket()`, `_ServerSocket` is its own, and each
  descriptor has one owner; so a close closes nobody else's, and `AloneIsTidy` follows.
  `AloneInv` follows a request while no relays overlap: it is in its client's stream, in
  the thread's hand, or with the server, and in one of these only (`Own`); the relay's
  connection carries it and its answer alone (`Link`); the client has one answer for
  each request but the last (`Side`); and what hangs up, or kills, needs a fault
  (`Sound`). `AloneIsRight` is its part about the client. `OnceInv` holds however relays
  overlap. It sees the streams and hands as one store of messages: each step drops
  messages, moves one (`MovedOnce`), turns a request into its answer (`AnsweredOnce`) or
  adds one with a fresh number (`AddedOnce`), and none of these makes a second copy;
  whatever the threads do to each other's sockets is one of them. `CallInv` is for
  `RelayIsRemoteCall`: without an overlap a request that is in a stream or a hand is the
  last one of a client that waits, and one that is with the server (`WithServer`) came by
  the relay's own connection, which is still open, so that nothing is left with the
  server when a relay closes (`CallReads`, from `OnceInv`). The server's step then is an
  `Execute` of the remote call, the client's a `Return` or, after a fault, a `GiveUp`;
  faults are `Break`, and all other steps stutter (`CallStep`).
* `BlockWorkflowProofs`. `TypeInv` adds to the types that a thread's request fits its
  place. `EarnedInv`: a thread inside the device keeps it loaded, and the last result is
  among those given since its own SEND. `SettledInv`: a quiet click is alone on its
  process, and once signalled the process is as the signal left it, or has ended; on a
  settled process no click is under way, and table and process agree. Most steps only
  carry this on (`CarriesOn`).
* `BlacklistServerProofs`. `RowsInv` gives each row of a text one of the additions told
  of or one of the updaters that have inserted it, and each updater at most one
  (`Spent`): having inserted a line it finds it. `AnswersInv` keeps in the table what
  was there when a scan began: nothing removes a row.

`AnswerEarned`, like `AnswerFresh` of the driver, is the strongest that holds: SEND and
RECV are two calls, and a caller may be given the result of another's call that came
between.

Only model-checked: liveness (`CallsReturn`, `ExecProceeds`, `ScansForever`, `Answered`,
`ClickEnds`, `ListedIsStored`), which needs ENABLED under fairness. Every invariant,
action property and refinement that a passing run checks is proved.

## 5. Not modelled, and the plan

Not modelled for good: the windows and view models of the client; JSON conversion;
SQLite and the JSON library, which are third-party code (the two copies of `sqlite3.c`
are most of the repository's lines), taken as a store of atomic statements that fail
while another connection writes, and a conversion; packet sniffing; the installation
scripts; the two settings requests and the length of the periodic sleep, one variable
that is read and written whole; `updateVirusTable`, which no window sends. In the driver:
an unusable `kallsyms_lookup_addr` (loading faults at once), the stack depth of
`add_hook`'s recursion, and a `copy_to_user` or `copy_from_user` that fails.

The open-port scan is not modelled: a script and a log of a fixed name, the pattern
`FileScan` has twice. Neither are the bytes of a message with short reads: `ServerRelay`
has whole messages, and what a torn or ended stream makes of them.

The plan, in order of importance:

1. Proofs: lemmas of general use (moves between the hands and streams of
   `ServerRelay`, chains of `HookList`) stated apart from their components; what holds of
   the unloading without `InitOnAlloc`.
2. `Framing`: messages over a byte stream with short reads; implements the whole
   messages of `ServerRelay` when no read is short.
3. `PortScan`: the open-port scan with its log, and the settings requests.
