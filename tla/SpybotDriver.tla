---------------------------- MODULE SpybotDriver ----------------------------
(***************************************************************************)
(* The Spybot kernel module (Driver/spybot.c): loading and unloading, and  *)
(* the ioctl interface through which any number of user threads ask it to  *)
(* signal a process, to compare the system call table (SCT) and the        *)
(* interrupt table (IDT) with the copies taken at load time, and to repair *)
(* one entry of the SCT.  Each caller does what                            *)
(* RequestHandler::communicateWithDriver of the backend does: open, SEND,  *)
(* RECV, close.  SEND leaves its answer in ONE global word, `result`, and  *)
(* RECV reads that word; no lock covers the pair, nor the tables.          *)
(*                                                                         *)
(* The list of execve records (GET_HOOK) is the subject of module          *)
(* HookList; here GET_HOOK only matters as a SEND that stores no answer.   *)
(***************************************************************************)
EXTENDS Integers

CONSTANTS
    Callers,     \* user threads that use the device
    Pids,        \* process identifiers
    NrSyscalls,  \* __NR_syscalls: the length of the SCT
    Execve,      \* __NR_execve: the entry the driver hijacks
    MaxIdt,      \* MAX_IDT_SIZE: the number of IDT entries compared
    Asked        \* the requests callers make

SignalOpts == {"KILL", "SUSPEND", "CONT"}
ScanOpts   == {"SCT_SCAN", "IDT_SCAN"}

\* args[2] of SEND: the option and its parameter.  OTHER is an option the
\* switch has no case for.
Requests ==
    [opt : SignalOpts, param : Pids]
        \cup [opt : {"SCT_FIX"}, param : Int]
        \cup [opt : ScanOpts \cup {"GET_HOOK", "OTHER"}, param : {0}]

ASSUME TableAssumption ==
    /\ NrSyscalls \in Nat
    /\ MaxIdt \in Nat
    /\ Execve \in 0 .. NrSyscalls - 1

ASSUME AskedAssumption == Asked \subseteq Requests

NoReq == [opt |-> "OTHER", param |-> 0]  \* of a caller that is not calling

\* Where a table entry may point.  "own" is new_execve of the loaded module,
\* "dangling" the same address once the module's memory has been given back.
\* The words one past the end of the two SCT arrays are "past_sct" and
\* "past_temp": fix_sct can reach them.
Handlers == {"kernel", "rootkit", "own", "dangling", "none",
             "past_sct", "past_temp"}

SctCells   == 0 .. NrSyscalls        \* the table and the word after it
SctEntries == 0 .. NrSyscalls - 1
IdtEntries == 0 .. MaxIdt - 1

VARIABLES
    phase,       \* how far init_spybot or cleanup_spybot has come
    sct,         \* sys_call_table
    temp_sct,    \* the copy of the SCT taken at load time
    idt,         \* the first MaxIdt gates of the IDT
    temp_idt,    \* their copy
    execve_scf,  \* the execve handler found at load time
    page,        \* protection of the page that holds the SCT
    proc,        \* the system's processes
    result,      \* the global answer word
    pc,          \* where each caller is
    fd,          \* does the caller hold the device open
    req,         \* the request it sends
    task,        \* the task pointer sendSignalToTask found
    cursor,      \* the loop index of a scan
    val,         \* what the SEND handler computed, before it is stored
    held,        \* history: facts that held all through the call
    seen,        \* history: facts that held at some time in the call
    fresh        \* history: callers whose SEND began before the last store

tables  == <<sct, temp_sct, idt, temp_idt, execve_scf, page>>
callVars == <<pc, fd, req, task, cursor, val>>
history == <<held, seen, fresh>>
vars == <<phase, tables, proc, result, callVars, history>>

-----------------------------------------------------------------------------
\* What a request is about, and what is true of it now: the entries of its
\* table that differ from the copy, or the target pid if such a process exists.
SctDiff == {i \in SctEntries : sct[i] # temp_sct[i]}
IdtDiff == {i \in IdtEntries : idt[i] # temp_idt[i]}

Facts(r) ==
    IF r.opt \in SignalOpts     THEN {p \in {r.param} : proc[p] # "none"}
    ELSE IF r.opt = "IDT_SCAN"  THEN IdtDiff
    ELSE IF r.opt \in {"SCT_SCAN", "SCT_FIX"} THEN SctDiff
    ELSE {}

\* The history of every call, brought up to date by a step that changes a
\* table or a process.
Observe ==
    /\ held' = [c \in Callers |-> held[c] \cap Facts(req[c])']
    /\ seen' = [c \in Callers |-> seen[c] \cup Facts(req[c])']
    /\ fresh' = fresh

Open   == {"registered", "live"}  \* phases in which open(2) of the device works

\* Inside the module's code, between SEND and RECV.
InSend == {"send", "scan", "deliver", "rw", "write", "ro", "store"}
InCall == InSend \cup {"recv"}

Init ==
    /\ phase = "unloaded"
    /\ sct \in {t \in [SctCells -> {"kernel", "rootkit", "past_sct"}] :
                    \A i \in SctCells : t[i] = "past_sct" <=> i = NrSyscalls}
    /\ idt \in [IdtEntries -> {"kernel", "rootkit"}]
    /\ temp_sct = [i \in SctCells |->
                        IF i = NrSyscalls THEN "past_temp" ELSE "none"]
    /\ temp_idt = [i \in IdtEntries |-> "none"]
    /\ execve_scf = "none"
    /\ page = "ro"
    /\ proc \in [Pids -> {"none", "running"}]
    /\ result = 0
    /\ pc = [c \in Callers |-> "idle"]
    /\ fd = [c \in Callers |-> FALSE]
    /\ req = [c \in Callers |-> NoReq]
    /\ task = [c \in Callers |-> "null"]
    /\ cursor = [c \in Callers |-> 0]
    /\ val = [c \in Callers |-> 0]
    /\ held = [c \in Callers |-> {}]
    /\ seen = [c \in Callers |-> {}]
    /\ fresh = {}

-----------------------------------------------------------------------------
(* Loading and unloading.                                                  *)

\* The module's memory is returned to the kernel.  A pointer to new_execve
\* that is still in the table now points into freed memory, and a thread
\* that executes the module's code is lost.
FreeModule(table) ==
    /\ phase' = "unloaded"
    /\ sct' = [i \in SctCells |->
                 IF table[i] = "own" THEN "dangling" ELSE table[i]]
    /\ temp_sct' = [i \in SctCells |->
                      IF i = NrSyscalls THEN "past_temp" ELSE "none"]
    /\ temp_idt' = [i \in IdtEntries |-> "none"]
    /\ execve_scf' = "none"
    /\ pc' = [c \in Callers |-> IF fd[c] THEN "oops" ELSE pc[c]]
    /\ fd' = [c \in Callers |-> FALSE]
    /\ req' = [c \in Callers |-> NoReq]
    /\ task' = [c \in Callers |-> "null"]
    /\ cursor' = [c \in Callers |-> 0]
    /\ val' = [c \in Callers |-> 0]
    /\ held' = [c \in Callers |-> {}]
    /\ seen' = [c \in Callers |-> {}]
    /\ fresh' = {}
    /\ UNCHANGED <<idt, page, proc, result>>

\* insmod: fresh module data; init_spybot copies the IDT first.
Insmod ==
    /\ phase = "unloaded"
    /\ phase' = "loading"
    /\ temp_idt' = idt
    /\ result' = 0
    /\ UNCHANGED <<sct, temp_sct, idt, execve_scf, page, proc, callVars,
                   history>>

\* The page is made writable for the one store and sealed again; the device is
\* not registered yet, so no caller is near.
SyscallHijack ==
    /\ phase = "loading"
    /\ phase' = "hijacked"
    /\ execve_scf' = sct[Execve]
    /\ sct' = [sct EXCEPT ![Execve] = "own"]
    /\ page' = "ro"
    /\ UNCHANGED <<temp_sct, idt, temp_idt, proc, result, callVars, history>>

\* Mutant: the copy is what the table was before the hijack.
CreateTempSctBeforeHijack ==
    /\ phase = "hijacked"
    /\ phase' = "copied"
    /\ temp_sct' = [i \in SctCells |->
                      IF i = Execve THEN execve_scf
                      ELSE IF i \in SctEntries THEN sct[i] ELSE temp_sct[i]]
    /\ UNCHANGED <<sct, idt, temp_idt, execve_scf, page, proc, result, callVars,
                   history>>

CreateTempSct ==
    /\ phase = "hijacked"
    /\ phase' = "copied"
    /\ temp_sct' = [i \in SctCells |->
                      IF i \in SctEntries THEN sct[i] ELSE temp_sct[i]]
    /\ UNCHANGED <<sct, idt, temp_idt, execve_scf, page, proc, result, callVars,
                   history>>

RegisterChrdev ==
    /\ phase = "copied"
    /\ phase' = "registered"
    /\ UNCHANGED <<tables, proc, result, callVars, history>>

CdevAdd ==
    /\ phase = "registered"
    /\ phase' = "live"
    /\ UNCHANGED <<tables, proc, result, callVars, history>>

\* Either registration may fail; init_spybot then returns an error with the
\* hijack in place, and the kernel discards the module.
InitFails ==
    /\ phase \in {"copied", "registered"}
    /\ FreeModule(sct)

\* rmmod is refused while a caller holds the device open (fops.owner).
Rmmod ==
    /\ phase = "live"
    /\ \A c \in Callers : ~fd[c]
    /\ phase' = "going"
    /\ UNCHANGED <<tables, proc, result, callVars, history>>

\* Mutant: the table is left hijacked.
RemoveSyscallHijackForgotten ==
    /\ phase = "going"
    /\ phase' = "restored"
    /\ page' = "ro"
    /\ UNCHANGED <<sct, temp_sct, idt, temp_idt, execve_scf, proc, result,
                   callVars, history>>

RemoveSyscallHijack ==
    /\ phase = "going"
    /\ phase' = "restored"
    /\ sct' = [sct EXCEPT ![Execve] = execve_scf]
    /\ page' = "ro"
    /\ UNCHANGED <<temp_sct, idt, temp_idt, execve_scf, proc, result, callVars,
                   history>>

\* The end of cleanup_spybot: the device goes, then the module's memory.
Unregister ==
    /\ phase = "restored"
    /\ FreeModule(sct)

-----------------------------------------------------------------------------
(* communicateWithDriver, and the ioctl handlers it runs.                  *)

Goto(c, next) == pc' = [pc EXCEPT ![c] = next]

\* open(2) of the device.
Call(c) ==
    /\ pc[c] = "idle"
    /\ phase \in Open
    /\ \E r \in Asked :
        /\ req' = [req EXCEPT ![c] = r]
        /\ held' = [held EXCEPT ![c] = Facts(r)]
        /\ seen' = [seen EXCEPT ![c] = Facts(r)]
    /\ fd' = [fd EXCEPT ![c] = TRUE]
    /\ Goto(c, "send")
    /\ UNCHANGED <<phase, tables, proc, result, task, cursor, val, fresh>>

\* What is common to the steps of a SEND that touch neither table nor process.
Local(c) == UNCHANGED <<phase, tables, proc, result, fd, req, history>>

\* Mutants of FindTask: the task is used without a check, or a missing task
\* returns before `result` is assigned.
FindTaskUnchecked(c) ==
    /\ pc[c] = "send" /\ req[c].opt \in SignalOpts
    /\ Goto(c, "deliver")
    /\ UNCHANGED <<task, val, cursor>> /\ Local(c)

FindTaskSilent(c) ==
    /\ pc[c] = "send" /\ req[c].opt \in SignalOpts
    /\ task' = [task EXCEPT ![c] = "live"]
    /\ Goto(c, IF proc[req[c].param] = "none" THEN "recv" ELSE "deliver")
    /\ UNCHANGED <<val, cursor>> /\ Local(c)

\* KILL, SUSPEND, CONT: pid_task(find_vpid(pid)), held by no lock.
FindTask(c) ==
    /\ pc[c] = "send"
    /\ req[c].opt \in SignalOpts
    /\ LET found == proc[req[c].param] # "none" IN
        /\ task' = [task EXCEPT ![c] = IF found THEN "live" ELSE "null"]
        /\ val' = [val EXCEPT ![c] = 0]
        /\ Goto(c, IF found THEN "deliver" ELSE "store")
    /\ UNCHANGED cursor
    /\ Local(c)

\* What a signal does to a process.
After(opt, state) ==
    IF opt = "KILL" /\ state # "none"           THEN "dying"
    ELSE IF opt = "SUSPEND" /\ state = "running" THEN "stopped"
    ELSE IF opt = "CONT" /\ state = "stopped"    THEN "running"
    ELSE state

\* send_sig.  The task may have been freed since it was found: then the
\* signal is lost, or goes to whatever process has the memory now.
SendSig(c) ==
    /\ pc[c] = "deliver"
    /\ \/ \E p \in Pids :
            /\ task[c] = "live" => p = req[c].param
            /\ proc' = [proc EXCEPT ![p] = After(req[c].opt, proc[p])]
       \/ task[c] = "stale" /\ proc' = proc
    /\ val' = [val EXCEPT ![c] = 1]
    /\ task' = [task EXCEPT ![c] = "null"]
    /\ Goto(c, "store")
    /\ UNCHANGED <<phase, tables, result, fd, req, cursor, history>>

\* SCT_SCAN and IDT_SCAN: compare_scts and compare_idts, one entry a step.
StartScan(c) ==
    /\ pc[c] = "send"
    /\ req[c].opt \in ScanOpts
    /\ cursor' = [cursor EXCEPT ![c] = 0]
    /\ Goto(c, "scan")
    /\ UNCHANGED <<task, val>>
    /\ Local(c)

CompareEntry(c, entries, diff) ==
    /\ pc[c] = "scan"
    /\ IF cursor[c] \notin entries
       THEN /\ val' = [val EXCEPT ![c] = -1]
            /\ Goto(c, "store")
            /\ UNCHANGED cursor
       ELSE IF cursor[c] \in diff
       THEN /\ val' = [val EXCEPT ![c] = cursor[c]]
            /\ Goto(c, "store")
            /\ UNCHANGED cursor
       ELSE /\ cursor' = [cursor EXCEPT ![c] = @ + 1]
            /\ UNCHANGED <<pc, val>>
    /\ UNCHANGED task
    /\ Local(c)

\* Mutants: the loop stops one entry short, runs one too far, or never moves.
CompareSctsShort(c) ==
    req[c].opt = "SCT_SCAN" /\ CompareEntry(c, 0 .. NrSyscalls - 2, SctDiff)

CompareSctsLong(c) ==
    req[c].opt = "SCT_SCAN" /\ CompareEntry(c, 0 .. NrSyscalls, SctDiff)

CompareIdtsStuck(c) ==
    /\ req[c].opt = "IDT_SCAN"
    /\ cursor[c] \in IdtEntries => cursor[c] \in IdtDiff
    /\ CompareEntry(c, IdtEntries, IdtDiff)

CompareScts(c) == req[c].opt = "SCT_SCAN" /\ CompareEntry(c, SctEntries, SctDiff)
CompareIdts(c) == req[c].opt = "IDT_SCAN" /\ CompareEntry(c, IdtEntries, IdtDiff)

\* Mutant: entry 0 is taken for an invalid index.
InFixRangeFromOne(i) == i > 0 /\ i <= NrSyscalls

\* SCT_FIX: the range check of fix_sct admits NrSyscalls itself.
InFixRange(i) == i >= 0 /\ i <= NrSyscalls

FixSct(c) ==
    /\ pc[c] = "send"
    /\ req[c].opt = "SCT_FIX"
    /\ IF InFixRange(req[c].param)
       THEN Goto(c, "rw") /\ UNCHANGED val
       ELSE Goto(c, "store") /\ val' = [val EXCEPT ![c] = 0]
    /\ UNCHANGED <<task, cursor>>
    /\ Local(c)

SetPageRw(c) ==
    /\ pc[c] = "rw"
    /\ page' = "rw"
    /\ Goto(c, "write")
    /\ UNCHANGED <<phase, sct, temp_sct, idt, temp_idt, execve_scf, proc,
                   result, fd, req, task, cursor, val, history>>

\* Another caller may have made the page read-only since: the write then
\* faults, or succeeds through an address translation the processor has kept.
WriteEntry(c) ==
    /\ pc[c] = "write"
    /\ sct' = [sct EXCEPT ![req[c].param] = temp_sct[req[c].param]]
    /\ Goto(c, "ro")
    /\ UNCHANGED <<phase, temp_sct, idt, temp_idt, execve_scf, page, proc,
                   result, fd, req, task, cursor, val>>
    /\ Observe

\* The fault kills the thread, and the open descriptor is never released.
WriteFaults(c) ==
    /\ pc[c] = "write"
    /\ page = "ro"
    /\ Goto(c, "oops")
    /\ req' = [req EXCEPT ![c] = NoReq]
    /\ held' = [held EXCEPT ![c] = {}]
    /\ seen' = [seen EXCEPT ![c] = {}]
    /\ fresh' = fresh \ {c}
    /\ UNCHANGED <<phase, tables, proc, result, fd, task, cursor, val>>

\* Mutant: the page is left writable.
SetPageRoForgotten(c) ==
    /\ pc[c] = "ro"
    /\ val' = [val EXCEPT ![c] = 1]
    /\ Goto(c, "store")
    /\ UNCHANGED <<phase, tables, proc, result, fd, req, task, cursor, history>>

SetPageRo(c) ==
    /\ pc[c] = "ro"
    /\ page' = "ro"
    /\ val' = [val EXCEPT ![c] = 1]
    /\ Goto(c, "store")
    /\ UNCHANGED <<phase, sct, temp_sct, idt, temp_idt, execve_scf, proc,
                   result, fd, req, task, cursor, history>>

\* GET_HOOK and unknown options leave `result` as it was.
SendWithoutAnswer(c) ==
    /\ pc[c] = "send"
    /\ req[c].opt \in {"GET_HOOK", "OTHER"}
    /\ Goto(c, "recv")
    /\ UNCHANGED <<task, cursor, val>>
    /\ Local(c)

\* result = ...: the answer becomes visible to every caller, and the handler's
\* local variables are gone.
StoreResult(c) ==
    /\ pc[c] = "store"
    /\ result' = val[c]
    /\ fresh' = {d \in Callers : pc[d] \in InCall}
    /\ cursor' = [cursor EXCEPT ![c] = 0]
    /\ held' = [held EXCEPT ![c] = {}]
    /\ seen' = [seen EXCEPT ![c] = {}]
    /\ Goto(c, "recv")
    /\ UNCHANGED <<phase, tables, proc, fd, req, task, val>>

\* RECV copies the word back; close(fd); return result.
Recv(c) ==
    /\ pc[c] = "recv"
    /\ fd' = [fd EXCEPT ![c] = FALSE]
    /\ req' = [req EXCEPT ![c] = NoReq]
    /\ val' = [val EXCEPT ![c] = 0]
    /\ fresh' = fresh \ {c}
    /\ Goto(c, "idle")
    /\ UNCHANGED <<phase, tables, proc, result, task, cursor, held, seen>>

-----------------------------------------------------------------------------
(* The rest of the machine.                                                *)

\* Other kernel code patches a table.
HookSct(i) ==
    /\ sct' = [sct EXCEPT ![i] = "rootkit"]
    /\ UNCHANGED <<phase, temp_sct, idt, temp_idt, execve_scf, page, proc,
                   result, callVars>>
    /\ Observe

\* It may also put a gate back, which the driver itself never does.
PatchIdt(i) ==
    /\ \E h \in {"kernel", "rootkit"} : idt' = [idt EXCEPT ![i] = h]
    /\ UNCHANGED <<phase, sct, temp_sct, temp_idt, execve_scf, page, proc,
                   result, callVars>>
    /\ Observe

Spawn(p) ==
    /\ proc[p] = "none"
    /\ proc' = [proc EXCEPT ![p] = "running"]
    /\ UNCHANGED <<phase, tables, result, callVars>>
    /\ Observe

\* The process ends and its task is freed: pointers to it are stale.
Exit(p) ==
    /\ proc[p] # "none"
    /\ proc' = [proc EXCEPT ![p] = "none"]
    /\ task' = [c \in Callers |->
                  IF task[c] = "live" /\ req[c].param = p THEN "stale"
                  ELSE task[c]]
    /\ UNCHANGED <<phase, tables, result, pc, fd, req, cursor, val>>
    /\ Observe

-----------------------------------------------------------------------------
Module ==
    \/ Insmod \/ SyscallHijack \/ CreateTempSct \/ RegisterChrdev \/ CdevAdd
    \/ InitFails \/ Rmmod \/ RemoveSyscallHijack \/ Unregister

CallStep(c) ==
    \/ FindTask(c) \/ SendSig(c)
    \/ StartScan(c) \/ CompareScts(c) \/ CompareIdts(c)
    \/ FixSct(c) \/ SetPageRw(c) \/ WriteEntry(c) \/ WriteFaults(c)
    \/ SetPageRo(c)
    \/ SendWithoutAnswer(c) \/ StoreResult(c) \/ Recv(c)

Machine ==
    \/ \E i \in SctEntries : HookSct(i)
    \/ \E i \in IdtEntries : PatchIdt(i)
    \/ \E p \in Pids : Spawn(p) \/ Exit(p)

Next ==
    \/ Module
    \/ \E c \in Callers : Call(c) \/ CallStep(c)
    \/ Machine

Spec == Init /\ [][Next]_vars

\* A thread that is in the kernel runs on.
Fairness == \A c \in Callers : WF_vars(CallStep(c))

FairSpec == Spec /\ Fairness

-----------------------------------------------------------------------------
(* Properties.                                                             *)

TypeSystem ==
    /\ phase \in {"unloaded", "loading", "hijacked", "copied", "registered",
                  "live", "going", "restored"}
    /\ sct \in [SctCells -> Handlers]
    /\ temp_sct \in [SctCells -> Handlers]
    /\ idt \in [IdtEntries -> Handlers]
    /\ temp_idt \in [IdtEntries -> Handlers]
    /\ execve_scf \in Handlers
    /\ page \in {"ro", "rw"}
    /\ proc \in [Pids -> {"none", "running", "stopped", "dying"}]
    /\ result \in Int

TypeCalls ==
    /\ pc \in [Callers -> InCall \cup {"idle", "oops"}]
    /\ fd \in [Callers -> BOOLEAN]
    /\ req \in [Callers -> Asked \cup {NoReq}]
    /\ task \in [Callers -> {"null", "live", "stale"}]
    /\ cursor \in [Callers -> Nat]
    /\ val \in [Callers -> Int]

Watched == SctEntries \cup IdtEntries \cup Pids

TypeHistory ==
    /\ held \in [Callers -> SUBSET Watched]
    /\ seen \in [Callers -> SUBSET Watched]
    /\ fresh \in SUBSET Callers

\* A scan's index stays within its table.
CursorBound ==
    \A c \in Callers : pc[c] = "scan" =>
        cursor[c] =< (IF req[c].opt = "SCT_SCAN" THEN NrSyscalls ELSE MaxIdt)

\* Every variable keeps its type, and no scan's index passes its table.
TypeOK == TypeSystem /\ TypeCalls /\ TypeHistory /\ CursorBound

\* compare_scts and compare_idts walk a table that changes under them.  What
\* they return is still right in this sense: -1 is never returned over an
\* entry that was hooked all through the call, and a reported entry was
\* hooked at some time in the call, with no earlier entry hooked throughout.
ScanVerdict ==
    \A c \in Callers :
        pc[c] = "store" /\ req[c].opt \in ScanOpts =>
            /\ val[c] = -1 => held[c] = {}
            /\ val[c] # -1 => val[c] \in seen[c] /\ \A i \in held[c] : val[c] =< i

\* fix_sct, asked for an entry of the table, never refuses it, and the entry
\* was sound at some time in the call, whatever other fixers and hooks did.  An
\* index beyond the word that follows the table is refused.  Of that word,
\* index NrSyscalls, this says nothing: see FixTellsValidity.
FixVerdict ==
    \A c \in Callers :
        pc[c] = "store" /\ req[c].opt = "SCT_FIX" =>
            /\ req[c].param \in SctEntries => val[c] = 1 /\ req[c].param \notin held[c]
            /\ req[c].param \notin SctCells => val[c] = 0

\* What the comment at spybot.c:459 says fix_sct returns: whether the index is
\* valid.  For index NrSyscalls it writes the word that follows the table,
\* and returns true.
FixTellsValidity ==
    \A c \in Callers :
        pc[c] = "store" /\ req[c].opt = "SCT_FIX" =>
            (val[c] = 1 <=> req[c].param \in SctEntries)

\* sendSignalToTask: success means the pid existed at some time in the call,
\* failure that it did not exist all through it.
SignalVerdict ==
    \A c \in Callers :
        pc[c] = "store" /\ req[c].opt \in SignalOpts =>
            IF val[c] = 1 THEN req[c].param \in seen[c]
                          ELSE req[c].param \notin held[c]

\* A request that has an answer never returns one left over from before the
\* call: `result` was stored after its SEND began, on every path.
AnswerFresh ==
    \A c \in Callers :
        pc[c] = "recv" /\ req[c].opt \notin {"GET_HOOK", "OTHER"} =>
            c \in fresh

\* The SCT page is writable only while some fix is under way (or one was lost
\* with the module): overlapping fixes never leave it writable for good.
PageSealed ==
    page = "rw" => \E c \in Callers : pc[c] \in {"write", "ro", "oops"}

\* The driver's own hook is part of what it takes for sound, so no repair of
\* the execve entry, in whatever order with other callers', removes it.
OwnHookKept ==
    phase \in {"copied", "registered", "live"} =>
        sct[Execve] \in {"own", "rootkit"}

\* Unloading by cleanup_spybot leaves no new pointer into the freed module:
\* no caller can put new_execve back after it was taken out.
UnloadLeavesNoPointer ==
    [][phase = "restored" /\ phase' = "unloaded" =>
            \A i \in SctEntries : sct'[i] = "dangling" => sct[i] = "dangling"]_vars

\* Every call returns, unless the kernel kills its thread.
CallsReturn ==
    \A c \in Callers : pc[c] # "idle" ~> pc[c] \in {"idle", "oops"}

\* What the comment at spybot.c:290 says of the driver's clean-up, and a failed load breaks:
\* the table holds no pointer to a module that is gone.
NoDanglingHook == \A i \in SctEntries : sct[i] # "dangling"

-----------------------------------------------------------------------------
(* The inductive invariants behind the proofs of SpybotDriverProofs.       *)

\* A caller inside the driver holds the device open, and pins the module.
Pinned ==
    \A c \in Callers :
        /\ pc[c] \in InCall => fd[c]
        /\ fd[c] => phase \in Open

\* Each handler runs only for its own requests.
HandlerFits ==
    \A c \in Callers :
        /\ pc[c] = "deliver" => req[c].opt \in SignalOpts
        /\ pc[c] = "scan" => req[c].opt \in ScanOpts
        /\ pc[c] \in {"rw", "write", "ro"} =>
                req[c].opt = "SCT_FIX" /\ InFixRange(req[c].param)
        /\ pc[c] = "store" => req[c].opt \notin {"GET_HOOK", "OTHER"}

\* The history of a call under way brackets the present.
Bracketed ==
    \A c \in Callers : pc[c] \in InSend =>
        held[c] \subseteq Facts(req[c]) /\ Facts(req[c]) \subseteq seen[c]

\* A scan has passed over nothing that was hooked throughout; a task found was
\* there; an entry written was sound.
Progress ==
    \A c \in Callers :
        /\ pc[c] = "scan" => \A i \in held[c] : cursor[c] =< i
        /\ pc[c] = "deliver" => req[c].param \in seen[c]
        /\ pc[c] = "ro" /\ req[c].param \in SctEntries => req[c].param \notin held[c]

\* Where new_execve can be found, in each phase of the module's life.
OwnPlaces ==
    /\ execve_scf # "own"
    /\ \A i \in SctCells : temp_sct[i] = "own" => i = Execve
    /\ \A i \in SctCells : sct[i] = "own" =>
            i = Execve /\ phase \notin {"unloaded", "loading", "restored"}
    /\ phase \in {"hijacked", "copied", "registered", "live"} =>
            sct[Execve] \in {"own", "rootkit"}
    /\ phase \in {"copied", "registered", "live"} =>
            temp_sct[Execve] \in {"own", "rootkit"}

Verdicts == Progress /\ ScanVerdict /\ FixVerdict /\ SignalVerdict

IInv == /\ Pinned /\ HandlerFits /\ Bracketed /\ Verdicts
        /\ AnswerFresh /\ PageSealed /\ OwnPlaces
=============================================================================
