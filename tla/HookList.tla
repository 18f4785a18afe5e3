------------------------------ MODULE HookList ------------------------------
(***************************************************************************)
(* The list of execve records of Driver/spybot.c: a singly linked list in  *)
(* kernel memory.  Every thread that calls execve runs new_execve, which   *)
(* appends a record under hook_mutex; a GET_HOOK caller pops the first one *)
(* under the mutex; cleanup_spybot drains the list without it.  The record *)
(* number hook_id is a global that is read and advanced outside the mutex. *)
(***************************************************************************)
EXTENDS Integers, FiniteSets, Sequences

CONSTANTS
    Execs,        \* threads that call execve
    Readers,      \* callers of GET_HOOK
    Nodes,        \* struct syscall_hook objects the allocator can hand out
    NULL,
    Idle,         \* hook_mutex when nobody holds it
    MinId, MaxId, \* MIN_HOOK_ID, MAX_HOOK_ID
    IdCap,        \* stands for every number above MaxId that races can produce
    InitOnAlloc   \* does the kernel zero what kmalloc returns

ASSUME IdAssumption ==
    /\ MinId \in Int /\ MaxId \in Int /\ IdCap \in Int
    /\ MinId =< MaxId /\ MaxId + 1 < IdCap

ASSUME ListAssumption ==
    /\ InitOnAlloc \in BOOLEAN
    /\ IsFiniteSet(Nodes)
    /\ NULL \notin Nodes
    /\ Idle \notin Execs \cup Readers
    /\ Execs \cap Readers = {}

\* The fields of a record; the parent's pid is a function of the pid here.
Records  == [pid : Execs, hook_id : MinId .. IdCap]
NoRecord == [pid |-> NULL, hook_id |-> 0]

Threads == Execs \cup Readers

VARIABLES
    phase,      \* "live", "draining" (in cleanup_spybot), "gone"
    hooks_list, \* the head pointer
    next,       \* the next field of every object
    rec,        \* the other fields
    used,       \* the objects allocated
    hook_id,    \* the global record number
    mutex,      \* the holder of hook_mutex
    pc,         \* where each thread is
    obj,        \* the object a thread has allocated or popped
    at,         \* the node add_hook's recursion has reached
    reg,        \* the value of hook_id a thread has read to increment it
    popped      \* the object cleanup_spybot has popped

heap == <<hooks_list, next, rec, used>>
vars == <<phase, heap, hook_id, mutex, pc, obj, at, reg, popped>>

Init ==
    /\ phase = "live"
    /\ hooks_list = NULL
    /\ next = [n \in Nodes |-> NULL]
    /\ rec = [n \in Nodes |-> NoRecord]
    /\ used = {}
    /\ hook_id = MinId
    /\ mutex = Idle
    /\ pc = [t \in Threads |-> "idle"]
    /\ obj = [t \in Threads |-> NULL]
    /\ at = [t \in Execs |-> NULL]
    /\ reg = [t \in Execs |-> MinId]
    /\ popped = NULL

Goto(t, there) == pc' = [pc EXCEPT ![t] = there]

Lock(t, from, to) ==
    /\ pc[t] = from
    /\ mutex = Idle
    /\ mutex' = t
    /\ Goto(t, to)
    /\ UNCHANGED <<phase, heap, hook_id, obj, at, reg, popped>>

Unlock(t, from, to) ==
    /\ pc[t] = from
    /\ mutex' = Idle
    /\ Goto(t, to)
    /\ UNCHANGED <<phase, heap, hook_id, obj, at, reg, popped>>

\* kfree.  What the object then holds is undefined; nobody may look (a thread
\* that does is WalkFreed), so it is taken to be empty.
Free(n) ==
    /\ used' = used \ {n}
    /\ rec' = [rec EXCEPT ![n] = NoRecord]
    /\ next' = [next EXCEPT ![n] = NULL]

-----------------------------------------------------------------------------
(* new_execve, run by a thread that calls execve while it is hooked.       *)

\* kmalloc, which does not clear the object unless the kernel is configured
\* to, and the assignments of pid, parent_pid and hook_id; not of next.
NewExecve(t) ==
    /\ pc[t] = "idle"
    /\ phase = "live"
    /\ \E n \in Nodes \ used :
        /\ used' = used \cup {n}
        /\ rec' = [rec EXCEPT ![n] = [pid |-> t, hook_id |-> hook_id]]
        /\ \E garbage \in IF InitOnAlloc THEN {NULL} ELSE Nodes \cup {NULL} :
                next' = [next EXCEPT ![n] = garbage]
        /\ obj' = [obj EXCEPT ![t] = n]
    /\ Goto(t, "lock")
    /\ UNCHANGED <<phase, hooks_list, hook_id, mutex, at, reg, popped>>

\* kmalloc fails, and its result is used all the same.
KmallocFails(t) ==
    /\ pc[t] = "idle"
    /\ phase = "live"
    /\ used = Nodes
    /\ Goto(t, "oops")
    /\ UNCHANGED <<phase, heap, hook_id, mutex, obj, at, reg, popped>>

\* Mutant: add_hook without the mutex.
LockAddUnlocked(t) ==
    /\ pc[t] = "lock"
    /\ Goto(t, "add")
    /\ UNCHANGED <<phase, heap, hook_id, mutex, obj, at, reg, popped>>

LockAdd(t) == Lock(t, "lock", "add")

\* add_hook: to the head of an empty list, or down the list to its end.
AddToEmpty(t) ==
    /\ pc[t] = "add"
    /\ hooks_list = NULL
    /\ hooks_list' = obj[t]
    /\ Goto(t, "unlock")
    /\ UNCHANGED <<phase, next, rec, used, hook_id, mutex, obj, at, reg, popped>>

\* Mutant: the record goes to the front.
AddToFront(t) ==
    /\ pc[t] = "add"
    /\ hooks_list # NULL
    /\ next' = [next EXCEPT ![obj[t]] = hooks_list]
    /\ hooks_list' = obj[t]
    /\ Goto(t, "unlock")
    /\ UNCHANGED <<phase, rec, used, hook_id, mutex, obj, at, reg, popped>>

AddToList(t) ==
    /\ pc[t] = "add"
    /\ hooks_list # NULL
    /\ at' = [at EXCEPT ![t] = hooks_list]
    /\ Goto(t, "walk")
    /\ UNCHANGED <<phase, heap, hook_id, mutex, obj, reg, popped>>

WalkOn(t) ==
    /\ pc[t] = "walk"
    /\ at[t] \in used
    /\ next[at[t]] # NULL
    /\ at' = [at EXCEPT ![t] = next[at[t]]]
    /\ UNCHANGED <<phase, heap, hook_id, mutex, pc, obj, reg, popped>>

\* The node, or the one before it, through whose next field add_hook reads it,
\* was freed meanwhile: what the thread does is undefined.  Either it stops there,
\* with the mutex held, or it takes what it reads or writes for the list's end.
WalkFreed(t) ==
    /\ pc[t] = "walk"
    /\ at[t] \notin used \/ (phase = "draining" /\ at[t] = hooks_list)
    /\ \E there \in {"lost", "unlock"} : Goto(t, there)
    /\ UNCHANGED <<phase, heap, hook_id, mutex, obj, at, reg, popped>>

AddAtEnd(t) ==
    /\ pc[t] = "walk"
    /\ at[t] \in used
    /\ next[at[t]] = NULL
    /\ next' = [next EXCEPT ![at[t]] = obj[t]]
    /\ at' = [at EXCEPT ![t] = NULL]
    /\ Goto(t, "unlock")
    /\ UNCHANGED <<phase, hooks_list, rec, used, hook_id, mutex, obj, reg, popped>>

\* The record belongs to the list now.
UnlockAdd(t) ==
    /\ pc[t] = "unlock"
    /\ mutex' = Idle
    /\ obj' = [obj EXCEPT ![t] = NULL]
    /\ Goto(t, "read_id")
    /\ UNCHANGED <<phase, heap, hook_id, at, reg, popped>>

\* hook_id++, a load and a store, and the wrap, all without the mutex.
ReadId(t) ==
    /\ pc[t] = "read_id"
    /\ reg' = [reg EXCEPT ![t] = hook_id]
    /\ Goto(t, "write_id")
    /\ UNCHANGED <<phase, heap, hook_id, mutex, obj, at, popped>>

WriteId(t) ==
    /\ pc[t] = "write_id"
    /\ hook_id' = IF reg[t] = IdCap THEN IdCap ELSE reg[t] + 1
    /\ reg' = [reg EXCEPT ![t] = MinId]
    /\ Goto(t, "wrap")
    /\ UNCHANGED <<phase, heap, mutex, obj, at, popped>>

\* Mutant: the test expects to see every value.
TooLargeExactly(id) == id = MaxId + 1

TooLarge(id) == id > MaxId

\* Mutant: the wrap goes one below the range.
WrapBelow(t) ==
    /\ pc[t] = "wrap"
    /\ hook_id' = IF TooLarge(hook_id) THEN MinId - 1 ELSE hook_id
    /\ Goto(t, "idle")
    /\ UNCHANGED <<phase, heap, mutex, obj, at, reg, popped>>

\* Then the original execve runs.
WrapId(t) ==
    /\ pc[t] = "wrap"
    /\ hook_id' = IF TooLarge(hook_id) THEN MinId ELSE hook_id
    /\ Goto(t, "idle")
    /\ UNCHANGED <<phase, heap, mutex, obj, at, reg, popped>>

-----------------------------------------------------------------------------
(* GET_HOOK, by a caller that holds the device open.                       *)

\* Mutant: GET_HOOK without the mutex.
LockPopUnlocked(r) ==
    /\ phase = "live" /\ pc[r] = "idle"
    /\ Goto(r, "pop")
    /\ UNCHANGED <<phase, heap, hook_id, mutex, obj, at, reg, popped>>

LockPop(r) == phase = "live" /\ Lock(r, "idle", "pop")

\* Mutant: the head stays where it is.
PopHookKeep(r) ==
    /\ pc[r] = "pop"
    /\ obj' = [obj EXCEPT ![r] = hooks_list]
    /\ Goto(r, "unlock")
    /\ UNCHANGED <<phase, heap, hook_id, mutex, at, reg, popped>>

\* pop_hook.
PopHook(r) ==
    /\ pc[r] = "pop"
    /\ obj' = [obj EXCEPT ![r] = hooks_list]
    /\ hooks_list' = IF hooks_list = NULL THEN NULL ELSE next[hooks_list]
    /\ Goto(r, "unlock")
    /\ UNCHANGED <<phase, next, rec, used, hook_id, mutex, at, reg, popped>>

\* Mutant: the result is used before the mutex is released.
UnlockPopLate(r) ==
    /\ obj[r] # NULL
    /\ Unlock(r, "unlock", "copy")

UnlockPop(r) == Unlock(r, "unlock", "copy")

\* The fields are copied, the object freed, the copy returned.  The result of
\* pop_hook is not checked: with an empty list this is a NULL dereference.
CopyOut(r) ==
    /\ pc[r] = "copy"
    /\ obj[r] # NULL
    /\ Free(obj[r])
    /\ obj' = [obj EXCEPT ![r] = NULL]
    /\ Goto(r, "idle")
    /\ UNCHANGED <<phase, hooks_list, hook_id, mutex, at, reg, popped>>

DereferenceNull(r) ==
    /\ pc[r] = "copy"
    /\ obj[r] = NULL
    /\ Goto(r, "oops")
    /\ UNCHANGED <<phase, heap, hook_id, mutex, obj, at, reg, popped>>

-----------------------------------------------------------------------------
(* cleanup_spybot.                                                         *)

\* rmmod is refused while a reader has the device open; a thread inside
\* new_execve does not stop it.  From here on execve is not hooked.
StartCleanup ==
    /\ phase = "live"
    /\ \A r \in Readers : pc[r] = "idle"
    /\ phase' = "draining"
    /\ UNCHANGED <<heap, hook_id, mutex, pc, obj, at, reg, popped>>

\* The while loop: pop_hook, in its two accesses, and kfree.
DrainRead ==
    /\ phase = "draining" /\ popped = NULL /\ hooks_list # NULL
    /\ popped' = hooks_list
    /\ UNCHANGED <<phase, heap, hook_id, mutex, pc, obj, at, reg>>

\* Mutant: the record is unlinked and not freed.
DrainKeeps ==
    /\ popped # NULL
    /\ hooks_list' = next[popped]
    /\ popped' = NULL
    /\ UNCHANGED <<phase, next, rec, used, hook_id, mutex, pc, obj, at, reg>>

DrainUnlink ==
    /\ popped # NULL
    /\ hooks_list' = next[popped]
    /\ Free(popped)
    /\ popped' = NULL
    /\ UNCHANGED <<phase, hook_id, mutex, pc, obj, at, reg>>

\* The module's memory goes; a thread still in new_execve is lost with it.
EndCleanup ==
    /\ phase = "draining" /\ popped = NULL /\ hooks_list = NULL
    /\ phase' = "gone"
    /\ pc' = [t \in Threads |-> IF pc[t] \in {"idle", "oops"} THEN pc[t] ELSE "lost"]
    /\ UNCHANGED <<heap, hook_id, mutex, obj, at, reg, popped>>

-----------------------------------------------------------------------------
ExecStep(t) ==
    \/ LockAdd(t) \/ AddToEmpty(t) \/ AddToList(t) \/ WalkOn(t) \/ WalkFreed(t)
    \/ AddAtEnd(t) \/ UnlockAdd(t) \/ ReadId(t) \/ WriteId(t) \/ WrapId(t)

ReadStep(r) == PopHook(r) \/ UnlockPop(r) \/ CopyOut(r) \/ DereferenceNull(r)

Cleanup == StartCleanup \/ DrainRead \/ DrainUnlink \/ EndCleanup

Next ==
    \/ \E t \in Execs : NewExecve(t) \/ KmallocFails(t) \/ ExecStep(t)
    \/ \E r \in Readers : LockPop(r) \/ ReadStep(r)
    \/ Cleanup

Spec == Init /\ [][Next]_vars

\* Threads in the kernel run on, and a waiter on a mutex is served.
Fairness ==
    /\ \A t \in Execs : WF_vars(ExecStep(t)) /\ SF_vars(LockAdd(t))
    /\ \A r \in Readers : WF_vars(ReadStep(r))

FairSpec == Spec /\ Fairness

-----------------------------------------------------------------------------
(* Properties.                                                             *)

\* Every variable keeps its type.
TypeOK ==
    /\ phase \in {"live", "draining", "gone"}
    /\ hooks_list \in Nodes \cup {NULL}
    /\ next \in [Nodes -> Nodes \cup {NULL}]
    /\ rec \in [Nodes -> Records \cup {NoRecord}]
    /\ used \in SUBSET Nodes
    /\ hook_id \in MinId .. IdCap
    /\ mutex \in Threads \cup {Idle}
    /\ pc \in [Threads -> {"idle", "lock", "add", "walk", "unlock", "read_id",
                           "write_id", "wrap", "pop", "copy", "oops", "lost"}]
    /\ obj \in [Threads -> Nodes \cup {NULL}]
    /\ at \in [Execs -> Nodes \cup {NULL}]
    /\ reg \in [Execs -> MinId .. IdCap]
    /\ popped \in Nodes \cup {NULL}

\* The list read from its head: the k-th link, the nodes and their records.
Link[k \in 0 .. Cardinality(Nodes)] ==
    IF k = 0 THEN hooks_list
    ELSE IF Link[k - 1] = NULL THEN NULL ELSE next[Link[k - 1]]

ListNodes == {Link[k] : k \in 0 .. Cardinality(Nodes)} \ {NULL}

ListRecords ==
    [i \in 1 .. Cardinality({k \in 0 .. Cardinality(Nodes) : Link[k] # NULL})
        |-> rec[Link[i - 1]]]

\* While the module is loaded the list ends, holds allocated objects only, and
\* a thread walking down it stands on one of them: no pop by another thread
\* frees a node under its feet.
ListSound ==
    phase = "live" =>
        /\ Link[Cardinality(Nodes)] = NULL
        /\ ListNodes \subseteq used
        /\ \A t \in Execs : pc[t] = "walk" => at[t] \in ListNodes

\* The objects in the hands of one thread: not yet added, or popped.
Owned ==
    {obj[t] : t \in {u \in Execs : pc[u] \in {"lock", "add", "walk"}}}
        \cup {obj[r] : r \in Readers}

Linked == used \ Owned

\* While the module is loaded every allocated object is in the list or in the
\* hands of a thread: none leaks.
NoRecordLost == phase = "live" => used = ListNodes \cup (Owned \ {NULL})

\* Unloading may leave records behind (hook_cleanup), but of each thread one at
\* most: the one it had not added when the draining began.
OneLeftEach ==
    phase = "gone" => \A m, n \in used : rec[m].pid = rec[n].pid => m = n

\* No object is linked twice, freed while linked or while another thread has
\* it, and add_hook walks over linked objects only.
Exclusive ==
    phase = "live" =>
        /\ hooks_list \in Linked \cup {NULL}
        /\ \A n \in Linked :
             /\ next[n] \in Linked \cup {NULL}
             /\ next[n] # NULL => next[n] # hooks_list
             /\ \A m \in Linked : next[n] = next[m] /\ next[n] # NULL => n = m
        /\ \A t \in Execs : pc[t] = "walk" => at[t] \in Linked
        /\ \A t, u \in Threads : obj[t] = obj[u] /\ obj[t] # NULL => t = u

\* hook_id may leave its range while increments race, by any distance; but as
\* long as it is out of range some thread has still to wrap it.
IdRestored == hook_id > MaxId => \E t \in Execs : pc[t] \in {"wrap", "lost"}

\* The list is the queue the comments promise, until the module unloads.
Fifo == INSTANCE HookFifo WITH
    fifo  <- IF phase = "live" THEN ListRecords ELSE <<>>,
    open  <- phase = "live",
    given <- [r \in Readers |->
                IF pc[r] \in {"unlock", "copy"} /\ obj[r] # NULL
                THEN rec[obj[r]] ELSE NoRecord]

ImplementsFifo == Fifo!FifoSpec

\* A hooked execve always reaches the original one while the module is loaded:
\* no list, and no reader that dies on an empty one, holds it up for good.
ExecProceeds ==
    \A t \in Execs : pc[t] = "lock" ~> (pc[t] = "idle" \/ phase # "live")

\* What the comment at spybot.c:538 says of cleanup_spybot: nothing is left.
CleanupFreesAll == phase = "gone" => used = {}

-----------------------------------------------------------------------------
(* The inductive invariant behind the proofs of HookListProofs.            *)

\* Who is between lock and unlock holds the mutex.
InMutex == {"add", "walk", "unlock", "pop"}

MutexHeld == phase = "live" => \A t \in Threads : pc[t] \in InMutex => mutex = t

\* What a thread has in hand, at each of its steps.
Hands ==
    phase = "live" =>
        /\ popped = NULL
        /\ \A t \in Execs :
             /\ pc[t] \in {"lock", "add", "walk"} =>
                    obj[t] \in used /\ next[obj[t]] = NULL
             /\ pc[t] = "unlock" => obj[t] \in Linked
             /\ pc[t] \notin {"lock", "add", "walk", "unlock"} => obj[t] = NULL
        /\ \A r \in Readers :
             /\ pc[r] \notin {"lock", "add", "walk"}
             /\ obj[r] \in used \cup {NULL}
             /\ pc[r] \notin {"unlock", "copy"} => obj[r] = NULL

\* Until the module unloads no thread dies, or leaves the driver, with the mutex.
MutexServed == phase = "live" /\ mutex # Idle => pc[mutex] \in InMutex

ListInv == MutexHeld /\ Hands /\ Exclusive

\* s is the list of n nodes from `head` down the links, and holds `nodes`, each
\* of them once.
IsChain(n, s, head, links, nodes) ==
    /\ s \in [1 .. n -> nodes]
    /\ \A i, j \in 1 .. n : s[i] = s[j] => i = j
    /\ \A m \in nodes : \E i \in 1 .. n : s[i] = m
    /\ head = IF n = 0 THEN NULL ELSE s[1]
    /\ \A i \in 1 .. n : links[s[i]] = IF i = n THEN NULL ELSE s[i + 1]

\* The linked objects are those the head leads to, in some order.
Ordered ==
    phase = "live" =>
        \E n \in 0 .. Cardinality(Nodes) : \E s \in [1 .. n -> Nodes] :
            IsChain(n, s, hooks_list, next, Linked)

\* An allocated object holds a record; nobody reads after the module unloads.
Filled ==
    /\ \A n \in used : rec[n] \in Records
    /\ phase # "live" => \A r \in Readers : pc[r] = "idle"

\* A record that is not in the list yet is its thread's own.
Adding == {"lock", "add", "walk"}
Signed == phase = "live" => \A t \in Execs : pc[t] \in Adding => rec[obj[t]].pid = t

ChainInv == ListInv /\ Ordered /\ Filled /\ Signed

\* While cleanup_spybot drains the list, threads inside new_execve go on adding.
\* The list is the objects of K; of the others each thread has one at most, and
\* while it is adding that is the one in its hand.
Drained(K) ==
    /\ \A m, n \in used \ K : rec[m].pid = rec[n].pid => m = n
    /\ \A t \in Execs :
         /\ pc[t] \in Adding =>
                obj[t] \in used \ K /\ next[obj[t]] = NULL /\ rec[obj[t]].pid = t
         /\ pc[t] = "walk" /\ at[t] \in used => at[t] \in K
    /\ \E n \in 0 .. Cardinality(Nodes) : \E s \in [1 .. n -> Nodes] :
         IsChain(n, s, hooks_list, next, K)

Draining ==
    phase = "draining" => popped \in {NULL, hooks_list} /\ \E K \in SUBSET used : Drained(K)

Gone ==
    phase = "gone" =>
        /\ popped = NULL
        /\ \A t \in Execs : pc[t] \in {"idle", "oops", "lost"}

UnloadInv == Draining /\ Gone /\ OneLeftEach
=============================================================================
