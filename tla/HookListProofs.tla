--------------------------- MODULE HookListProofs ---------------------------
(***************************************************************************)
(* Proofs about HookList, for any threads, objects and number range.       *)
(***************************************************************************)
EXTENDS HookList, FiniteSetTheorems, SequenceTheorems, WellFoundedInduction,
        TLAPS

\* Every reachable state is well typed.
THEOREM ListTypeCorrect == Spec => []TypeOK
<1> USE IdAssumption DEF TypeOK, Threads
<1>1. Init => TypeOK
  BY DEF Init
<1>2. TypeOK /\ [Next]_vars => TypeOK'
  <2> SUFFICES ASSUME TypeOK, [Next]_vars PROVE TypeOK'
    OBVIOUS
  <2> USE DEF heap, Goto
  <2>1. ASSUME NEW t \in Execs, NewExecve(t)
        PROVE  TypeOK'
    <3>1. PICK n \in Nodes, g \in Nodes \cup {NULL} :
            /\ used' = used \cup {n}
            /\ rec' = [rec EXCEPT ![n] = [pid |-> t, hook_id |-> hook_id]]
            /\ next' = [next EXCEPT ![n] = g]
            /\ obj' = [obj EXCEPT ![t] = n]
      BY <2>1 DEF NewExecve
    <3>2. [pid |-> t, hook_id |-> hook_id] \in Records
      BY DEF Records
    <3>3. QED
      BY <2>1, <3>1, <3>2 DEF NewExecve
  <2>2. ASSUME NEW t \in Execs, KmallocFails(t) \/ LockAdd(t) \/ UnlockAdd(t)
        PROVE  TypeOK'
    BY <2>2 DEF KmallocFails, LockAdd, Lock, UnlockAdd
  <2>3. ASSUME NEW t \in Execs, AddToEmpty(t) \/ AddToList(t)
        PROVE  TypeOK'
    BY <2>3 DEF AddToEmpty, AddToList
  <2>4. ASSUME NEW t \in Execs, WalkOn(t) \/ WalkFreed(t) \/ AddAtEnd(t)
        PROVE  TypeOK'
    BY <2>4 DEF WalkOn, WalkFreed, AddAtEnd
  <2>5. ASSUME NEW t \in Execs, ReadId(t) \/ WrapId(t)
        PROVE  TypeOK'
    BY <2>5 DEF ReadId, WrapId
  <2>6. ASSUME NEW t \in Execs, WriteId(t)
        PROVE  TypeOK'
    BY <2>6 DEF WriteId
  <2>7. ASSUME NEW r \in Readers, LockPop(r) \/ UnlockPop(r) \/ DereferenceNull(r)
        PROVE  TypeOK'
    BY <2>7 DEF LockPop, UnlockPop, Lock, Unlock, DereferenceNull
  <2>8. ASSUME NEW r \in Readers, PopHook(r)
        PROVE  TypeOK'
    BY <2>8 DEF PopHook
  <2>9. ASSUME NEW r \in Readers, CopyOut(r)
        PROVE  TypeOK'
    BY <2>9 DEF CopyOut, Free
  <2>10. CASE StartCleanup \/ DrainRead \/ EndCleanup
    BY <2>10 DEF StartCleanup, DrainRead, EndCleanup
  <2>11. CASE DrainUnlink
    BY <2>11 DEF DrainUnlink, Free
  <2>12. CASE UNCHANGED vars
    BY <2>12 DEF vars
  <2>13. QED
    BY <2>1, <2>2, <2>3, <2>4, <2>5, <2>6, <2>7, <2>8, <2>9, <2>10, <2>11, <2>12
    DEF Next, ExecStep, ReadStep, Cleanup
<1>3. QED
  BY <1>1, <1>2, PTL DEF Spec

\* However many increments race, a record number out of range has a thread
\* that will still wrap it.
THEOREM IdIsRestored == Spec => []IdRestored
<1> USE IdAssumption DEF IdRestored
<1>1. Init => IdRestored
  BY DEF Init
<1>2. TypeOK /\ IdRestored /\ [Next]_vars => IdRestored'
  <2> SUFFICES ASSUME TypeOK, IdRestored, [Next]_vars PROVE IdRestored'
    OBVIOUS
  <2> USE DEF TypeOK, Threads, Goto
  <2>1. ASSUME NEW t \in Execs, WriteId(t)
        PROVE  IdRestored'
    BY <2>1 DEF WriteId
  <2>2. ASSUME NEW t \in Execs, WrapId(t)
        PROVE  IdRestored'
    BY <2>2 DEF WrapId, TooLarge
  <2>3. CASE EndCleanup
    BY <2>3 DEF EndCleanup
  <2>4. ASSUME NEW t \in Execs,
               NewExecve(t) \/ KmallocFails(t) \/ LockAdd(t) \/ AddToEmpty(t)
                 \/ AddToList(t) \/ WalkOn(t) \/ WalkFreed(t) \/ AddAtEnd(t)
                 \/ UnlockAdd(t) \/ ReadId(t)
        PROVE  IdRestored'
    BY <2>4
    DEF NewExecve, KmallocFails, LockAdd, Lock, AddToEmpty, AddToList, WalkOn,
        WalkFreed, AddAtEnd, UnlockAdd, ReadId
  <2>5. ASSUME NEW r \in Readers, LockPop(r) \/ ReadStep(r)
        PROVE  IdRestored'
    <3>1. r \notin Execs
      BY ListAssumption
    <3>2. hook_id' = hook_id /\ \A t \in Execs : pc'[t] = pc[t]
      BY <2>5, <3>1
      DEF LockPop, Lock, ReadStep, PopHook, UnlockPop, Unlock, CopyOut,
          DereferenceNull
    <3>3. QED
      BY <3>2
  <2>6. CASE StartCleanup \/ DrainRead \/ DrainUnlink \/ UNCHANGED vars
    BY <2>6 DEF StartCleanup, DrainRead, DrainUnlink, vars
  <2>7. QED
    BY <2>1, <2>2, <2>3, <2>4, <2>5, <2>6 DEF Next, ExecStep, Cleanup
<1>3. QED
  BY ListTypeCorrect, <1>1, <1>2, PTL DEF Spec

-----------------------------------------------------------------------------
(* The list, where the kernel zeroes what kmalloc returns.                 *)

LEMMA MutexHeldStep ==
    ASSUME TypeOK, MutexHeld, [Next]_vars
    PROVE  MutexHeld'
  <1> USE ListAssumption DEF TypeOK, MutexHeld, InMutex, Threads, Goto
  <1>1. ASSUME NEW t \in Threads, NEW from, NEW to, Lock(t, from, to)
        PROVE  MutexHeld'
    BY <1>1 DEF Lock
  <1>2. ASSUME NEW t \in Threads, NEW from, NEW to,
               from \in InMutex, to \notin InMutex, Unlock(t, from, to)
        PROVE  MutexHeld'
    BY <1>2 DEF Unlock
  <1>3. ASSUME NEW t \in Execs,
               NewExecve(t) \/ KmallocFails(t) \/ AddToEmpty(t) \/ AddToList(t)
                 \/ WalkOn(t) \/ WalkFreed(t) \/ AddAtEnd(t) \/ ReadId(t)
                 \/ WriteId(t) \/ WrapId(t)
        PROVE  MutexHeld'
    BY <1>3
    DEF NewExecve, KmallocFails, AddToEmpty, AddToList, WalkOn, WalkFreed,
        AddAtEnd, ReadId, WriteId, WrapId
  <1>4. ASSUME NEW t \in Execs, UnlockAdd(t)
        PROVE  MutexHeld'
    BY <1>4 DEF UnlockAdd
  <1>5. ASSUME NEW r \in Readers, PopHook(r) \/ CopyOut(r) \/ DereferenceNull(r)
        PROVE  MutexHeld'
    BY <1>5 DEF PopHook, CopyOut, DereferenceNull
  <1>6. CASE Cleanup
    BY <1>6 DEF Cleanup, StartCleanup, DrainRead, DrainUnlink, EndCleanup
  <1>7. CASE UNCHANGED vars
    BY <1>7 DEF vars
  <1>8. QED
    BY <1>1, <1>2, <1>3, <1>4, <1>5, <1>6, <1>7
    DEF Next, ExecStep, ReadStep, LockAdd, LockPop, UnlockPop

\* Membership in the list, spelled out.
LEMMA LinkedDef ==
    /\ Linked =
         {n \in used :
            /\ \A t \in Execs : pc[t] \in {"lock", "add", "walk"} => obj[t] # n
            /\ \A r \in Readers : obj[r] # n}
    /\ Linked' =
         {n \in used' :
            /\ \A t \in Execs : pc'[t] \in {"lock", "add", "walk"} => obj'[t] # n
            /\ \A r \in Readers : obj'[r] # n}
  BY DEF Linked, Owned

LEMMA HandsExclusiveStep ==
    ASSUME TypeOK, InitOnAlloc, MutexHeld, Hands, Exclusive, [Next]_vars
    PROVE  Hands' /\ Exclusive'
  <1> SUFFICES ASSUME phase' = "live" PROVE Hands' /\ Exclusive'
    BY DEF Hands, Exclusive
  <1>0. phase = "live"
    BY DEF Next, NewExecve, KmallocFails, ExecStep, LockAdd, Lock, AddToEmpty,
           AddToList, WalkOn, WalkFreed, AddAtEnd, UnlockAdd, ReadId, WriteId,
           WrapId, LockPop, ReadStep, PopHook, UnlockPop, Unlock, CopyOut,
           DereferenceNull, Cleanup, StartCleanup, DrainRead, DrainUnlink,
           EndCleanup, vars
  <1> USE <1>0, ListAssumption DEF TypeOK, Hands, Exclusive, Threads, Goto, heap
  <1>1. ASSUME NEW t \in Execs, NewExecve(t)
        PROVE  Hands' /\ Exclusive'
    <2>1. PICK n \in Nodes \ used :
            /\ used' = used \cup {n}
            /\ next' = [next EXCEPT ![n] = NULL]
            /\ obj' = [obj EXCEPT ![t] = n]
            /\ pc' = [pc EXCEPT ![t] = "lock"]
            /\ UNCHANGED <<hooks_list, at, popped>> /\ pc[t] = "idle"
      BY <1>1 DEF NewExecve
    <2>2. Linked' = Linked
      BY <2>1, LinkedDef
    <2>3. n \notin Linked /\ \A m \in Linked : m # n /\ next'[m] = next[m]
      BY <2>1, LinkedDef
    <2>4. Hands'
      BY <2>1, <2>2
    <2>5. Exclusive'
      BY <2>1, <2>2, <2>3
    <2>6. QED
      BY <2>4, <2>5
  <1>2. ASSUME NEW t \in Execs, KmallocFails(t) \/ LockAdd(t) \/ AddToList(t)
                                  \/ ReadId(t) \/ WriteId(t) \/ WrapId(t)
        PROVE  Hands' /\ Exclusive'
    <2>1. UNCHANGED <<hooks_list, next, used, obj>>
      BY <1>2 DEF KmallocFails, LockAdd, Lock, AddToList, ReadId, WriteId, WrapId
    <2>2. Linked' = Linked
      BY <1>2, <2>1, LinkedDef
      DEF KmallocFails, LockAdd, Lock, AddToList, ReadId, WriteId, WrapId
    <2>3. QED
      BY <1>2, <2>1, <2>2
      DEF KmallocFails, LockAdd, Lock, AddToList, ReadId, WriteId, WrapId
  <1>3. ASSUME NEW t \in Execs, AddToEmpty(t) \/ AddAtEnd(t)
        PROVE  Hands' /\ Exclusive'
    <2>1. obj[t] \in used /\ next[obj[t]] = NULL /\ obj[t] \notin Linked
          /\ obj[t] # NULL
      BY <1>3, LinkedDef DEF AddToEmpty, AddAtEnd
    <2>2. Linked' = Linked \cup {obj[t]}
      BY <1>3, <2>1, LinkedDef DEF AddToEmpty, AddAtEnd
    <2>3. CASE AddToEmpty(t)
      BY <2>1, <2>2, <2>3 DEF AddToEmpty
    <2>4. CASE AddAtEnd(t)
      <3>1. at[t] \in Linked /\ next[at[t]] = NULL
            /\ next' = [next EXCEPT ![at[t]] = obj[t]]
            /\ UNCHANGED <<hooks_list, used, obj, popped>>
            /\ pc' = [pc EXCEPT ![t] = "unlock"]
            /\ at' = [at EXCEPT ![t] = NULL]
        BY <2>4 DEF AddAtEnd
      <3>2. \A u \in Execs : pc[u] \in {"lock", "add", "walk"} => obj[u] # at[t]
        BY <3>1, LinkedDef
      <3>3. Hands'
        BY <2>1, <2>2, <3>1, <3>2
      <3>4. Exclusive'
        BY <2>1, <2>2, <3>1
      <3>5. QED
        BY <3>3, <3>4
    <2>5. QED
      BY <1>3, <2>3, <2>4
  <1>4. ASSUME NEW t \in Execs, WalkOn(t) \/ WalkFreed(t)
        PROVE  Hands' /\ Exclusive'
    <2>1. at[t] \in Linked /\ at[t] \in used
      BY <1>4, LinkedDef DEF WalkOn, WalkFreed
    <2>2. WalkOn(t)
      BY <1>4, <2>1 DEF WalkFreed
    <2>3. Linked' = Linked
      BY <2>2, LinkedDef DEF WalkOn
    <2>4. QED
      BY <2>1, <2>2, <2>3 DEF WalkOn
  <1>5. ASSUME NEW t \in Execs, UnlockAdd(t)
        PROVE  Hands' /\ Exclusive'
    <2>1. Linked' = Linked
      BY <1>5, LinkedDef DEF UnlockAdd
    <2>2. QED
      BY <1>5, <2>1 DEF UnlockAdd
  <1>6. ASSUME NEW r \in Readers, LockPop(r) \/ UnlockPop(r) \/ DereferenceNull(r)
        PROVE  Hands' /\ Exclusive'
    <2>1. UNCHANGED <<hooks_list, next, used, obj, at>>
          /\ \A t \in Execs : pc'[t] = pc[t]
      BY <1>6 DEF LockPop, Lock, UnlockPop, Unlock, DereferenceNull
    <2>2. Linked' = Linked
      BY <2>1, LinkedDef
    <2>3. Exclusive'
      BY <2>1, <2>2
    <2>4. Hands'
      BY <1>6, <2>1, <2>2 DEF LockPop, Lock, UnlockPop, Unlock, DereferenceNull
    <2>5. QED
      BY <2>3, <2>4
  <1>7. ASSUME NEW r \in Readers, PopHook(r)
        PROVE  Hands' /\ Exclusive'
    <2>1. /\ UNCHANGED <<next, used, at, popped>>
          /\ obj' = [obj EXCEPT ![r] = hooks_list]
          /\ pc' = [pc EXCEPT ![r] = "unlock"]
          /\ pc[r] = "pop" /\ obj[r] = NULL
          /\ hooks_list' = IF hooks_list = NULL THEN NULL ELSE next[hooks_list]
      BY <1>7 DEF PopHook
    <2>2. \A t \in Execs : pc[t] \notin {"walk", "unlock"} /\ pc'[t] = pc[t]
      BY <2>1 DEF MutexHeld, InMutex
    <2>3. Linked' = Linked \ {hooks_list}
      BY <2>1, <2>2, LinkedDef
    <2>4. Hands'
      BY <2>1, <2>2, <2>3, LinkedDef
    <2>5. Exclusive'
      <3>1. \A t \in Threads : obj[t] # NULL => obj[t] # hooks_list
        BY <2>2, LinkedDef
      <3>2. QED
        BY <2>1, <2>2, <2>3, <3>1
    <2>6. QED
      BY <2>4, <2>5
  <1>8. ASSUME NEW r \in Readers, CopyOut(r)
        PROVE  Hands' /\ Exclusive'
    <2>1. /\ obj[r] # NULL /\ used' = used \ {obj[r]}
          /\ next' = [next EXCEPT ![obj[r]] = NULL]
          /\ obj' = [obj EXCEPT ![r] = NULL]
          /\ pc' = [pc EXCEPT ![r] = "idle"]
          /\ UNCHANGED <<hooks_list, at, popped>>
      BY <1>8 DEF CopyOut, Free
    <2>2. Linked' = Linked /\ obj[r] \notin Linked
      BY <2>1, LinkedDef
    <2>3. Hands'
      BY <2>1, <2>2
    <2>4. Exclusive'
      BY <2>1, <2>2
    <2>5. QED
      BY <2>3, <2>4
  <1>9. CASE UNCHANGED vars
    <2>1. Linked' = Linked
      BY <1>9 DEF vars, Linked, Owned
    <2>2. QED
      BY <1>9, <2>1 DEF vars
  <1>10. ~Cleanup
    BY <1>0 DEF Cleanup, StartCleanup, DrainRead, DrainUnlink, EndCleanup
  <1>11. QED
    BY <1>1, <1>2, <1>3, <1>4, <1>5, <1>6, <1>7, <1>8, <1>9, <1>10
    DEF Next, ExecStep, ReadStep

LEMMA ListInvHolds ==
    ASSUME InitOnAlloc
    PROVE  Spec => [](TypeOK /\ ListInv)
  <1>1. Init => ListInv
    BY DEF Init, ListInv, MutexHeld, InMutex, Hands, Exclusive, Linked, Owned,
           Threads
  <1>2. TypeOK /\ ListInv /\ [Next]_vars => ListInv'
    BY MutexHeldStep, HandsExclusiveStep DEF ListInv
  <1>3. QED
    BY ListTypeCorrect, <1>1, <1>2, PTL DEF Spec

\* Where the kernel zeroes what kmalloc returns, two threads never share an
\* object, and the list in use never links one twice, nor one that is freed or
\* in a thread's hands.
THEOREM ListIsExclusive ==
    ASSUME InitOnAlloc
    PROVE  Spec => []Exclusive
  <1>1. ListInv => Exclusive
    BY DEF ListInv
  <1>2. QED
    BY ListInvHolds, <1>1, PTL

LEMMA MutexServedStep ==
    ASSUME TypeOK, ListInv, MutexServed, [Next]_vars
    PROVE  MutexServed'
  <1> SUFFICES ASSUME phase' = "live" PROVE MutexServed'
    BY DEF MutexServed
  <1> USE ListAssumption DEF TypeOK, MutexServed, InMutex, Threads, Goto
  <1>1. ~Cleanup
    BY DEF ListInv, Hands, Cleanup, StartCleanup, DrainRead, DrainUnlink, EndCleanup
  <1>2. ASSUME NEW t \in Threads, NEW from, NEW to \in InMutex, Lock(t, from, to)
        PROVE  MutexServed'
    BY <1>2 DEF Lock
  <1>3. ASSUME mutex' = Idle
        PROVE  MutexServed'
    BY <1>3
  <1>4. ASSUME NEW t \in Execs,
               NewExecve(t) \/ KmallocFails(t) \/ AddToEmpty(t) \/ AddToList(t)
                 \/ WalkOn(t) \/ AddAtEnd(t) \/ ReadId(t) \/ WriteId(t) \/ WrapId(t)
        PROVE  MutexServed'
    BY <1>4
    DEF NewExecve, KmallocFails, AddToEmpty, AddToList, WalkOn, AddAtEnd, ReadId,
        WriteId, WrapId
  <1>5. ASSUME NEW t \in Execs, WalkFreed(t)
        PROVE  FALSE
    <2>1. phase = "live" /\ pc[t] = "walk"
      BY <1>5 DEF WalkFreed
    <2>2. at[t] \in Linked
      BY <2>1 DEF ListInv, Exclusive
    <2>3. QED
      BY <1>5, <2>1, <2>2 DEF WalkFreed, Linked
  <1>6. ASSUME NEW r \in Readers, PopHook(r) \/ CopyOut(r) \/ DereferenceNull(r)
        PROVE  MutexServed'
    BY <1>6 DEF PopHook, CopyOut, DereferenceNull
  <1>7. CASE UNCHANGED vars
    BY <1>7 DEF vars
  <1>8. QED
    BY <1>1, <1>2, <1>3, <1>4, <1>5, <1>6, <1>7
    DEF Next, ExecStep, ReadStep, LockAdd, LockPop, UnlockAdd, UnlockPop, Unlock

\* Whoever holds hook_mutex, for which every execve of the machine waits, is at a
\* step on the way to its release: no thread dies with it, be the list empty, the
\* memory short, or a walked node popped by a reader.
THEOREM MutexIsServed ==
    ASSUME InitOnAlloc
    PROVE  Spec => []MutexServed
  <1>1. Init => MutexServed
    BY DEF Init, MutexServed
  <1>2. TypeOK /\ ListInv /\ MutexServed /\ [Next]_vars => MutexServed'
    BY MutexServedStep
  <1>3. QED
    BY ListInvHolds, <1>1, <1>2, PTL DEF Spec

-----------------------------------------------------------------------------
(* Reading the list from its head.  The nodes are defined by recursion, so   *)
(* what is read is settled by induction: the least link that differs.        *)

LEMMA LeastNumber ==
    ASSUME NEW T, T \subseteq Nat, T # {}
    PROVE  \E x \in T : \A y \in T : x =< y
  <1>1. PICK x \in T : \A y \in T : ~(<<y, x>> \in OpToRel(<, Nat))
    BY NatLessThanWellFounded, WFMin, Zenon
  <1>2. \A y \in T : <<y, x>> \in OpToRel(<, Nat) <=> y < x
    BY DEF OpToRel
  <1>3. \A y \in T : y \in Nat /\ ~(y < x)
    BY <1>1, <1>2
  <1>4. QED
    BY <1>3

\* What the definition of Link says of a list of N links at most.
Reading(N, head, links) ==
    CHOOSE f : f = [k \in 0 .. N |-> IF k = 0 THEN head
                                     ELSE IF f[k - 1] = NULL THEN NULL
                                     ELSE links[f[k - 1]]]

LEMMA LinkIsReading ==
    /\ Link = Reading(Cardinality(Nodes), hooks_list, next)
    /\ Link' = Reading(Cardinality(Nodes), hooks_list', next')
  BY DEF Link, Reading

\* The k-th link of a chain is its k-th node, and NULL after the last.
LEMMA ReadingOfChain ==
    ASSUME NEW N \in Nat, NEW n \in 0 .. N, NEW s, NEW head, NEW links, NEW nodes,
           NULL \notin nodes, IsChain(n, s, head, links, nodes)
    PROVE  Reading(N, head, links)
             = [k \in 0 .. N |-> IF k < n THEN s[k + 1] ELSE NULL]
  <1> DEFINE Reads(f) == f = [k \in 0 .. N |-> IF k = 0 THEN head
                                               ELSE IF f[k - 1] = NULL THEN NULL
                                               ELSE links[f[k - 1]]]
             g == [k \in 0 .. N |-> IF k < n THEN s[k + 1] ELSE NULL]
  <1>1. \A i \in 1 .. n : s[i] \in nodes /\ s[i] # NULL
    BY DEF IsChain
  <1>2. \A k \in 0 .. N : g[k] = IF k = 0 THEN head
                                 ELSE IF g[k - 1] = NULL THEN NULL
                                 ELSE links[g[k - 1]]
    <2> SUFFICES ASSUME NEW k \in 0 .. N
                 PROVE  g[k] = IF k = 0 THEN head
                               ELSE IF g[k - 1] = NULL THEN NULL
                               ELSE links[g[k - 1]]
      OBVIOUS
    <2>1. CASE k = 0
      BY <2>1 DEF IsChain
    <2>2. CASE k # 0 /\ k - 1 < n
      <3>1. k \in 1 .. n /\ g[k - 1] = s[k]
        BY <2>2
      <3>2. links[s[k]] = IF k = n THEN NULL ELSE s[k + 1]
        BY <3>1 DEF IsChain
      <3>3. QED
        BY <1>1, <2>2, <3>1, <3>2
    <2>3. CASE k # 0 /\ ~(k - 1 < n)
      BY <2>3
    <2>4. QED
      BY <2>1, <2>2, <2>3
  <1>3. Reads(g)
    BY <1>2
  <1>4. ASSUME NEW f, Reads(f)
        PROVE  f = g
    <2>1. \A k \in 0 .. N : f[k] = IF k = 0 THEN head
                                   ELSE IF f[k - 1] = NULL THEN NULL
                                   ELSE links[f[k - 1]]
      BY <1>4
    <2> DEFINE T == {k \in 0 .. N : f[k] # g[k]}
    <2>2. T = {}
      <3>1. SUFFICES ASSUME T # {} PROVE FALSE
        OBVIOUS
      <3>2. PICK k \in T : \A j \in T : k =< j
        <4>1. T \subseteq Nat
          OBVIOUS
        <4> HIDE DEF T
        <4>2. QED
          BY <3>1, <4>1, LeastNumber
      <3>3. k # 0
        BY <1>2, <2>1
      <3>4. f[k - 1] = g[k - 1]
        BY <3>2, <3>3
      <3>5. QED
        BY <1>2, <2>1, <3>2, <3>3, <3>4
    <2>3. f = [k \in 0 .. N |-> f[k]]
      BY <1>4
    <2>4. \A k \in 0 .. N : f[k] = g[k]
      BY <2>2
    <2>5. QED
      BY <2>3, <2>4
  <1>5. Reads(Reading(N, head, links))
    <2> HIDE DEF g
    <2>1. \E f : Reads(f)
      BY <1>3
    <2>2. QED
      BY <2>1 DEF Reading
  <1>6. QED
    <2> HIDE DEF Reads
    <2>1. Reading(N, head, links) = g
      BY <1>4, <1>5
    <2>2. QED
      BY <2>1

\* A chain is not longer than the objects there are.
LEMMA ChainFits ==
    ASSUME NEW n \in Nat, NEW s, NEW head, NEW links, NEW nodes,
           nodes \subseteq Nodes, IsChain(n, s, head, links, nodes)
    PROVE  n =< Cardinality(Nodes)
  <1>1. s \in Injection(1 .. n, Nodes)
    BY DEF IsChain, Injection, IsInjective
  <1>2. Cardinality(1 .. n) =< Cardinality(Nodes)
    BY <1>1, FS_Injection, ListAssumption
  <1>3. Cardinality(1 .. n) = n
    BY FS_Interval
  <1>4. QED
    BY <1>2, <1>3

\* A node with no successor is the last of the chain.
LEMMA ChainEnd ==
    ASSUME NEW n \in Nat, NEW s, NEW head, NEW links, NEW nodes, NULL \notin nodes,
           IsChain(n, s, head, links, nodes), NEW m \in nodes, links[m] = NULL
    PROVE  n # 0 /\ m = s[n]
  <1>1. PICK k \in 1 .. n : s[k] = m
    BY DEF IsChain
  <1>2. ASSUME k # n PROVE FALSE
    <2>1. k + 1 \in 1 .. n /\ links[s[k]] = s[k + 1]
      BY <1>2 DEF IsChain
    <2>2. s[k + 1] \in nodes
      BY <2>1 DEF IsChain
    <2>3. QED
      BY <1>1, <2>1, <2>2
  <1>3. QED
    BY <1>1, <1>2

Extended(n, s, x) == [i \in 1 .. n + 1 |-> IF i = n + 1 THEN x ELSE s[i]]
Shortened(n, s)   == [i \in 1 .. n - 1 |-> s[i + 1]]

\* To link a new node, which ends there, from the last one (from the head, when
\* there is none) makes a longer chain.
LEMMA ChainAppend ==
    ASSUME NEW n \in Nat, NEW s, NEW head, NEW links, NEW nodes,
           IsChain(n, s, head, links, nodes),
           NEW x, x \notin nodes, NEW head2, NEW links2,
           head2 = IF n = 0 THEN x ELSE head,
           links2[x] = NULL,
           \A m \in nodes : links2[m] = IF m = s[n] THEN x ELSE links[m]
    PROVE  IsChain(n + 1, Extended(n, s, x), head2, links2, nodes \cup {x})
  <1> DEFINE s2 == [i \in 1 .. n + 1 |-> IF i = n + 1 THEN x ELSE s[i]]
  <1>1. s2 \in [1 .. n + 1 -> nodes \cup {x}]
    BY DEF IsChain
  <1>2. \A i, j \in 1 .. n + 1 : s2[i] = s2[j] => i = j
    <2>1. \A i \in 1 .. n : s[i] # x
      BY DEF IsChain
    <2>2. QED
      BY <2>1 DEF IsChain
  <1>3. \A m \in nodes \cup {x} : \E i \in 1 .. n + 1 : s2[i] = m
    <2>1. ASSUME NEW m \in nodes
          PROVE  \E i \in 1 .. n + 1 : s2[i] = m
      <3>1. PICK i \in 1 .. n : s[i] = m
        BY DEF IsChain
      <3>2. i \in 1 .. n + 1 /\ s2[i] = m
        BY <3>1
      <3>3. QED
        BY <3>2
    <2>2. n + 1 \in 1 .. n + 1 /\ s2[n + 1] = x
      OBVIOUS
    <2>3. QED
      BY <2>1, <2>2
  <1>4. head2 = s2[1] /\ n + 1 # 0
    BY DEF IsChain
  <1>5. \A i \in 1 .. n + 1 : links2[s2[i]] = IF i = n + 1 THEN NULL ELSE s2[i + 1]
    <2> SUFFICES ASSUME NEW i \in 1 .. n + 1
                 PROVE  links2[s2[i]] = IF i = n + 1 THEN NULL ELSE s2[i + 1]
      OBVIOUS
    <2>1. CASE i = n + 1
      BY <2>1
    <2>2. CASE i = n
      <3>1. s2[i] = s[n] /\ s2[i + 1] = x /\ s[n] \in nodes
        BY <2>2 DEF IsChain
      <3>2. QED
        BY <2>2, <3>1
    <2>3. CASE i < n
      <3>1. s2[i] = s[i] /\ s2[i + 1] = s[i + 1]
        BY <2>3
      <3>2. s[i] # s[n] /\ s[i] \in nodes /\ links[s[i]] = s[i + 1]
        BY <2>3 DEF IsChain
      <3>3. QED
        BY <2>3, <3>1, <3>2
    <2>4. QED
      BY <2>1, <2>2, <2>3
  <1>6. IsChain(n + 1, s2, head2, links2, nodes \cup {x})
    <2> HIDE DEF s2
    <2>1. QED
      BY <1>1, <1>2, <1>3, <1>4, <1>5 DEF IsChain
  <1>7. QED
    BY <1>6 DEF Extended

\* To move the head to the second node makes a shorter one.
LEMMA ChainTail ==
    ASSUME NEW n \in Nat \ {0}, NEW s, NEW head, NEW links, NEW nodes,
           IsChain(n, s, head, links, nodes),
           NEW links2, \A m \in nodes \ {head} : links2[m] = links[m]
    PROVE  /\ head = s[1] /\ head \in nodes
           /\ IsChain(n - 1, Shortened(n, s), links[head], links2, nodes \ {head})
  <1> DEFINE s2 == [i \in 1 .. n - 1 |-> s[i + 1]]
  <1>1. head = s[1] /\ head \in nodes
    BY DEF IsChain
  <1>2. \A i \in 1 .. n - 1 : i + 1 \in 1 .. n /\ s[i + 1] \in nodes \ {head}
    BY <1>1 DEF IsChain
  <1>3. s2 \in [1 .. n - 1 -> nodes \ {head}]
    BY <1>2
  <1>4. \A i, j \in 1 .. n - 1 : s2[i] = s2[j] => i = j
    BY DEF IsChain
  <1>5. \A m \in nodes \ {head} : \E i \in 1 .. n - 1 : s2[i] = m
    <2> SUFFICES ASSUME NEW m \in nodes \ {head} PROVE \E i \in 1 .. n - 1 : s2[i] = m
      OBVIOUS
    <2>1. PICK j \in 1 .. n : s[j] = m
      BY DEF IsChain
    <2>2. j # 1
      BY <1>1, <2>1
    <2>3. j - 1 \in 1 .. n - 1 /\ s2[j - 1] = m
      BY <2>1, <2>2
    <2>4. QED
      BY <2>3
  <1>6. links[head] = IF n - 1 = 0 THEN NULL ELSE s2[1]
    BY <1>1 DEF IsChain
  <1>7. \A i \in 1 .. n - 1 : links2[s2[i]] = IF i = n - 1 THEN NULL ELSE s2[i + 1]
    <2> SUFFICES ASSUME NEW i \in 1 .. n - 1
                 PROVE  links2[s2[i]] = IF i = n - 1 THEN NULL ELSE s2[i + 1]
      OBVIOUS
    <2>1. links[s[i + 1]] = IF i + 1 = n THEN NULL ELSE s[i + 2]
      BY <1>2 DEF IsChain
    <2>2. QED
      BY <1>2, <2>1
  <1>8. IsChain(n - 1, s2, links[head], links2, nodes \ {head})
    <2> HIDE DEF s2
    <2>1. QED
      BY <1>3, <1>4, <1>5, <1>6, <1>7 DEF IsChain
  <1>9. QED
    BY <1>1, <1>8 DEF Shortened

NodesRead(N, L)  == {L[k] : k \in 0 .. N} \ {NULL}
LengthRead(N, L) == Cardinality({k \in 0 .. N : L[k] # NULL})

\* What ListSound, NoRecordLost and the refinement read of the list.
LEMMA ReadAll ==
    ASSUME NEW N \in Nat, NEW n \in 0 .. N, NEW s, NEW head, NEW links, NEW nodes,
           NULL \notin nodes, IsChain(n, s, head, links, nodes), NEW L,
           L = Reading(N, head, links)
    PROVE  /\ L[N] = NULL
           /\ NodesRead(N, L) = nodes
           /\ LengthRead(N, L) = n
           /\ \A i \in 1 .. n : L[i - 1] = s[i]
  <1>1. L = [k \in 0 .. N |-> IF k < n THEN s[k + 1] ELSE NULL]
    BY ReadingOfChain
  <1>2. \A i \in 1 .. n : s[i] \in nodes /\ s[i] # NULL
    BY DEF IsChain
  <1>3. \A k \in 0 .. N : L[k] # NULL <=> k < n
    BY <1>1, <1>2
  <1>4. {k \in 0 .. N : L[k] # NULL} = 0 .. n - 1
    BY <1>3
  <1>5. Cardinality(0 .. n - 1) = n
    BY FS_Interval
  <1>6. \A i \in 1 .. n : L[i - 1] = s[i]
    BY <1>1
  <1>7. {L[k] : k \in 0 .. N} \ {NULL} = nodes
    <2>1. ASSUME NEW k \in 0 .. N, L[k] # NULL
          PROVE  L[k] \in nodes
      BY <1>1, <1>2, <2>1
    <2>2. ASSUME NEW m \in nodes
          PROVE  \E k \in 0 .. N : L[k] = m
      <3>1. PICK i \in 1 .. n : s[i] = m
        BY DEF IsChain
      <3>2. i - 1 \in 0 .. N /\ L[i - 1] = m
        BY <1>6, <3>1
      <3>3. QED
        BY <3>2
    <2>3. QED
      BY <2>1, <2>2
  <1>8. L[N] = NULL
    BY <1>1
  <1>9. QED
    BY <1>4, <1>5, <1>6, <1>7, <1>8, Zenon DEF NodesRead, LengthRead

-----------------------------------------------------------------------------
(* The list stays one chain of all the linked objects.                       *)

LEMMA FilledStep ==
    ASSUME TypeOK, Filled, [Next]_vars
    PROVE  Filled'
  <1> USE ListAssumption DEF TypeOK, Filled, Threads, Goto, heap
  <1>1. ASSUME NEW t \in Execs, NewExecve(t)
        PROVE  Filled'
    <2>1. [pid |-> t, hook_id |-> hook_id] \in Records
      BY DEF Records
    <2>2. QED
      BY <1>1, <2>1 DEF NewExecve
  <1>2. ASSUME NEW t \in Execs, KmallocFails(t) \/ ExecStep(t)
        PROVE  Filled'
    <2>1. UNCHANGED <<rec, used, phase>> /\ \A r \in Readers : pc'[r] = pc[r]
      BY <1>2
      DEF KmallocFails, ExecStep, LockAdd, Lock, AddToEmpty, AddToList, WalkOn,
          WalkFreed, AddAtEnd, UnlockAdd, ReadId, WriteId, WrapId
    <2>2. QED
      BY <2>1
  <1>3. ASSUME NEW r \in Readers, LockPop(r) \/ ReadStep(r)
        PROVE  Filled'
    <2>1. phase = "live"
      BY <1>3
      DEF LockPop, ReadStep, PopHook, UnlockPop, Unlock, CopyOut, DereferenceNull
    <2>2. \A n \in used' : n \in used /\ rec'[n] = rec[n]
      BY <1>3
      DEF LockPop, Lock, ReadStep, PopHook, UnlockPop, Unlock, CopyOut, Free,
          DereferenceNull
    <2>3. phase' = phase
      BY <1>3
      DEF LockPop, Lock, ReadStep, PopHook, UnlockPop, Unlock, CopyOut,
          DereferenceNull
    <2>4. QED
      BY <2>1, <2>2, <2>3
  <1>4. CASE StartCleanup \/ DrainRead
    BY <1>4 DEF StartCleanup, DrainRead
  <1>5. CASE DrainUnlink
    BY <1>5 DEF DrainUnlink, Free
  <1>6. CASE EndCleanup
    BY <1>6 DEF EndCleanup
  <1>7. CASE UNCHANGED vars
    BY <1>7 DEF vars
  <1>8. QED
    BY <1>1, <1>2, <1>3, <1>4, <1>5, <1>6, <1>7 DEF Next, Cleanup

\* add_hook puts its object after the last node.
LEMMA AddExtendsChain ==
    ASSUME TypeOK, ListInv, phase = "live", NEW t \in Execs,
           AddToEmpty(t) \/ AddAtEnd(t),
           NEW n \in Nat, NEW s, IsChain(n, s, hooks_list, next, Linked)
    PROVE  /\ obj[t] \in used
           /\ IsChain(n + 1, Extended(n, s, obj[t]), hooks_list', next', Linked')
  <1> USE ListAssumption DEF TypeOK, ListInv, Hands, Exclusive, Threads, Goto, heap
  <1>1. obj[t] \in used /\ next[obj[t]] = NULL /\ obj[t] \notin Linked
    BY LinkedDef DEF AddToEmpty, AddAtEnd
  <1>2. Linked' = Linked \cup {obj[t]}
    BY <1>1, LinkedDef DEF AddToEmpty, AddAtEnd
  <1>3. Linked \subseteq Nodes /\ NULL \notin Linked
    BY LinkedDef
  <1>4. CASE AddToEmpty(t)
    <2>1. n = 0 /\ Linked = {}
      BY <1>3, <1>4 DEF AddToEmpty, IsChain
    <2>2. hooks_list' = obj[t] /\ next' = next
      BY <1>4 DEF AddToEmpty
    <2>3. IsChain(n + 1, Extended(n, s, obj[t]), hooks_list', next', Linked \cup {obj[t]})
      BY <1>1, <2>1, <2>2, ChainAppend
    <2>4. QED
      BY <1>1, <1>2, <2>3
  <1>5. CASE AddAtEnd(t)
    <2>1. at[t] \in Linked /\ next[at[t]] = NULL /\ hooks_list' = hooks_list
          /\ next' = [next EXCEPT ![at[t]] = obj[t]]
      BY <1>5 DEF AddAtEnd
    <2>2. n # 0 /\ at[t] = s[n]
      BY <1>3, <2>1, ChainEnd
    <2>3. \A m \in Linked : next'[m] = IF m = s[n] THEN obj[t] ELSE next[m]
      BY <1>3, <2>1, <2>2
    <2>4. hooks_list' = IF n = 0 THEN obj[t] ELSE hooks_list
      BY <2>1, <2>2
    <2>5. obj[t] \notin Linked /\ next'[obj[t]] = NULL
      BY <1>1, <2>1, <2>2
    <2>6. IsChain(n + 1, Extended(n, s, obj[t]), hooks_list', next', Linked \cup {obj[t]})
      BY ONLY <2>3, <2>4, <2>5, n \in Nat, IsChain(n, s, hooks_list, next, Linked),
              ChainAppend
    <2>7. QED
      BY <1>1, <1>2, <2>6
  <1>6. QED
    BY <1>4, <1>5

\* pop_hook takes the first node, if there is one.
LEMMA PopShortensChain ==
    ASSUME TypeOK, ListInv, phase = "live", NEW r \in Readers, PopHook(r),
           NEW n \in Nat, NEW s, IsChain(n, s, hooks_list, next, Linked)
    PROVE  IF n = 0
           THEN /\ hooks_list = NULL
                /\ IsChain(0, s, hooks_list', next', Linked')
           ELSE /\ hooks_list = s[1]
                /\ IsChain(n - 1, Shortened(n, s), hooks_list', next', Linked')
  <1> USE ListAssumption DEF TypeOK, ListInv, Hands, Exclusive, Threads, Goto, heap
  <1>1. /\ UNCHANGED <<next, used>>
        /\ obj' = [obj EXCEPT ![r] = hooks_list]
        /\ pc' = [pc EXCEPT ![r] = "unlock"]
        /\ pc[r] = "pop" /\ obj[r] = NULL
        /\ hooks_list' = IF hooks_list = NULL THEN NULL ELSE next[hooks_list]
    BY DEF PopHook
  <1>2. Linked' = Linked \ {hooks_list}
    <2>1. \A t \in Execs : pc'[t] = pc[t]
      BY <1>1
    <2>2. QED
      BY <1>1, <2>1, LinkedDef
  <1>3. NULL \notin Linked
    BY LinkedDef
  <1>4. CASE n = 0
    BY <1>1, <1>2, <1>4 DEF IsChain
  <1>5. CASE n # 0
    <2>1. n \in Nat \ {0}
      BY <1>5
    <2>2. /\ hooks_list = s[1] /\ hooks_list \in Linked
          /\ IsChain(n - 1, Shortened(n, s), next[hooks_list], next,
                     Linked \ {hooks_list})
      BY <2>1, ChainTail
    <2>3. hooks_list' = next[hooks_list]
      BY <1>1, <1>3, <2>2
    <2>4. QED
      BY <1>1, <1>2, <1>5, <2>2, <2>3
  <1>6. QED
    BY <1>4, <1>5

\* The steps that leave the list alone, while the module stays loaded.
Apart ==
    \/ \E t \in Execs :
        \/ NewExecve(t) \/ KmallocFails(t) \/ LockAdd(t) \/ AddToList(t)
        \/ WalkOn(t) \/ WalkFreed(t) \/ UnlockAdd(t) \/ ReadId(t) \/ WriteId(t)
        \/ WrapId(t)
    \/ \E r \in Readers :
        LockPop(r) \/ UnlockPop(r) \/ CopyOut(r) \/ DereferenceNull(r)
    \/ UNCHANGED vars

LEMMA StepKinds ==
    ASSUME Hands, [Next]_vars, phase = "live", phase' = "live"
    PROVE  \/ \E t \in Execs : AddToEmpty(t) \/ AddAtEnd(t)
           \/ \E r \in Readers : PopHook(r)
           \/ Apart
  <1>1. ~Cleanup
    BY DEF Hands, Cleanup, StartCleanup, DrainRead, DrainUnlink, EndCleanup
  <1>2. QED
    BY <1>1 DEF Next, ExecStep, ReadStep, Apart

LEMMA ApartKeepsList ==
    ASSUME TypeOK, ListInv, phase = "live", Apart
    PROVE  /\ hooks_list' = hooks_list
           /\ Linked' = Linked
           /\ \A m \in Linked : next'[m] = next[m] /\ rec'[m] = rec[m]
  <1> USE ListAssumption DEF TypeOK, ListInv, Hands, Threads, Goto, heap
  <1>0. \A m \in Linked : m \in Nodes /\ m \in used
    BY LinkedDef
  <1>1. ASSUME NEW t \in Execs, NewExecve(t)
        PROVE  /\ hooks_list' = hooks_list
               /\ Linked' = Linked
               /\ \A m \in Linked : next'[m] = next[m] /\ rec'[m] = rec[m]
    <2>1. PICK n \in Nodes \ used, g \in Nodes \cup {NULL} :
            /\ used' = used \cup {n}
            /\ rec' = [rec EXCEPT ![n] = [pid |-> t, hook_id |-> hook_id]]
            /\ next' = [next EXCEPT ![n] = g]
            /\ obj' = [obj EXCEPT ![t] = n]
            /\ pc' = [pc EXCEPT ![t] = "lock"]
            /\ hooks_list' = hooks_list /\ pc[t] = "idle"
      BY <1>1 DEF NewExecve
    <2>2. Linked' = Linked
      BY <2>1, LinkedDef
    <2>3. QED
      BY <1>0, <2>1, <2>2
  <1>2. ASSUME NEW t \in Execs,
               KmallocFails(t) \/ LockAdd(t) \/ AddToList(t) \/ WalkOn(t)
                 \/ UnlockAdd(t) \/ ReadId(t) \/ WriteId(t) \/ WrapId(t)
        PROVE  UNCHANGED <<hooks_list, next, rec>> /\ Linked' = Linked
    <2>1. UNCHANGED <<hooks_list, next, rec, used>>
      BY <1>2
      DEF KmallocFails, LockAdd, Lock, AddToList, WalkOn, UnlockAdd, ReadId,
          WriteId, WrapId
    <2>2. Linked' = Linked
      BY <1>2, <2>1, LinkedDef
      DEF KmallocFails, LockAdd, Lock, AddToList, WalkOn, UnlockAdd, ReadId,
          WriteId, WrapId
    <2>3. QED
      BY <2>1, <2>2
  <1>3. ASSUME NEW t \in Execs, WalkFreed(t)
        PROVE  FALSE
    BY <1>3, LinkedDef DEF WalkFreed, Exclusive
  <1>4. ASSUME NEW r \in Readers, LockPop(r) \/ UnlockPop(r) \/ DereferenceNull(r)
        PROVE  UNCHANGED <<hooks_list, next, rec>> /\ Linked' = Linked
    <2>1. UNCHANGED <<hooks_list, next, rec, used, obj>>
          /\ \A t \in Execs : pc'[t] = pc[t]
      BY <1>4 DEF LockPop, Lock, UnlockPop, Unlock, DereferenceNull
    <2>2. QED
      BY <2>1, LinkedDef
  <1>5. ASSUME NEW r \in Readers, CopyOut(r)
        PROVE  /\ hooks_list' = hooks_list
               /\ Linked' = Linked
               /\ \A m \in Linked : next'[m] = next[m] /\ rec'[m] = rec[m]
    <2>1. /\ obj[r] # NULL /\ used' = used \ {obj[r]}
          /\ next' = [next EXCEPT ![obj[r]] = NULL]
          /\ rec' = [rec EXCEPT ![obj[r]] = NoRecord]
          /\ obj' = [obj EXCEPT ![r] = NULL]
          /\ pc' = [pc EXCEPT ![r] = "idle"]
          /\ hooks_list' = hooks_list
      BY <1>5 DEF CopyOut, Free
    <2>2. Linked' = Linked /\ obj[r] \notin Linked
      BY <2>1, LinkedDef
    <2>3. QED
      BY <1>0, <2>1, <2>2
  <1>6. CASE UNCHANGED vars
    BY <1>6 DEF vars, Linked, Owned
  <1>7. QED
    BY <1>1, <1>2, <1>3, <1>4, <1>5, <1>6 DEF Apart

LEMMA ApartKeepsChain ==
    ASSUME TypeOK, ListInv, phase = "live", Apart,
           NEW n \in Nat, NEW s, IsChain(n, s, hooks_list, next, Linked)
    PROVE  IsChain(n, s, hooks_list', next', Linked')
  BY ApartKeepsList DEF IsChain

LEMMA OrderedStep ==
    ASSUME TypeOK, TypeOK', ListInv, Ordered, [Next]_vars
    PROVE  Ordered'
  <1> SUFFICES ASSUME phase' = "live"
               PROVE  \E n \in 0 .. Cardinality(Nodes) : \E s \in [1 .. n -> Nodes] :
                        IsChain(n, s, hooks_list', next', Linked')
    BY DEF Ordered
  <1>0. phase = "live"
    BY DEF Next, NewExecve, KmallocFails, ExecStep, LockAdd, Lock, AddToEmpty,
           AddToList, WalkOn, WalkFreed, AddAtEnd, UnlockAdd, ReadId, WriteId,
           WrapId, LockPop, ReadStep, PopHook, UnlockPop, Unlock, CopyOut,
           DereferenceNull, Cleanup, StartCleanup, DrainRead, DrainUnlink,
           EndCleanup, vars
  <1>1. PICK n \in Nat : \E s : IsChain(n, s, hooks_list, next, Linked)
    BY <1>0, ListAssumption, FS_CardinalityType DEF Ordered
  <1>2. PICK s : IsChain(n, s, hooks_list, next, Linked)
    BY <1>1
  <1>3. \E m \in Nat : \E z : IsChain(m, z, hooks_list', next', Linked')
    <2>1. CASE \E t \in Execs : AddToEmpty(t) \/ AddAtEnd(t)
      <3>1. n + 1 \in Nat
        OBVIOUS
      <3>2. QED
        BY <1>0, <1>2, <2>1, <3>1, AddExtendsChain
    <2>2. CASE \E r \in Readers : PopHook(r)
      <3>1. n # 0 => n - 1 \in Nat
        OBVIOUS
      <3>2. QED
        BY <1>0, <1>2, <2>2, <3>1, PopShortensChain
    <2>3. CASE Apart
      BY <1>0, <1>2, <2>3, ApartKeepsChain
    <2>4. QED
      BY <1>0, <2>1, <2>2, <2>3, StepKinds DEF ListInv
  <1>4. PICK m \in Nat : \E z : IsChain(m, z, hooks_list', next', Linked')
    BY <1>3
  <1>5. PICK z : IsChain(m, z, hooks_list', next', Linked')
    BY <1>4
  <1>6. Linked' \subseteq Nodes
    BY LinkedDef DEF TypeOK
  <1>7. m \in 0 .. Cardinality(Nodes)
    BY <1>5, <1>6, ChainFits, FS_CardinalityType, ListAssumption
  <1>8. z \in [1 .. m -> Nodes]
    BY <1>5, <1>6 DEF IsChain
  <1>9. QED
    BY <1>5, <1>7, <1>8

LEMMA SignedStep ==
    ASSUME TypeOK, ListInv, Signed, [Next]_vars
    PROVE  Signed'
  <1> SUFFICES ASSUME phase' = "live", NEW t \in Execs, pc'[t] \in Adding
               PROVE  rec'[obj'[t]].pid = t
    BY DEF Signed
  <1>0. phase = "live"
    BY DEF Next, NewExecve, KmallocFails, ExecStep, LockAdd, Lock, AddToEmpty,
           AddToList, WalkOn, WalkFreed, AddAtEnd, UnlockAdd, ReadId, WriteId,
           WrapId, LockPop, ReadStep, PopHook, UnlockPop, Unlock, CopyOut,
           DereferenceNull, Cleanup, StartCleanup, DrainRead, DrainUnlink,
           EndCleanup, vars
  <1> USE <1>0, ListAssumption
      DEF TypeOK, ListInv, Hands, Exclusive, Signed, Adding, Threads, Goto, heap
  <1>1. ASSUME NEW u \in Execs, NewExecve(u)
        PROVE  rec'[obj'[t]].pid = t
    <2>1. PICK n \in Nodes \ used :
            /\ rec' = [rec EXCEPT ![n] = [pid |-> u, hook_id |-> hook_id]]
            /\ obj' = [obj EXCEPT ![u] = n]
            /\ pc' = [pc EXCEPT ![u] = "lock"]
      BY <1>1 DEF NewExecve
    <2>2. QED
      BY <2>1
  <1>2. ASSUME NEW u \in Execs, KmallocFails(u) \/ ExecStep(u)
        PROVE  rec'[obj'[t]].pid = t
    <2>1. rec' = rec /\ obj'[t] = obj[t] /\ pc[t] \in Adding
      BY <1>2
      DEF KmallocFails, ExecStep, LockAdd, Lock, AddToEmpty, AddToList, WalkOn,
          WalkFreed, AddAtEnd, UnlockAdd, ReadId, WriteId, WrapId
    <2>2. QED
      BY <2>1
  <1>3. ASSUME NEW r \in Readers, LockPop(r) \/ PopHook(r) \/ UnlockPop(r)
                                    \/ DereferenceNull(r)
        PROVE  rec'[obj'[t]].pid = t
    <2>1. rec' = rec /\ obj'[t] = obj[t] /\ pc[t] = pc'[t]
      BY <1>3 DEF LockPop, Lock, PopHook, UnlockPop, Unlock, DereferenceNull
    <2>2. QED
      BY <2>1
  <1>4. ASSUME NEW r \in Readers, CopyOut(r)
        PROVE  rec'[obj'[t]].pid = t
    <2>1. /\ obj[r] # NULL
          /\ rec' = [rec EXCEPT ![obj[r]] = NoRecord]
          /\ obj'[t] = obj[t] /\ pc'[t] = pc[t]
      BY <1>4 DEF CopyOut, Free
    <2>2. obj[t] # obj[r]
      BY <2>1
    <2>3. QED
      BY <2>1, <2>2
  <1>5. CASE Cleanup \/ UNCHANGED vars
    BY <1>5 DEF Cleanup, StartCleanup, DrainRead, DrainUnlink, EndCleanup, vars
  <1>6. QED
    BY <1>1, <1>2, <1>3, <1>4, <1>5 DEF Next, ReadStep

LEMMA ChainInvHolds ==
    ASSUME InitOnAlloc
    PROVE  Spec => [](TypeOK /\ ChainInv)
  <1>1. Init => Ordered /\ Filled /\ Signed
    <2> SUFFICES ASSUME Init PROVE Ordered /\ Filled /\ Signed
      OBVIOUS
    <2>1. Linked = {}
      BY DEF Init, Linked
    <2>2. IsChain(0, <<>>, hooks_list, next, Linked) /\ <<>> \in [1 .. 0 -> Nodes]
      BY <2>1 DEF Init, IsChain
    <2>3. 0 \in 0 .. Cardinality(Nodes)
      BY FS_CardinalityType, ListAssumption
    <2>4. Ordered
      BY <2>2, <2>3 DEF Ordered
    <2>5. Filled /\ Signed
      BY DEF Init, Filled, Signed, Adding, Threads
    <2>6. QED
      BY <2>4, <2>5
  <1>2. TypeOK /\ TypeOK' /\ ListInv /\ Ordered /\ Filled /\ Signed /\ [Next]_vars
          => (Ordered /\ Filled /\ Signed)'
    BY OrderedStep, FilledStep, SignedStep
  <1>3. QED
    BY ListInvHolds, <1>1, <1>2, PTL DEF Spec, ChainInv

LEMMA ChainOfNow ==
    ASSUME TypeOK, ChainInv, phase = "live"
    PROVE  /\ \E n \in 0 .. Cardinality(Nodes) : \E s :
                IsChain(n, s, hooks_list, next, Linked)
           /\ Cardinality(Nodes) \in Nat
           /\ Linked \subseteq Nodes /\ NULL \notin Linked
  BY LinkedDef, FS_CardinalityType, ListAssumption DEF ChainInv, Ordered, TypeOK

\* While the module is loaded, the list ends, is made of allocated objects, and
\* carries every walker of add_hook: no pop frees a node under its feet.
THEOREM ListIsSound ==
    ASSUME InitOnAlloc
    PROVE  Spec => []ListSound
  <1>1. TypeOK /\ ChainInv => ListSound
    <2> SUFFICES ASSUME TypeOK, ChainInv, phase = "live"
                 PROVE  /\ Link[Cardinality(Nodes)] = NULL
                        /\ ListNodes \subseteq used
                        /\ \A t \in Execs : pc[t] = "walk" => at[t] \in ListNodes
      BY DEF ListSound
    <2>1. PICK n \in 0 .. Cardinality(Nodes) : \E s :
            IsChain(n, s, hooks_list, next, Linked)
      BY ChainOfNow
    <2>2. PICK s : IsChain(n, s, hooks_list, next, Linked)
      BY <2>1
    <2>3. /\ Link[Cardinality(Nodes)] = NULL
          /\ NodesRead(Cardinality(Nodes), Link) = Linked
      BY <2>2, ReadAll, LinkIsReading, ChainOfNow
    <2>4. Linked \subseteq used
      BY DEF Linked
    <2>5. \A t \in Execs : pc[t] = "walk" => at[t] \in Linked
      BY DEF ChainInv, ListInv, Exclusive
    <2>6. QED
      BY <2>3, <2>4, <2>5 DEF ListNodes, NodesRead
  <1>2. QED
    BY ChainInvHolds, <1>1, PTL

\* While the module is loaded no record is lost: an object that was allocated is
\* in the list or in the hands of the thread that adds or copies it.
THEOREM RecordsAreKept ==
    ASSUME InitOnAlloc
    PROVE  Spec => []NoRecordLost
  <1>1. TypeOK /\ ChainInv => NoRecordLost
    <2> SUFFICES ASSUME TypeOK, ChainInv, phase = "live"
                 PROVE  used = ListNodes \cup (Owned \ {NULL})
      BY DEF NoRecordLost
    <2>1. PICK n \in 0 .. Cardinality(Nodes) : \E s :
            IsChain(n, s, hooks_list, next, Linked)
      BY ChainOfNow
    <2>2. PICK s : IsChain(n, s, hooks_list, next, Linked)
      BY <2>1
    <2>3. NodesRead(Cardinality(Nodes), Link) = Linked
      BY <2>2, ReadAll, LinkIsReading, ChainOfNow
    <2>4. Owned \ {NULL} \subseteq used
      BY DEF ChainInv, ListInv, Hands, Owned
    <2>5. ListNodes = Linked
      BY <2>3, Zenon DEF ListNodes, NodesRead
    <2>6. QED
      BY <2>4, <2>5, ListAssumption DEF Linked, TypeOK
  <1>2. QED
    BY ChainInvHolds, <1>1, PTL

-----------------------------------------------------------------------------
(* The list is the queue of HookFifo.                                        *)

RecordsOf(n, s, recs) == [i \in 1 .. n |-> recs[s[i]]]

LEMMA AsSequence ==
    ASSUME NEW S, NEW n \in Nat, NEW f \in [1 .. n -> S]
    PROVE  f \in Seq(S) /\ Len(f) = n
  <1>1. f \in Seq(S)
    BY SeqDef
  <1>2. Len(f) \in Nat /\ 1 .. Len(f) = 1 .. n
    BY <1>1, LenProperties
  <1>3. ASSUME NEW a \in Nat, NEW b \in Nat, 1 .. a = 1 .. b
        PROVE  ~(a < b)
    BY <1>3
  <1>4. ~(Len(f) < n) /\ ~(n < Len(f))
    BY <1>2, <1>3
  <1>5. QED
    BY <1>1, <1>2, <1>4

LEMMA AppendOne ==
    ASSUME NEW S, NEW n \in Nat, NEW f \in [1 .. n -> S], NEW x \in S
    PROVE  Append(f, x) = [i \in 1 .. n + 1 |-> IF i = n + 1 THEN x ELSE f[i]]
  <1> DEFINE g == [i \in 1 .. n + 1 |-> IF i = n + 1 THEN x ELSE f[i]]
  <1>1. f \in Seq(S) /\ Len(f) = n
    BY AsSequence
  <1>2. g \in Seq(S) /\ Len(g) = n + 1
    <2>1. g \in [1 .. n + 1 -> S] /\ n + 1 \in Nat
      OBVIOUS
    <2> HIDE DEF g
    <2>2. QED
      BY <2>1, AsSequence
  <1>3. /\ Append(f, x) \in Seq(S) /\ Len(Append(f, x)) = n + 1
        /\ \A i \in 1 .. n : Append(f, x)[i] = f[i]
        /\ Append(f, x)[n + 1] = x
    BY <1>1, AppendProperties
  <1>4. \A i \in 1 .. n + 1 : Append(f, x)[i] = g[i]
    BY <1>3
  <1>5. QED
    <2> HIDE DEF g
    <2>1. Append(f, x) = g
      BY <1>2, <1>3, <1>4, SeqEqual
    <2>2. QED
      BY <2>1 DEF g

LEMMA TakeOne ==
    ASSUME NEW S, NEW n \in Nat \ {0}, NEW f \in [1 .. n -> S]
    PROVE  /\ f # <<>>
           /\ Head(f) = f[1]
           /\ Tail(f) = [i \in 1 .. n - 1 |-> f[i + 1]]
  <1> DEFINE g == [i \in 1 .. n - 1 |-> f[i + 1]]
  <1>1. f \in Seq(S) /\ Len(f) = n
    BY AsSequence
  <1>2. f # <<>> /\ Head(f) = f[1]
    BY <1>1
  <1>3. g \in Seq(S) /\ Len(g) = n - 1
    <2>1. g \in [1 .. n - 1 -> S] /\ n - 1 \in Nat
      OBVIOUS
    <2> HIDE DEF g
    <2>2. QED
      BY <2>1, AsSequence
  <1>4. /\ Tail(f) \in Seq(S) /\ Len(Tail(f)) = n - 1
        /\ \A i \in 1 .. n - 1 : Tail(f)[i] = f[i + 1]
    BY <1>1, <1>2, HeadTailProperties
  <1>5. \A i \in 1 .. n - 1 : Tail(f)[i] = g[i]
    BY <1>4
  <1>6. QED
    <2> HIDE DEF g
    <2>1. Tail(f) = g
      BY <1>3, <1>4, <1>5, SeqEqual
    <2>2. QED
      BY <1>2, <2>1 DEF g

LEMMA TakeRecord ==
    ASSUME NEW n \in Nat \ {0}, NEW s, NEW recs,
           RecordsOf(n, s, recs) \in [1 .. n -> Records]
    PROVE  /\ RecordsOf(n, s, recs) # <<>>
           /\ Head(RecordsOf(n, s, recs)) = recs[s[1]]
           /\ Tail(RecordsOf(n, s, recs))
                = RecordsOf(n - 1, Shortened(n, s), recs)
  <1>1. PICK f \in [1 .. n -> Records] : f = RecordsOf(n, s, recs)
    OBVIOUS
  <1>2. \A i \in 1 .. n : f[i] = recs[s[i]]
    BY <1>1 DEF RecordsOf
  <1>3. f # <<>> /\ Head(f) = f[1] /\ Tail(f) = [i \in 1 .. n - 1 |-> f[i + 1]]
    BY TakeOne
  <1>4. \A i \in 1 .. n - 1 : f[i + 1] = recs[s[i + 1]]
    BY <1>2
  <1>5. Tail(f) = [i \in 1 .. n - 1 |-> recs[s[i + 1]]]
    BY <1>3, <1>4
  <1>6. RecordsOf(n - 1, Shortened(n, s), recs)
          = [i \in 1 .. n - 1 |-> recs[s[i + 1]]]
    BY DEF RecordsOf, Shortened
  <1>7. Head(f) = recs[s[1]]
    BY <1>2, <1>3
  <1>8. QED
    BY <1>1, <1>3, <1>5, <1>6, <1>7

\* ListRecords reads the records of the chain, now and after a step.
LEMMA RecordsNow ==
    ASSUME NEW n \in 0 .. Cardinality(Nodes), NEW s, Cardinality(Nodes) \in Nat,
           NULL \notin Linked, IsChain(n, s, hooks_list, next, Linked)
    PROVE  ListRecords = RecordsOf(n, s, rec)
  <1>1. /\ LengthRead(Cardinality(Nodes), Link) = n
        /\ \A i \in 1 .. n : Link[i - 1] = s[i]
    BY ReadAll, LinkIsReading
  <1>2. ListRecords = [i \in 1 .. LengthRead(Cardinality(Nodes), Link)
                         |-> rec[Link[i - 1]]]
    BY Zenon DEF ListRecords, LengthRead
  <1>3. QED
    BY <1>1, <1>2 DEF RecordsOf

LEMMA RecordsNext ==
    ASSUME NEW n \in 0 .. Cardinality(Nodes), NEW s, Cardinality(Nodes) \in Nat,
           NULL \notin Linked', IsChain(n, s, hooks_list', next', Linked')
    PROVE  ListRecords' = RecordsOf(n, s, rec')
  <1>1. /\ LengthRead(Cardinality(Nodes), Link') = n
        /\ \A i \in 1 .. n : Link'[i - 1] = s[i]
    BY ReadAll, LinkIsReading
  <1>2. ListRecords' = [i \in 1 .. LengthRead(Cardinality(Nodes), Link')
                         |-> rec'[Link'[i - 1]]]
    BY Zenon DEF ListRecords, LengthRead
  <1>3. QED
    BY <1>1, <1>2 DEF RecordsOf

\* The record each GET_HOOK under way has been handed.
Given ==
    [r \in Readers |-> IF pc[r] \in {"unlock", "copy"} /\ obj[r] # NULL
                       THEN rec[obj[r]] ELSE NoRecord]

Queue == IF phase = "live" THEN ListRecords ELSE <<>>

\* Steps of one kind of thread leave the GET_HOOKs of the readers as they are.
LEMMA GivenKept ==
    ASSUME TypeOK, ListInv, phase = "live",
           \/ \E t \in Execs : NewExecve(t) \/ KmallocFails(t) \/ ExecStep(t)
           \/ \E r \in Readers : LockPop(r) \/ UnlockPop(r) \/ DereferenceNull(r)
           \/ UNCHANGED vars
    PROVE  Given' = Given
  <1> USE ListAssumption DEF TypeOK, ListInv, Hands, Threads, Goto, heap
  <1>1. ASSUME NEW t \in Execs, NewExecve(t)
        PROVE  Given' = Given
    <2>1. PICK n \in Nodes \ used :
            /\ rec' = [rec EXCEPT ![n] = [pid |-> t, hook_id |-> hook_id]]
            /\ obj' = [obj EXCEPT ![t] = n]
            /\ pc' = [pc EXCEPT ![t] = "lock"]
      BY <1>1 DEF NewExecve
    <2>2. \A r \in Readers : /\ pc'[r] = pc[r] /\ obj'[r] = obj[r]
                             /\ obj[r] # NULL => rec'[obj[r]] = rec[obj[r]]
      BY <2>1
    <2>3. QED
      BY <2>2 DEF Given
  <1>2. ASSUME NEW t \in Execs, KmallocFails(t) \/ ExecStep(t)
        PROVE  Given' = Given
    <2>1. rec' = rec /\ \A r \in Readers : pc'[r] = pc[r] /\ obj'[r] = obj[r]
      BY <1>2
      DEF KmallocFails, ExecStep, LockAdd, Lock, AddToEmpty, AddToList, WalkOn,
          WalkFreed, AddAtEnd, UnlockAdd, ReadId, WriteId, WrapId
    <2>2. QED
      BY <2>1 DEF Given
  <1>3. ASSUME NEW r \in Readers, LockPop(r) \/ UnlockPop(r) \/ DereferenceNull(r)
        PROVE  Given' = Given
    <2>1. rec' = rec /\ obj' = obj
      BY <1>3 DEF LockPop, Lock, UnlockPop, Unlock, DereferenceNull
    <2>2. \A q \in Readers :
            (pc'[q] \in {"unlock", "copy"} /\ obj[q] # NULL)
              <=> (pc[q] \in {"unlock", "copy"} /\ obj[q] # NULL)
      BY <1>3 DEF LockPop, Lock, UnlockPop, Unlock, DereferenceNull
    <2>3. QED
      BY <2>1, <2>2 DEF Given
  <1>4. CASE UNCHANGED vars
    BY <1>4 DEF vars, Given
  <1>5. QED
    BY <1>1, <1>2, <1>3, <1>4

\* What the steps of HookFifo say of the queue and of what is given.
LEMMA QueueSteps ==
    /\ \A x : /\ phase = "live" /\ phase' = "live"
              /\ Queue' = Append(Queue, x) /\ Given' = Given
              => Fifo!Put(x)
    /\ \A r : /\ phase = "live" /\ phase' = "live"
              /\ Queue # <<>> /\ Queue' = Tail(Queue)
              /\ Given' = [Given EXCEPT ![r] = Head(Queue)]
              => Fifo!Take(r)
    /\ \A r : /\ phase = "live" /\ phase' = "live"
              /\ Queue' = Queue /\ Given' = [Given EXCEPT ![r] = NoRecord]
              => Fifo!Return(r)
    /\ phase = "live" /\ phase' # "live" /\ Given' = Given => Fifo!Discard
    /\ (phase' = "live" <=> phase = "live") /\ Queue' = Queue /\ Given' = Given
         => UNCHANGED Fifo!fifoVars
  <1>1. \A x : /\ phase = "live" /\ phase' = "live"
               /\ Queue' = Append(Queue, x) /\ Given' = Given
               => Fifo!Put(x)
    BY DEF Fifo!Put, Queue, Given
  <1>2. \A r : /\ phase = "live" /\ phase' = "live"
               /\ Queue # <<>> /\ Queue' = Tail(Queue)
               /\ Given' = [Given EXCEPT ![r] = Head(Queue)]
               => Fifo!Take(r)
    BY DEF Fifo!Take, Queue, Given
  <1>3. \A r : /\ phase = "live" /\ phase' = "live"
               /\ Queue' = Queue /\ Given' = [Given EXCEPT ![r] = NoRecord]
               => Fifo!Return(r)
    BY DEF Fifo!Return, Queue, Given
  <1>4. phase = "live" /\ phase' # "live" /\ Given' = Given => Fifo!Discard
    BY DEF Fifo!Discard, Given
  <1>5. (phase' = "live" <=> phase = "live") /\ Queue' = Queue /\ Given' = Given
          => UNCHANGED Fifo!fifoVars
    BY DEF Fifo!fifoVars, Queue, Given
  <1>6. QED
    BY <1>1, <1>2, <1>3, <1>4, <1>5

\* A step that leaves the list alone keeps its records; one that copies a record
\* out is the end of a GET_HOOK.
LEMMA ApartMaps ==
    ASSUME TypeOK, ListInv, phase = "live", phase' = "live", Apart,
           ListRecords' = ListRecords
    PROVE  [Fifo!FifoNext]_(Fifo!fifoVars)
  <1>1. Queue' = Queue
    BY DEF Queue
  <1>2. ASSUME NEW r \in Readers, CopyOut(r)
        PROVE  Fifo!Return(r)
    <2> USE ListAssumption DEF TypeOK, ListInv, Hands, Exclusive, Threads
    <2>1. /\ pc[r] = "copy" /\ obj[r] # NULL
          /\ rec' = [rec EXCEPT ![obj[r]] = NoRecord]
          /\ obj' = [obj EXCEPT ![r] = NULL]
          /\ pc' = [pc EXCEPT ![r] = "idle"]
      BY <1>2 DEF CopyOut, Free, Goto
    <2>2. \A q \in Readers \ {r} : obj[q] # NULL => rec'[obj[q]] = rec[obj[q]]
      BY <2>1
    <2>3. Given' = [Given EXCEPT ![r] = NoRecord]
      BY <2>1, <2>2 DEF Given
    <2>4. QED
      BY <1>1, <2>3, QueueSteps
  <1>3. CASE \E r \in Readers : CopyOut(r)
    BY <1>2, <1>3 DEF Fifo!FifoNext
  <1>4. CASE ~\E r \in Readers : CopyOut(r)
    <2>1. Given' = Given
      BY <1>4, GivenKept DEF Apart, ExecStep
    <2>2. QED
      BY <1>1, <2>1, QueueSteps
  <1>5. QED
    BY <1>3, <1>4

LEMMA FifoStep ==
    ASSUME TypeOK, TypeOK', ChainInv, ChainInv', [Next]_vars
    PROVE  [Fifo!FifoNext]_(Fifo!fifoVars)
  <1>1. CASE phase # "live"
    <2>1. phase' # "live"
      BY <1>1
      DEF Next, NewExecve, KmallocFails, ExecStep, LockAdd, Lock, AddToEmpty,
          AddToList, WalkOn, WalkFreed, AddAtEnd, UnlockAdd, ReadId, WriteId,
          WrapId, LockPop, ReadStep, PopHook, UnlockPop, Unlock, CopyOut,
          DereferenceNull, Cleanup, StartCleanup, DrainRead, DrainUnlink,
          EndCleanup, vars
    <2>2. Given' = Given
      BY <1>1, <2>1 DEF ChainInv, Filled, Given
    <2>3. QED
      BY <1>1, <2>1, <2>2, QueueSteps DEF Queue
  <1>2. CASE phase = "live" /\ phase' # "live"
    <2>1. StartCleanup
      BY <1>2
      DEF Next, NewExecve, KmallocFails, ExecStep, LockAdd, Lock, AddToEmpty,
          AddToList, WalkOn, WalkFreed, AddAtEnd, UnlockAdd, ReadId, WriteId,
          WrapId, LockPop, ReadStep, PopHook, UnlockPop, Unlock, CopyOut,
          DereferenceNull, Cleanup, DrainRead, DrainUnlink, EndCleanup, vars
    <2>2. Given' = Given
      BY <2>1 DEF StartCleanup, Given, heap
    <2>3. QED
      BY <1>2, <2>2, QueueSteps DEF Fifo!FifoNext
  <1>3. CASE phase = "live" /\ phase' = "live"
    <2> USE <1>3
    <2>1. PICK n \in 0 .. Cardinality(Nodes) : \E s :
            IsChain(n, s, hooks_list, next, Linked)
      BY ChainOfNow
    <2>2. PICK s : IsChain(n, s, hooks_list, next, Linked)
      BY <2>1
    <2>3. ListRecords = RecordsOf(n, s, rec) /\ Cardinality(Nodes) \in Nat
      BY <2>2, ChainOfNow, RecordsNow
    <2>4. ASSUME NEW m \in Nat, NEW z,
                 IsChain(m, z, hooks_list', next', Linked')
          PROVE  ListRecords' = RecordsOf(m, z, rec')
      <3>1. Linked' \subseteq Nodes /\ NULL \notin Linked'
        BY LinkedDef, ListAssumption DEF TypeOK
      <3>2. m \in 0 .. Cardinality(Nodes)
        BY <2>3, <2>4, <3>1, ChainFits
      <3>3. QED
        BY <2>3, <2>4, <3>1, <3>2, RecordsNext
    <2>5. RecordsOf(n, s, rec) \in [1 .. n -> Records] /\ n \in Nat
      <3>1. \A i \in 1 .. n : rec[s[i]] \in Records
        BY <2>2, LinkedDef DEF IsChain, ChainInv, Filled
      <3>2. QED
        BY <2>3, <3>1 DEF RecordsOf
    <2>6. ASSUME NEW t \in Execs, AddToEmpty(t) \/ AddAtEnd(t)
          PROVE  [Fifo!FifoNext]_(Fifo!fifoVars)
      <3> DEFINE s2 == Extended(n, s, obj[t])
      <3>1. obj[t] \in used /\ IsChain(n + 1, s2, hooks_list', next', Linked')
        BY <2>2, <2>5, <2>6, AddExtendsChain DEF ChainInv
      <3>2. rec[obj[t]] \in Records /\ rec' = rec
        BY <2>6, <3>1 DEF ChainInv, Filled, AddToEmpty, AddAtEnd
      <3>3. ListRecords' = RecordsOf(n + 1, s2, rec)
        <4>1. n + 1 \in Nat
          BY <2>5
        <4>2. \E z : z = s2 /\ IsChain(n + 1, z, hooks_list', next', Linked')
          BY <3>1
        <4>3. PICK z : z = s2 /\ IsChain(n + 1, z, hooks_list', next', Linked')
          BY <4>2
        <4>4. ListRecords' = RecordsOf(n + 1, z, rec')
          BY <2>4, <4>1, <4>3
        <4>5. QED
          BY <3>2, <4>3, <4>4
      <3>4. RecordsOf(n + 1, s2, rec) = Append(RecordsOf(n, s, rec), rec[obj[t]])
        <4>1. Append(RecordsOf(n, s, rec), rec[obj[t]])
                = [i \in 1 .. n + 1 |-> IF i = n + 1 THEN rec[obj[t]]
                                        ELSE RecordsOf(n, s, rec)[i]]
          BY <2>5, <3>2, AppendOne
        <4>2. \A i \in 1 .. n : RecordsOf(n, s, rec)[i] = rec[s[i]]
          BY DEF RecordsOf
        <4>3. \A i \in 1 .. n + 1 :
                rec[s2[i]] = IF i = n + 1 THEN rec[obj[t]]
                             ELSE RecordsOf(n, s, rec)[i]
          BY <2>5, <4>2 DEF Extended
        <4>4. QED
          BY <4>1, <4>3 DEF RecordsOf
      <3>5. Given' = Given
        BY <2>6, GivenKept DEF ExecStep, ChainInv
      <3>6. Queue' = Append(Queue, rec[obj[t]])
        BY <2>3, <3>3, <3>4 DEF Queue
      <3>7. Fifo!Put(rec[obj[t]])
        BY <3>5, <3>6, QueueSteps
      <3>8. QED
        BY <3>2, <3>7 DEF Fifo!FifoNext
    <2>7. ASSUME NEW r \in Readers, PopHook(r)
          PROVE  [Fifo!FifoNext]_(Fifo!fifoVars)
      <3>1. /\ rec' = rec /\ pc[r] = "pop"
            /\ obj' = [obj EXCEPT ![r] = hooks_list]
            /\ pc' = [pc EXCEPT ![r] = "unlock"]
        BY <2>7 DEF PopHook, Goto
      <3>2. Given' = [Given EXCEPT ![r] = IF hooks_list = NULL THEN NoRecord
                                          ELSE rec[hooks_list]]
        BY <3>1 DEF Given, TypeOK, Threads
      <3>3. CASE n = 0
        <4>1. hooks_list = NULL /\ IsChain(0, s, hooks_list', next', Linked')
          BY <2>2, <2>5, <2>7, <3>3, PopShortensChain DEF ChainInv
        <4>2. ListRecords' = ListRecords
          BY <2>3, <2>4, <3>1, <3>3, <4>1
        <4>3. Given' = Given
          <5>1. Given[r] = NoRecord
            BY <3>1 DEF Given
          <5>2. QED
            BY <3>2, <4>1, <5>1 DEF Given
        <4>4. QED
          BY <4>2, <4>3, QueueSteps DEF Queue
      <3>4. CASE n # 0
        <4> DEFINE s2 == Shortened(n, s)
        <4>1. hooks_list = s[1] /\ IsChain(n - 1, s2, hooks_list', next', Linked')
          BY <2>2, <2>5, <2>7, <3>4, PopShortensChain DEF ChainInv
        <4>2. ListRecords' = RecordsOf(n - 1, s2, rec)
          <5>1. n - 1 \in Nat
            BY <2>5, <3>4
          <5>2. QED
            BY <2>4, <3>1, <4>1, <5>1
        <4>3. /\ RecordsOf(n, s, rec) # <<>>
              /\ Head(RecordsOf(n, s, rec)) = rec[s[1]]
              /\ Tail(RecordsOf(n, s, rec)) = RecordsOf(n - 1, s2, rec)
          <5>1. n \in Nat \ {0}
            BY <2>5, <3>4
          <5>2. RecordsOf(n, s, rec) \in [1 .. n -> Records]
            BY <2>5
          <5>3. QED
            BY <5>1, <5>2, TakeRecord, Zenon
        <4>4. hooks_list # NULL
          BY <2>2, <2>5, <3>4, <4>1, ChainOfNow DEF IsChain
        <4>5. Fifo!Take(r)
          BY <2>3, <3>2, <4>1, <4>2, <4>3, <4>4, QueueSteps DEF Queue
        <4>6. QED
          BY <4>5 DEF Fifo!FifoNext
      <3>5. QED
        BY <3>3, <3>4
    <2>8. CASE Apart
      <3>1. /\ IsChain(n, s, hooks_list', next', Linked')
            /\ \A m \in Linked : rec'[m] = rec[m]
        BY <2>2, <2>5, <2>8, ApartKeepsChain, ApartKeepsList DEF ChainInv
      <3>2. ListRecords' = RecordsOf(n, s, rec')
        BY <2>4, <2>5, <3>1
      <3>3. RecordsOf(n, s, rec') = RecordsOf(n, s, rec)
        BY <2>2, <3>1 DEF RecordsOf, IsChain
      <3>4. QED
        BY <2>3, <2>8, <3>2, <3>3, ApartMaps DEF ChainInv
    <2>9. QED
      BY <2>6, <2>7, <2>8, StepKinds DEF ChainInv, ListInv
  <1>4. QED
    BY <1>1, <1>2, <1>3

\* Where the kernel zeroes what kmalloc returns, the list implements the queue of
\* HookFifo: a record goes in once, comes out in its turn, to one caller, and
\* unloading discards the rest.
THEOREM ListIsFifo ==
    ASSUME InitOnAlloc
    PROVE  Spec => ImplementsFifo
  <1>1. Init => Fifo!FifoInit
    <2> SUFFICES ASSUME Init PROVE Fifo!FifoInit
      OBVIOUS
    <2>1. Linked = {}
      BY DEF Init, Linked
    <2>2. IsChain(0, <<>>, hooks_list, next, Linked)
      BY <2>1 DEF Init, IsChain
    <2>3. Cardinality(Nodes) \in Nat /\ 0 \in 0 .. Cardinality(Nodes)
      BY FS_CardinalityType, ListAssumption
    <2>4. ListRecords = RecordsOf(0, <<>>, rec)
      BY <2>1, <2>2, <2>3, RecordsNow
    <2>5. ListRecords = <<>>
      <3>1. ListRecords \in [1 .. 0 -> Records]
        BY <2>4 DEF RecordsOf
      <3>2. QED
        BY <3>1, AsSequence, EmptySeq
    <2>6. QED
      BY <2>5 DEF Init, Threads, Fifo!FifoInit
  <1>2. /\ TypeOK /\ ChainInv /\ TypeOK' /\ ChainInv' /\ [Next]_vars
        => [Fifo!FifoNext]_(Fifo!fifoVars)
    BY FifoStep
  <1>3. QED
    BY ChainInvHolds, <1>1, <1>2, PTL DEF Spec, ImplementsFifo, Fifo!FifoSpec
-----------------------------------------------------------------------------
(* Unloading: cleanup_spybot drains the list while threads still add to it.  *)

\* Where the draining begins, the list is all there is but for what the threads
\* inside new_execve have in hand.
LEMMA DrainingBegins ==
    ASSUME TypeOK, ChainInv, StartCleanup
    PROVE  Draining'
  <1> USE ListAssumption DEF TypeOK, ListInv, Hands, Exclusive, Threads, heap
  <1>1. /\ phase = "live" /\ \A r \in Readers : pc[r] = "idle"
        /\ UNCHANGED <<hooks_list, next, rec, used, pc, obj, at, popped>>
    BY DEF StartCleanup
  <1>2. popped = NULL /\ \A r \in Readers : obj[r] = NULL
    BY <1>1 DEF ChainInv
  <1>3. \A m \in used \ Linked : \E t \in Execs :
            pc[t] \in Adding /\ obj[t] = m /\ rec[m].pid = t
    BY <1>1, <1>2, LinkedDef DEF ChainInv, Signed, Adding
  <1>4. \A m, n \in used \ Linked : rec[m].pid = rec[n].pid => m = n
    BY <1>3
  <1>5. \A t \in Execs : pc[t] \in Adding =>
          obj[t] \in used \ Linked /\ next[obj[t]] = NULL /\ rec[obj[t]].pid = t
    BY <1>1, LinkedDef DEF ChainInv, Signed, Adding
  <1>6. \A t \in Execs : pc[t] = "walk" /\ at[t] \in used => at[t] \in Linked
    BY <1>1 DEF ChainInv
  <1>7. \E n \in 0 .. Cardinality(Nodes) : \E s \in [1 .. n -> Nodes] :
          IsChain(n, s, hooks_list, next, Linked)
    BY <1>1 DEF ChainInv, Ordered
  <1>8. PICK K \in SUBSET used : K = Linked
    BY LinkedDef
  <1>9. Drained(K)
    BY <1>4, <1>5, <1>6, <1>7, <1>8 DEF Drained
  <1>10. Drained(K)'
    BY <1>1, <1>9 DEF Drained
  <1>11. QED
    BY <1>1, <1>2, <1>8, <1>10 DEF Draining

\* The steps a thread inside new_execve takes that write no record or link.
Quiet(t) ==
    LockAdd(t) \/ AddToList(t) \/ WalkOn(t) \/ WalkFreed(t) \/ UnlockAdd(t)
      \/ ReadId(t) \/ WriteId(t) \/ WrapId(t)

LEMMA QuietDrains ==
    ASSUME TypeOK, NEW K \in SUBSET used, Drained(K), NEW t \in Execs, Quiet(t)
    PROVE  Drained(K)'
  <1> USE ListAssumption DEF TypeOK, Adding, Threads, heap, Goto
  <1>1. UNCHANGED <<hooks_list, next, rec, used>>
    BY DEF Quiet, LockAdd, Lock, AddToList, WalkOn, WalkFreed, UnlockAdd, ReadId,
           WriteId, WrapId
  <1>2. \A u \in Execs : pc'[u] \in Adding => pc[u] \in Adding /\ obj'[u] = obj[u]
    BY DEF Quiet, LockAdd, Lock, AddToList, WalkOn, WalkFreed, UnlockAdd, ReadId,
           WriteId, WrapId
  <1>3. PICK n, s : n \in Nat /\ IsChain(n, s, hooks_list, next, K)
    BY FS_CardinalityType DEF Drained
  <1>4. hooks_list \in K \cup {NULL} /\ \A m \in K : next[m] \in K \cup {NULL}
    <2>1. hooks_list \in K \cup {NULL}
      BY <1>3 DEF IsChain
    <2>2. ASSUME NEW m \in K
          PROVE  next[m] \in K \cup {NULL}
      <3>1. PICK i \in 1 .. n : s[i] = m
        BY <1>3 DEF IsChain
      <3>2. i # n => i + 1 \in 1 .. n
        BY <1>3
      <3>3. QED
        BY <1>3, <3>1, <3>2 DEF IsChain
    <2>3. QED
      BY <2>1, <2>2
  <1>5. ASSUME NEW u \in Execs, pc'[u] = "walk", at'[u] \in used
        PROVE  at'[u] \in K
    <2>1. CASE u = t /\ AddToList(t)
      BY <1>4, <1>5, <2>1 DEF AddToList
    <2>2. CASE u = t /\ WalkOn(t)
      BY <1>4, <1>5, <2>2 DEF WalkOn, Drained
    <2>3. CASE ~(u = t /\ (AddToList(t) \/ WalkOn(t)))
      <3>1. pc[u] = "walk" /\ at'[u] = at[u]
        BY <1>5, <2>3
        DEF Quiet, LockAdd, Lock, AddToList, WalkOn, WalkFreed, UnlockAdd, ReadId,
            WriteId, WrapId
      <3>2. QED
        BY <1>5, <3>1 DEF Drained
    <2>4. QED
      BY <2>1, <2>2, <2>3
  <1>6. QED
    BY <1>1, <1>2, <1>5 DEF Drained

\* A thread that adds its object while the list is drained adds it to the chain.
LEMMA AddDrains ==
    ASSUME TypeOK, NEW K \in SUBSET used, Drained(K), NEW t \in Execs,
           AddToEmpty(t) \/ AddAtEnd(t)
    PROVE  \E K2 \in SUBSET used' : Drained(K2)'
  <1> USE ListAssumption DEF TypeOK, Adding, Threads, heap, Goto
  <1>1. /\ obj[t] \in used \ K /\ next[obj[t]] = NULL /\ rec[obj[t]].pid = t
        /\ UNCHANGED <<rec, used, obj>> /\ pc' = [pc EXCEPT ![t] = "unlock"]
    BY DEF Drained, AddToEmpty, AddAtEnd
  <1>2. PICK n, s : n \in Nat /\ IsChain(n, s, hooks_list, next, K)
    BY FS_CardinalityType DEF Drained
  <1>3. K \subseteq Nodes /\ NULL \notin K
    OBVIOUS
  <1>4. /\ hooks_list' = IF n = 0 THEN obj[t] ELSE hooks_list
        /\ \A m \in K : next'[m] = IF m = s[n] THEN obj[t] ELSE next[m]
        /\ \A m \in used \ K : next'[m] = next[m]
        /\ \A u \in Execs \ {t} : at'[u] = at[u]
    <2>1. CASE AddToEmpty(t)
      <3>1. n = 0 /\ K = {}
        BY <1>2, <1>3, <2>1 DEF AddToEmpty, IsChain
      <3>2. QED
        BY <2>1, <3>1 DEF AddToEmpty
    <2>2. CASE AddAtEnd(t)
      <3>1. /\ at[t] \in K /\ next[at[t]] = NULL
            /\ hooks_list' = hooks_list /\ at' = [at EXCEPT ![t] = NULL]
            /\ next' = [next EXCEPT ![at[t]] = obj[t]]
        BY <2>2 DEF AddAtEnd, Drained
      <3>2. n # 0 /\ at[t] = s[n]
        BY <1>2, <1>3, <3>1, ChainEnd
      <3>3. QED
        BY <1>3, <3>1, <3>2
    <2>3. QED
      BY <2>1, <2>2
  <1>5. IsChain(n + 1, Extended(n, s, obj[t]), hooks_list', next', K \cup {obj[t]})
    <2>1. obj[t] \notin K /\ next'[obj[t]] = NULL
      BY <1>1, <1>4
    <2>2. QED
      BY ONLY <1>2, <1>4, <2>1, n \in Nat, ChainAppend
  <1>6. PICK K2 \in SUBSET used' : K2 = K \cup {obj[t]}
    BY <1>1
  <1>7. \E m \in 0 .. Cardinality(Nodes) : \E z \in [1 .. m -> Nodes] :
          IsChain(m, z, hooks_list', next', K2)
    <2>1. PICK m, z : m \in Nat /\ IsChain(m, z, hooks_list', next', K2)
      <3>1. n + 1 \in Nat
        BY <1>2
      <3>2. QED
        BY ONLY <1>5, <1>6, <3>1
    <2>2. K2 \subseteq Nodes
      BY <1>1, <1>6
    <2>3. m =< Cardinality(Nodes) /\ Cardinality(Nodes) \in Nat
      BY <2>1, <2>2, ChainFits, FS_CardinalityType
    <2>4. z \in [1 .. m -> Nodes]
      BY <2>1, <2>2 DEF IsChain
    <2>5. QED
      BY <2>1, <2>3, <2>4
  <1>8. \A u \in Execs : pc'[u] \in Adding =>
          /\ u # t /\ pc[u] \in Adding
          /\ obj'[u] \in used' \ K2 /\ next'[obj'[u]] = NULL
          /\ rec'[obj'[u]].pid = u
    BY <1>1, <1>4, <1>6 DEF Drained
  <1>9. \A u \in Execs : pc'[u] = "walk" /\ at'[u] \in used' => at'[u] \in K2
    BY <1>1, <1>4, <1>6, <1>8 DEF Drained
  <1>10. \A m, k \in used' \ K2 : rec'[m].pid = rec'[k].pid => m = k
    BY <1>1, <1>6 DEF Drained
  <1>11. Drained(K2)'
    BY <1>7, <1>8, <1>9, <1>10 DEF Drained
  <1>12. QED
    BY <1>11

\* cleanup_spybot frees the first object of the chain, whoever adds meanwhile.
LEMMA UnlinkDrains ==
    ASSUME TypeOK, NEW K \in SUBSET used, Drained(K), popped \in {NULL, hooks_list},
           DrainUnlink
    PROVE  \E K2 \in SUBSET used' : Drained(K2)'
  <1> USE ListAssumption DEF TypeOK, Adding, Threads, heap
  <1>1. /\ hooks_list # NULL /\ hooks_list' = next[hooks_list]
        /\ used' = used \ {hooks_list}
        /\ rec' = [rec EXCEPT ![hooks_list] = NoRecord]
        /\ next' = [next EXCEPT ![hooks_list] = NULL]
        /\ UNCHANGED <<pc, obj, at>>
    BY DEF DrainUnlink, Free
  <1>2. PICK n, s : n \in Nat /\ IsChain(n, s, hooks_list, next, K)
    BY FS_CardinalityType DEF Drained
  <1>3. n \in Nat \ {0}
    BY <1>1, <1>2 DEF IsChain
  <1>4. \A m \in K \ {hooks_list} : next'[m] = next[m]
    BY <1>1
  <1>5. /\ hooks_list \in K
        /\ IsChain(n - 1, Shortened(n, s), hooks_list', next', K \ {hooks_list})
    <2>1. /\ hooks_list \in K
          /\ IsChain(n - 1, Shortened(n, s), next[hooks_list], next', K \ {hooks_list})
      BY ONLY <1>2, <1>3, <1>4, ChainTail
    <2>2. QED
      BY <1>1, <2>1
  <1>6. PICK K2 \in SUBSET used' : K2 = K \ {hooks_list}
    BY <1>1
  <1>7. \E m \in 0 .. Cardinality(Nodes) : \E z \in [1 .. m -> Nodes] :
          IsChain(m, z, hooks_list', next', K2)
    <2>1. PICK m, z : m \in Nat /\ IsChain(m, z, hooks_list', next', K2)
      BY <1>3, <1>5, <1>6
    <2>2. K2 \subseteq Nodes
      BY <1>6
    <2>3. m =< Cardinality(Nodes) /\ Cardinality(Nodes) \in Nat
      BY <2>1, <2>2, ChainFits, FS_CardinalityType
    <2>4. z \in [1 .. m -> Nodes]
      BY <2>1, <2>2 DEF IsChain
    <2>5. QED
      BY <2>1, <2>3, <2>4
  <1>8. used' \ K2 = used \ K /\ \A m \in used \ K : next'[m] = next[m] /\ rec'[m] = rec[m]
    BY <1>1, <1>5, <1>6
  <1>9. \A u \in Execs :
          /\ pc'[u] \in Adding =>
                 obj'[u] \in used' \ K2 /\ next'[obj'[u]] = NULL /\ rec'[obj'[u]].pid = u
          /\ pc'[u] = "walk" /\ at'[u] \in used' => at'[u] \in K2
    BY <1>1, <1>6, <1>8 DEF Drained
  <1>10. Drained(K2)'
    BY <1>7, <1>8, <1>9 DEF Drained
  <1>11. QED
    BY <1>10

LEMMA UnloadStep ==
    ASSUME TypeOK, ChainInv, UnloadInv, [Next]_vars
    PROVE  UnloadInv'
  <1>1. CASE phase = "live"
    <2>1. CASE StartCleanup
      <3>1. phase' = "draining"
        BY <2>1 DEF StartCleanup
      <3>2. QED
        BY <2>1, <3>1, DrainingBegins DEF UnloadInv, Gone, OneLeftEach
    <2>2. CASE ~StartCleanup
      <3>1. phase' = "live"
        BY <1>1, <2>2
        DEF Next, NewExecve, KmallocFails, ExecStep, LockAdd, Lock, AddToEmpty,
            AddToList, WalkOn, WalkFreed, AddAtEnd, UnlockAdd, ReadId, WriteId,
            WrapId, LockPop, ReadStep, PopHook, UnlockPop, Unlock, CopyOut,
            DereferenceNull, Cleanup, DrainRead, DrainUnlink, EndCleanup, vars,
            ChainInv, ListInv, Hands
      <3>2. QED
        BY <3>1 DEF UnloadInv, Draining, Gone, OneLeftEach
    <2>3. QED
      BY <2>1, <2>2
  <1>2. ASSUME phase # "live"
        PROVE  \/ \E t \in Execs : Quiet(t) \/ AddToEmpty(t) \/ AddAtEnd(t)
               \/ DrainRead \/ DrainUnlink \/ EndCleanup
               \/ UNCHANGED vars
    BY <1>2
    DEF Next, ExecStep, Quiet, NewExecve, KmallocFails, LockPop, ReadStep, PopHook,
        UnlockPop, Unlock, CopyOut, DereferenceNull, Cleanup, StartCleanup,
        ChainInv, Filled
  <1>3. CASE phase = "draining"
    <2> USE <1>3
    <2>1. PICK K \in SUBSET used : Drained(K)
      BY DEF UnloadInv, Draining
    <2>2. popped \in {NULL, hooks_list}
      BY DEF UnloadInv, Draining
    <2>3. CASE EndCleanup
      <3>1. hooks_list = NULL /\ popped = NULL /\ phase' = "gone"
            /\ UNCHANGED <<rec, used, popped>>
            /\ \A t \in Execs : pc'[t] \in {"idle", "oops", "lost"}
        BY <2>3 DEF EndCleanup, heap, Threads
      <3>2. K = {}
        <4>1. PICK n, s : n \in Nat /\ IsChain(n, s, hooks_list, next, K)
          BY <2>1, FS_CardinalityType, ListAssumption DEF Drained
        <4>2. n = 0
          BY <3>1, <4>1, ListAssumption DEF IsChain, TypeOK
        <4>3. QED
          BY <4>1, <4>2 DEF IsChain
      <3>3. QED
        BY <2>1, <3>1, <3>2 DEF Drained, UnloadInv, Draining, Gone, OneLeftEach
    <2>4. CASE ~EndCleanup
      <3>1. phase' = "draining"
        BY <1>2, <2>4
        DEF Quiet, LockAdd, Lock, AddToEmpty, AddToList, WalkOn, WalkFreed,
            AddAtEnd, UnlockAdd, ReadId, WriteId, WrapId, DrainRead, DrainUnlink,
            vars
      <3>2. popped' \in {NULL, hooks_list'}
        BY <1>2, <2>2, <2>4, ListAssumption
        DEF Quiet, LockAdd, Lock, AddToEmpty, AddToList, WalkOn, WalkFreed,
            AddAtEnd, UnlockAdd, ReadId, WriteId, WrapId, DrainRead, DrainUnlink,
            vars, heap
      <3>3. \E K2 \in SUBSET used' : Drained(K2)'
        <4>1. ASSUME NEW t \in Execs, Quiet(t)
              PROVE  \E K2 \in SUBSET used' : Drained(K2)'
          <5>1. used' = used
            BY <4>1
            DEF Quiet, LockAdd, Lock, AddToList, WalkOn, WalkFreed, UnlockAdd,
                ReadId, WriteId, WrapId, heap
          <5>2. QED
            BY <2>1, <4>1, <5>1, QuietDrains
        <4>2. ASSUME NEW t \in Execs, AddToEmpty(t) \/ AddAtEnd(t)
              PROVE  \E K2 \in SUBSET used' : Drained(K2)'
          BY <2>1, <4>2, AddDrains
        <4>3. CASE DrainUnlink
          BY <2>1, <2>2, <4>3, UnlinkDrains
        <4>4. CASE DrainRead \/ UNCHANGED vars
          <5>1. UNCHANGED <<hooks_list, next, rec, used, pc, obj, at>>
            BY <4>4 DEF DrainRead, vars, heap
          <5>2. Drained(K)'
            BY <2>1, <5>1 DEF Drained
          <5>3. QED
            BY <5>1, <5>2
        <4>5. QED
          BY <1>2, <2>4, <4>1, <4>2, <4>3, <4>4
      <3>4. QED
        BY <3>1, <3>2, <3>3 DEF UnloadInv, Draining, Gone, OneLeftEach
    <2>5. QED
      BY <2>3, <2>4
  <1>4. CASE phase = "gone"
    <2>1. popped = NULL /\ \A t \in Execs : pc[t] \in {"idle", "oops", "lost"}
      BY <1>4 DEF UnloadInv, Gone
    <2>2. UNCHANGED vars
      BY <1>2, <1>4, <2>1
      DEF Quiet, LockAdd, Lock, AddToEmpty, AddToList, WalkOn, WalkFreed, AddAtEnd,
          UnlockAdd, ReadId, WriteId, WrapId, DrainRead, DrainUnlink, EndCleanup
    <2>3. QED
      BY <1>4, <2>1, <2>2 DEF vars, heap, UnloadInv, Draining, Gone, OneLeftEach
  <1>5. QED
    BY <1>1, <1>3, <1>4 DEF TypeOK

\* Where the kernel zeroes what kmalloc returns, unloading leaves behind of each
\* thread one record at most, however many records are in the list and whatever
\* the threads inside new_execve do while cleanup_spybot drains it.
THEOREM UnloadLeavesOneEach ==
    ASSUME InitOnAlloc
    PROVE  Spec => []OneLeftEach
  <1>1. Init => UnloadInv
    BY DEF Init, UnloadInv, Draining, Gone, OneLeftEach
  <1>2. TypeOK /\ ChainInv /\ UnloadInv /\ [Next]_vars => UnloadInv'
    BY UnloadStep
  <1>3. UnloadInv => OneLeftEach
    BY DEF UnloadInv
  <1>4. QED
    BY ChainInvHolds, <1>1, <1>2, <1>3, PTL DEF Spec
==============================================================================
