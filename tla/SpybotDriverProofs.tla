------------------------- MODULE SpybotDriverProofs -------------------------
(***************************************************************************)
(* Proofs about SpybotDriver, for any callers, processes, tables and       *)
(* requests.                                                               *)
(***************************************************************************)
EXTENDS SpybotDriver, TLAPS

\* A signal names a process.
LEMMA SignalParam ==
    ASSUME NEW r \in Asked \cup {NoReq}, r.opt \in SignalOpts
    PROVE  r.param \in Pids
  BY AskedAssumption DEF Requests, SignalOpts, ScanOpts, NoReq

\* What a request is about is an entry of a table or a process.
LEMMA FactsTyped ==
    ASSUME NEW r \in Asked \cup {NoReq}
    PROVE  Facts(r) \subseteq Watched
  BY SignalParam DEF Facts, SctDiff, IdtDiff, Watched

\* Bringing the history up to date keeps its type.
LEMMA ObserveTyped ==
    ASSUME TypeCalls, TypeHistory, Observe, req' = req
    PROVE  TypeHistory'
  <1>1. \A c \in Callers : Facts(req[c])' \subseteq Watched
    BY SignalParam DEF TypeCalls, Facts, SctDiff, IdtDiff, Watched
  <1>2. QED
    BY <1>1 DEF TypeHistory, Observe

-----------------------------------------------------------------------------
(* The type invariant, part by part.                                       *)

LEMMA TypeSystemStep ==
    ASSUME TypeSystem, TypeCalls, [Next]_vars
    PROVE  TypeSystem'
  <1> USE DEF TypeSystem, Handlers, SctCells, tables
  <1>1. CASE Insmod \/ SyscallHijack \/ RegisterChrdev \/ CdevAdd \/ Rmmod
                \/ RemoveSyscallHijack
    BY <1>1, TableAssumption
    DEF Insmod, SyscallHijack, RegisterChrdev, CdevAdd, Rmmod,
        RemoveSyscallHijack
  <1>2. CASE CreateTempSct
    BY <1>2 DEF CreateTempSct
  <1>3. CASE InitFails \/ Unregister
    BY <1>3 DEF InitFails, Unregister, FreeModule
  <1>4. ASSUME NEW c \in Callers, SendSig(c)
        PROVE  TypeSystem'
    BY <1>4 DEF SendSig, After
  <1>5. ASSUME NEW c \in Callers, WriteEntry(c)
        PROVE  TypeSystem'
    BY <1>5 DEF WriteEntry
  <1>6. ASSUME NEW c \in Callers, SetPageRw(c) \/ SetPageRo(c)
        PROVE  TypeSystem'
    BY <1>6 DEF SetPageRw, SetPageRo
  <1>7. ASSUME NEW c \in Callers, StoreResult(c)
        PROVE  TypeSystem'
    BY <1>7 DEF StoreResult, TypeCalls
  <1>8. ASSUME NEW c \in Callers,
               Call(c) \/ FindTask(c) \/ StartScan(c) \/ CompareScts(c)
                 \/ CompareIdts(c) \/ FixSct(c) \/ WriteFaults(c)
                 \/ SendWithoutAnswer(c) \/ Recv(c)
        PROVE  TypeSystem'
    BY <1>8
    DEF Call, FindTask, StartScan, CompareScts, CompareIdts, CompareEntry,
        FixSct, WriteFaults, SendWithoutAnswer, Recv, Local
  <1>9. CASE Machine
    BY <1>9 DEF Machine, HookSct, PatchIdt, Spawn, Exit
  <1>10. CASE UNCHANGED vars
    BY <1>10 DEF vars
  <1>11. QED
    BY <1>1, <1>2, <1>3, <1>4, <1>5, <1>6, <1>7, <1>8, <1>9, <1>10
    DEF Next, Module, CallStep

LEMMA TypeCallsStep ==
    ASSUME TypeCalls, [Next]_vars
    PROVE  TypeCalls'
  <1> USE DEF TypeCalls, InCall, InSend, callVars, Goto
  <1>1. CASE Insmod \/ SyscallHijack \/ CreateTempSct \/ RegisterChrdev
                \/ CdevAdd \/ Rmmod \/ RemoveSyscallHijack
    BY <1>1 DEF Insmod, SyscallHijack, CreateTempSct, RegisterChrdev, CdevAdd,
                Rmmod, RemoveSyscallHijack
  <1>2. CASE InitFails \/ Unregister
    <2>1. pc' \in [Callers -> InCall \cup {"idle", "oops"}]
      BY <1>2 DEF InitFails, Unregister, FreeModule
    <2>2. req' \in [Callers -> Asked \cup {NoReq}]
      BY <1>2 DEF InitFails, Unregister, FreeModule
    <2>3. fd' \in [Callers -> BOOLEAN]
      BY <1>2 DEF InitFails, Unregister, FreeModule
    <2>4. task' \in [Callers -> {"null", "live", "stale"}]
      BY <1>2 DEF InitFails, Unregister, FreeModule
    <2>5. cursor' \in [Callers -> Nat] /\ val' \in [Callers -> Int]
      BY <1>2 DEF InitFails, Unregister, FreeModule
    <2>6. QED
      BY <2>1, <2>2, <2>3, <2>4, <2>5
  <1>3. ASSUME NEW c \in Callers, Call(c)
        PROVE  TypeCalls'
    BY <1>3 DEF Call
  <1>4. ASSUME NEW c \in Callers, FindTask(c) \/ SendSig(c)
        PROVE  TypeCalls'
    BY <1>4 DEF FindTask, SendSig, Local
  <1>5. ASSUME NEW c \in Callers, StartScan(c) \/ CompareScts(c) \/ CompareIdts(c)
        PROVE  TypeCalls'
    BY <1>5 DEF StartScan, CompareScts, CompareIdts, CompareEntry, Local
  <1>6. ASSUME NEW c \in Callers,
               FixSct(c) \/ SetPageRw(c) \/ WriteEntry(c) \/ SetPageRo(c)
        PROVE  TypeCalls'
    BY <1>6 DEF FixSct, SetPageRw, WriteEntry, SetPageRo, Local
  <1>7. ASSUME NEW c \in Callers,
               WriteFaults(c) \/ SendWithoutAnswer(c) \/ StoreResult(c) \/ Recv(c)
        PROVE  TypeCalls'
    <2>1. req' \in [Callers -> Asked \cup {NoReq}]
      BY <1>7 DEF WriteFaults, SendWithoutAnswer, StoreResult, Recv, Local
    <2>2. pc' \in [Callers -> InCall \cup {"idle", "oops"}]
      BY <1>7 DEF WriteFaults, SendWithoutAnswer, StoreResult, Recv, Local
    <2>3. /\ fd' \in [Callers -> BOOLEAN]
          /\ task' \in [Callers -> {"null", "live", "stale"}]
      BY <1>7 DEF WriteFaults, SendWithoutAnswer, StoreResult, Recv, Local
    <2>4. cursor' \in [Callers -> Nat] /\ val' \in [Callers -> Int]
      BY <1>7 DEF WriteFaults, SendWithoutAnswer, StoreResult, Recv, Local
    <2>5. QED
      BY <2>1, <2>2, <2>3, <2>4
  <1>8. CASE Machine
    BY <1>8 DEF Machine, HookSct, PatchIdt, Spawn, Exit
  <1>9. CASE UNCHANGED vars
    BY <1>9 DEF vars
  <1>10. QED
    BY <1>1, <1>2, <1>3, <1>4, <1>5, <1>6, <1>7, <1>8, <1>9
    DEF Next, Module, CallStep

LEMMA TypeHistoryStep ==
    ASSUME TypeCalls, TypeHistory, [Next]_vars
    PROVE  TypeHistory'
  <1> USE DEF TypeHistory, history
  <1>1. CASE Insmod \/ SyscallHijack \/ CreateTempSct \/ RegisterChrdev
                \/ CdevAdd \/ Rmmod \/ RemoveSyscallHijack
    BY <1>1 DEF Insmod, SyscallHijack, CreateTempSct, RegisterChrdev, CdevAdd,
                Rmmod, RemoveSyscallHijack
  <1>2. CASE InitFails \/ Unregister
    BY <1>2 DEF InitFails, Unregister, FreeModule
  <1>3. ASSUME NEW c \in Callers, Call(c)
        PROVE  TypeHistory'
    BY <1>3, FactsTyped DEF Call
  <1>4. ASSUME NEW c \in Callers, WriteEntry(c)
        PROVE  TypeHistory'
    BY <1>4, ObserveTyped DEF WriteEntry
  <1>5. ASSUME NEW c \in Callers, WriteFaults(c) \/ StoreResult(c) \/ Recv(c)
        PROVE  TypeHistory'
    BY <1>5 DEF WriteFaults, StoreResult, Recv
  <1>6. ASSUME NEW c \in Callers,
               FindTask(c) \/ SendSig(c) \/ StartScan(c) \/ CompareScts(c)
                 \/ CompareIdts(c) \/ FixSct(c) \/ SetPageRw(c) \/ SetPageRo(c)
                 \/ SendWithoutAnswer(c)
        PROVE  TypeHistory'
    BY <1>6 DEF FindTask, SendSig, StartScan, CompareScts, CompareIdts,
                CompareEntry, FixSct, SetPageRw, SetPageRo, SendWithoutAnswer, Local
  <1>7. CASE Machine
    BY <1>7, ObserveTyped DEF Machine, HookSct, PatchIdt, Spawn, Exit, callVars
  <1>8. CASE UNCHANGED vars
    BY <1>8 DEF vars
  <1>9. QED
    BY <1>1, <1>2, <1>3, <1>4, <1>5, <1>6, <1>7, <1>8
    DEF Next, Module, CallStep

LEMMA CursorBoundStep ==
    ASSUME TypeCalls, CursorBound, [Next]_vars
    PROVE  CursorBound'
  <1> USE TableAssumption DEF TypeCalls, CursorBound, callVars, Goto
  <1>1. CASE Insmod \/ SyscallHijack \/ CreateTempSct \/ RegisterChrdev
                \/ CdevAdd \/ Rmmod \/ RemoveSyscallHijack
    BY <1>1 DEF Insmod, SyscallHijack, CreateTempSct, RegisterChrdev, CdevAdd,
                Rmmod, RemoveSyscallHijack
  <1>2. CASE InitFails \/ Unregister
    BY <1>2 DEF InitFails, Unregister, FreeModule
  <1>3. ASSUME NEW c \in Callers, Call(c) \/ WriteFaults(c) \/ Recv(c)
        PROVE  CursorBound'
    BY <1>3 DEF Call, WriteFaults, Recv
  <1>4. ASSUME NEW c \in Callers, StartScan(c)
        PROVE  CursorBound'
    BY <1>4 DEF StartScan, Local
  <1>5. ASSUME NEW c \in Callers, CompareScts(c) \/ CompareIdts(c)
        PROVE  CursorBound'
    BY <1>5 DEF CompareScts, CompareIdts, CompareEntry, Local, SctEntries,
                IdtEntries
  <1>6. ASSUME NEW c \in Callers, FindTask(c) \/ SendSig(c) \/ SendWithoutAnswer(c)
        PROVE  CursorBound'
    BY <1>6 DEF FindTask, SendSig, SendWithoutAnswer, Local
  <1>7. ASSUME NEW c \in Callers,
               FixSct(c) \/ SetPageRw(c) \/ WriteEntry(c) \/ SetPageRo(c)
        PROVE  CursorBound'
    BY <1>7 DEF FixSct, SetPageRw, WriteEntry, SetPageRo, Local
  <1>8. ASSUME NEW c \in Callers, StoreResult(c)
        PROVE  CursorBound'
    BY <1>8 DEF StoreResult
  <1>9. CASE Machine
    BY <1>9 DEF Machine, HookSct, PatchIdt, Spawn, Exit
  <1>10. CASE UNCHANGED vars
    BY <1>10 DEF vars
  <1>11. QED
    BY <1>1, <1>2, <1>3, <1>4, <1>5, <1>6, <1>7, <1>8, <1>9, <1>10
    DEF Next, Module, CallStep

\* Every reachable state is well typed, and no scan reads past its table,
\* however the callers and the rest of the machine interleave.
THEOREM TypeCorrect == Spec => []TypeOK
<1>1. Init => TypeOK
  <2> SUFFICES ASSUME Init PROVE TypeOK
    OBVIOUS
  <2> USE DEF Init
  <2>1. TypeSystem
    BY DEF TypeSystem, Handlers
  <2>2. TypeCalls
    BY DEF TypeCalls, InCall, InSend
  <2>3. TypeHistory /\ CursorBound
    BY DEF TypeHistory, CursorBound
  <2>4. QED
    BY <2>1, <2>2, <2>3 DEF TypeOK
<1>2. TypeOK /\ [Next]_vars => TypeOK'
  BY TypeSystemStep, TypeCallsStep, TypeHistoryStep, CursorBoundStep DEF TypeOK
<1>3. QED
  BY <1>1, <1>2, PTL DEF Spec
-----------------------------------------------------------------------------
(* The inductive invariant, part by part.                                  *)

LEMMA PinnedStep ==
    ASSUME TypeCalls, Pinned, [Next]_vars
    PROVE  Pinned'
  <1> USE DEF TypeCalls, Pinned, InCall, InSend, Open, callVars, Goto
  <1>1. CASE Insmod \/ SyscallHijack \/ CreateTempSct \/ RegisterChrdev
                \/ CdevAdd \/ Rmmod \/ RemoveSyscallHijack
    BY <1>1
    DEF Insmod, SyscallHijack, CreateTempSct, RegisterChrdev, CdevAdd,
        Rmmod, RemoveSyscallHijack
  <1>2. CASE InitFails \/ Unregister
    BY <1>2
    DEF InitFails, Unregister, FreeModule
  <1>3. ASSUME NEW c \in Callers, Call(c)
        PROVE  Pinned'
    BY <1>3
    DEF Call
  <1>4. ASSUME NEW c \in Callers, FindTask(c) \/ SendSig(c)
        PROVE  Pinned'
    BY <1>4
    DEF FindTask, SendSig, Local
  <1>5. ASSUME NEW c \in Callers, StartScan(c) \/ CompareScts(c) \/ CompareIdts(c)
        PROVE  Pinned'
    BY <1>5
    DEF StartScan, CompareScts, CompareIdts, CompareEntry, Local
  <1>6. ASSUME NEW c \in Callers, FixSct(c) \/ SetPageRw(c) \/ SetPageRo(c)
        PROVE  Pinned'
    BY <1>6
    DEF FixSct, SetPageRw, SetPageRo, Local
  <1>7. ASSUME NEW c \in Callers, WriteEntry(c)
        PROVE  Pinned'
    BY <1>7
    DEF WriteEntry
  <1>8. ASSUME NEW c \in Callers, WriteFaults(c) \/ SendWithoutAnswer(c)
        PROVE  Pinned'
    BY <1>8
    DEF WriteFaults, SendWithoutAnswer, Local
  <1>9. ASSUME NEW c \in Callers, StoreResult(c) \/ Recv(c)
        PROVE  Pinned'
    BY <1>9
    DEF StoreResult, Recv
  <1>10. CASE Machine
    BY <1>10
    DEF Machine, HookSct, PatchIdt, Spawn, Exit
  <1>11. CASE UNCHANGED vars
    BY <1>11
    DEF vars
  <1>12. QED
    BY <1>1, <1>2, <1>3, <1>4, <1>5, <1>6, <1>7, <1>8, <1>9, <1>10, <1>11
    DEF Next, Module, CallStep

LEMMA HandlerFitsStep ==
    ASSUME TypeCalls, Pinned, HandlerFits, [Next]_vars
    PROVE  HandlerFits'
  <1> USE DEF TypeCalls, HandlerFits, callVars, Goto, SignalOpts, ScanOpts
  <1>1. CASE Insmod \/ SyscallHijack \/ CreateTempSct \/ RegisterChrdev
                \/ CdevAdd \/ Rmmod \/ RemoveSyscallHijack
    BY <1>1
    DEF Insmod, SyscallHijack, CreateTempSct, RegisterChrdev, CdevAdd,
        Rmmod, RemoveSyscallHijack
  <1>2. CASE InitFails \/ Unregister
    BY <1>2
    DEF InitFails, Unregister, FreeModule, Pinned, InCall, InSend
  <1>3. ASSUME NEW c \in Callers, Call(c)
        PROVE  HandlerFits'
    BY <1>3
    DEF Call
  <1>4. ASSUME NEW c \in Callers, FindTask(c) \/ SendSig(c)
        PROVE  HandlerFits'
    BY <1>4
    DEF FindTask, SendSig, Local
  <1>5. ASSUME NEW c \in Callers, StartScan(c) \/ CompareScts(c) \/ CompareIdts(c)
        PROVE  HandlerFits'
    BY <1>5
    DEF StartScan, CompareScts, CompareIdts, CompareEntry, Local
  <1>6. ASSUME NEW c \in Callers, FixSct(c) \/ SetPageRw(c) \/ SetPageRo(c)
        PROVE  HandlerFits'
    BY <1>6
    DEF FixSct, SetPageRw, SetPageRo, Local
  <1>7. ASSUME NEW c \in Callers, WriteEntry(c)
        PROVE  HandlerFits'
    BY <1>7
    DEF WriteEntry
  <1>8. ASSUME NEW c \in Callers, WriteFaults(c) \/ SendWithoutAnswer(c)
        PROVE  HandlerFits'
    BY <1>8
    DEF WriteFaults, SendWithoutAnswer, Local
  <1>9. ASSUME NEW c \in Callers, StoreResult(c) \/ Recv(c)
        PROVE  HandlerFits'
    BY <1>9
    DEF StoreResult, Recv
  <1>10. CASE Machine
    BY <1>10
    DEF Machine, HookSct, PatchIdt, Spawn, Exit
  <1>11. CASE UNCHANGED vars
    BY <1>11
    DEF vars
  <1>12. QED
    BY <1>1, <1>2, <1>3, <1>4, <1>5, <1>6, <1>7, <1>8, <1>9, <1>10, <1>11
    DEF Next, Module, CallStep

LEMMA AnswerFreshStep ==
    ASSUME TypeCalls, Pinned, HandlerFits, AnswerFresh, [Next]_vars
    PROVE  AnswerFresh'
  <1> USE DEF TypeCalls, HandlerFits, AnswerFresh, callVars, history, Goto,
              SignalOpts, ScanOpts, InCall, InSend
  <1>1. CASE Insmod \/ SyscallHijack \/ CreateTempSct \/ RegisterChrdev
                \/ CdevAdd \/ Rmmod \/ RemoveSyscallHijack
    BY <1>1
    DEF Insmod, SyscallHijack, CreateTempSct, RegisterChrdev, CdevAdd,
        Rmmod, RemoveSyscallHijack
  <1>2. CASE InitFails \/ Unregister
    BY <1>2
    DEF InitFails, Unregister, FreeModule, Pinned, InCall, InSend
  <1>3. ASSUME NEW c \in Callers, Call(c)
        PROVE  AnswerFresh'
    BY <1>3
    DEF Call
  <1>4. ASSUME NEW c \in Callers, FindTask(c) \/ SendSig(c)
        PROVE  AnswerFresh'
    BY <1>4
    DEF FindTask, SendSig, Local
  <1>5. ASSUME NEW c \in Callers, StartScan(c) \/ CompareScts(c) \/ CompareIdts(c)
        PROVE  AnswerFresh'
    BY <1>5
    DEF StartScan, CompareScts, CompareIdts, CompareEntry, Local
  <1>6. ASSUME NEW c \in Callers, FixSct(c) \/ SetPageRw(c) \/ SetPageRo(c)
        PROVE  AnswerFresh'
    BY <1>6
    DEF FixSct, SetPageRw, SetPageRo, Local
  <1>7. ASSUME NEW c \in Callers, WriteEntry(c)
        PROVE  AnswerFresh'
    BY <1>7
    DEF WriteEntry, Observe
  <1>8. ASSUME NEW c \in Callers, WriteFaults(c) \/ SendWithoutAnswer(c)
        PROVE  AnswerFresh'
    BY <1>8
    DEF WriteFaults, SendWithoutAnswer, Local
  <1>9. ASSUME NEW c \in Callers, StoreResult(c) \/ Recv(c)
        PROVE  AnswerFresh'
    BY <1>9
    DEF StoreResult, Recv
  <1>10. CASE Machine
    BY <1>10
    DEF Machine, HookSct, PatchIdt, Spawn, Exit, Observe
  <1>11. CASE UNCHANGED vars
    BY <1>11
    DEF vars
  <1>12. QED
    BY <1>1, <1>2, <1>3, <1>4, <1>5, <1>6, <1>7, <1>8, <1>9, <1>10, <1>11
    DEF Next, Module, CallStep

LEMMA PageSealedStep ==
    ASSUME TypeCalls, Pinned, PageSealed, [Next]_vars
    PROVE  PageSealed'
  <1> USE DEF TypeCalls, Pinned, PageSealed, callVars, tables, Goto, InCall, InSend
  <1>1. CASE Insmod \/ SyscallHijack \/ CreateTempSct \/ RegisterChrdev
                \/ CdevAdd \/ Rmmod \/ RemoveSyscallHijack
    BY <1>1
    DEF Insmod, SyscallHijack, CreateTempSct, RegisterChrdev, CdevAdd,
        Rmmod, RemoveSyscallHijack
  <1>2. CASE InitFails \/ Unregister
    BY <1>2
    DEF InitFails, Unregister, FreeModule
  <1>3. ASSUME NEW c \in Callers, Call(c)
        PROVE  PageSealed'
    BY <1>3
    DEF Call
  <1>4. ASSUME NEW c \in Callers, FindTask(c) \/ SendSig(c)
        PROVE  PageSealed'
    BY <1>4
    DEF FindTask, SendSig, Local
  <1>5. ASSUME NEW c \in Callers, StartScan(c) \/ CompareScts(c) \/ CompareIdts(c)
        PROVE  PageSealed'
    BY <1>5
    DEF StartScan, CompareScts, CompareIdts, CompareEntry, Local
  <1>6. ASSUME NEW c \in Callers, FixSct(c) \/ SetPageRw(c) \/ SetPageRo(c)
        PROVE  PageSealed'
    BY <1>6
    DEF FixSct, SetPageRw, SetPageRo, Local
  <1>7. ASSUME NEW c \in Callers, WriteEntry(c)
        PROVE  PageSealed'
    BY <1>7
    DEF WriteEntry
  <1>8. ASSUME NEW c \in Callers, WriteFaults(c) \/ SendWithoutAnswer(c)
        PROVE  PageSealed'
    BY <1>8
    DEF WriteFaults, SendWithoutAnswer, Local
  <1>9. ASSUME NEW c \in Callers, StoreResult(c) \/ Recv(c)
        PROVE  PageSealed'
    BY <1>9
    DEF StoreResult, Recv
  <1>10. CASE Machine
    BY <1>10
    DEF Machine, HookSct, PatchIdt, Spawn, Exit
  <1>11. CASE UNCHANGED vars
    BY <1>11
    DEF vars
  <1>12. QED
    BY <1>1, <1>2, <1>3, <1>4, <1>5, <1>6, <1>7, <1>8, <1>9, <1>10, <1>11
    DEF Next, Module, CallStep

\* A step that leaves tables, processes and requests alone leaves the facts.
LEMMA FactsSame ==
    ASSUME UNCHANGED <<sct, temp_sct, idt, temp_idt, proc, req>>
    PROVE  \A c \in Callers : Facts(req[c])' = Facts(req[c])
  BY DEF Facts, SctDiff, IdtDiff

LEMMA ObserveBrackets ==
    ASSUME Observe
    PROVE  Bracketed'
  BY DEF Observe, Bracketed

LEMMA BracketedStep ==
    ASSUME TypeSystem, TypeCalls, TypeHistory, Pinned, HandlerFits, Bracketed,
           [Next]_vars
    PROVE  Bracketed'
  <1> USE DEF TypeCalls, TypeHistory, callVars, history, tables, Goto
  <1>1. CASE Insmod \/ SyscallHijack \/ CreateTempSct \/ RemoveSyscallHijack
    BY <1>1
    DEF Insmod, SyscallHijack, CreateTempSct, RemoveSyscallHijack, Pinned,
        Open, InCall, InSend, Bracketed
  <1>2. CASE RegisterChrdev \/ CdevAdd \/ Rmmod
    BY <1>2, FactsSame DEF RegisterChrdev, CdevAdd, Rmmod, Bracketed
  <1>3. CASE InitFails \/ Unregister
    BY <1>3
    DEF InitFails, Unregister, FreeModule, Pinned, InCall, InSend, Bracketed
  <1>4. ASSUME NEW c \in Callers, Call(c)
        PROVE  Bracketed'
    <2>1. ASSUME NEW d \in Callers, d # c
          PROVE  Facts(req[d])' = Facts(req[d])
      BY <1>4, <2>1 DEF Call, Facts, SctDiff, IdtDiff
    <2>2. held'[c] = Facts(req[c])' /\ seen'[c] = Facts(req[c])'
      BY <1>4 DEF Call, Facts, SctDiff, IdtDiff
    <2>3. QED
      BY <1>4, <2>1, <2>2 DEF Call, Bracketed
  <1>5. ASSUME NEW c \in Callers, FindTask(c) \/ SendWithoutAnswer(c)
        PROVE  Bracketed'
    BY <1>5, FactsSame DEF FindTask, SendWithoutAnswer, Local, Bracketed, InSend
  <1>6. ASSUME NEW c \in Callers, SendSig(c)
        PROVE  Bracketed'
    <2>1. \A p \in Pids : proc'[p] = "none" <=> proc[p] = "none"
      BY <1>6 DEF SendSig, After, TypeSystem
    <2>2. \A d \in Callers : Facts(req[d])' = Facts(req[d])
      <3> SUFFICES ASSUME NEW d \in Callers
                   PROVE  Facts(req[d])' = Facts(req[d])
        OBVIOUS
      <3>1. UNCHANGED <<sct, temp_sct, idt, temp_idt, req>>
        BY <1>6 DEF SendSig
      <3>2. CASE req[d].opt \in SignalOpts
        BY <2>1, <3>1, <3>2, SignalParam DEF Facts
      <3>3. CASE req[d].opt \notin SignalOpts
        BY <3>1, <3>3 DEF Facts, SctDiff, IdtDiff
      <3>4. QED
        BY <3>2, <3>3
    <2>3. QED
      BY <1>6, <2>2 DEF SendSig, Bracketed, InSend
  <1>7. ASSUME NEW c \in Callers, StartScan(c) \/ CompareScts(c) \/ CompareIdts(c)
        PROVE  Bracketed'
    BY <1>7, FactsSame
    DEF StartScan, CompareScts, CompareIdts, CompareEntry, Local, Bracketed, InSend
  <1>8. ASSUME NEW c \in Callers, FixSct(c) \/ SetPageRw(c) \/ SetPageRo(c)
        PROVE  Bracketed'
    BY <1>8, FactsSame DEF FixSct, SetPageRw, SetPageRo, Local, Bracketed, InSend
  <1>9. ASSUME NEW c \in Callers, WriteEntry(c)
        PROVE  Bracketed'
    BY <1>9, ObserveBrackets DEF WriteEntry
  <1>10. ASSUME NEW c \in Callers, WriteFaults(c) \/ Recv(c)
        PROVE  Bracketed'
    <2>1. ASSUME NEW d \in Callers, d # c
          PROVE  Facts(req[d])' = Facts(req[d])
      <3>1. req'[d] = req[d] /\ UNCHANGED <<sct, temp_sct, idt, temp_idt, proc>>
        BY <1>10, <2>1 DEF WriteFaults, Recv
      <3>2. QED
        BY <3>1 DEF Facts, SctDiff, IdtDiff
    <2>2. QED
      BY <1>10, <2>1 DEF WriteFaults, Recv, Bracketed, InSend
  <1>11. ASSUME NEW c \in Callers, StoreResult(c)
        PROVE  Bracketed'
    BY <1>11, FactsSame DEF StoreResult, Bracketed, InSend
  <1>12. CASE Machine
    BY <1>12, ObserveBrackets DEF Machine, HookSct, PatchIdt, Spawn, Exit
  <1>13. CASE UNCHANGED vars
    BY <1>13, FactsSame DEF vars, Bracketed
  <1>14. QED
    BY <1>1, <1>2, <1>3, <1>4, <1>5, <1>6, <1>7, <1>8, <1>9, <1>10, <1>11,
       <1>12, <1>13
    DEF Next, Module, CallStep

\* Growing what was seen and shrinking what held keeps every verdict.
LEMMA ObserveVerdicts ==
    ASSUME TypeCalls, Verdicts, Observe, UNCHANGED <<pc, req, cursor, val>>
    PROVE  Verdicts'
  BY DEF Verdicts, Progress, ScanVerdict, FixVerdict, SignalVerdict, Observe,
         TypeCalls

LEMMA VerdictsStep ==
    ASSUME TypeSystem, TypeCalls, TypeHistory, Pinned, HandlerFits, Bracketed,
           Verdicts, [Next]_vars
    PROVE  Verdicts'
  <1> USE DEF TypeCalls, TypeHistory, callVars, history, Goto
  <1> DEFINE OthersKept(c) ==
        \A d \in Callers \ {c} :
            /\ pc'[d] = pc[d] /\ req'[d] = req[d]
            /\ cursor'[d] = cursor[d] /\ val'[d] = val[d]
            /\ held'[d] = held[d] /\ seen'[d] = seen[d]
  <1> DEFINE Right(c) ==
        /\ pc[c] = "scan" => \A i \in held[c] : cursor[c] =< i
        /\ pc[c] = "deliver" => req[c].param \in seen[c]
        /\ pc[c] = "ro" /\ req[c].param \in SctEntries =>
                req[c].param \notin held[c]
        /\ pc[c] = "store" /\ req[c].opt \in ScanOpts =>
                /\ val[c] = -1 => held[c] = {}
                /\ val[c] # -1 => val[c] \in seen[c] /\ \A i \in held[c] : val[c] =< i
        /\ pc[c] = "store" /\ req[c].opt = "SCT_FIX" =>
                /\ req[c].param \in SctEntries =>
                        val[c] = 1 /\ req[c].param \notin held[c]
                /\ req[c].param \notin SctCells => val[c] = 0
        /\ pc[c] = "store" /\ req[c].opt \in SignalOpts =>
                IF val[c] = 1 THEN req[c].param \in seen[c]
                              ELSE req[c].param \notin held[c]
  <1>a. ASSUME NEW c \in Callers, OthersKept(c), Right(c)'
        PROVE  Verdicts'
    BY <1>a DEF Verdicts, Progress, ScanVerdict, FixVerdict, SignalVerdict
  <1>b. \A c \in Callers : Right(c)
    BY DEF Verdicts, Progress, ScanVerdict, FixVerdict, SignalVerdict
  <1> HIDE DEF OthersKept, Right
  <1>1. CASE Insmod \/ SyscallHijack \/ CreateTempSct \/ RegisterChrdev
                \/ CdevAdd \/ Rmmod \/ RemoveSyscallHijack
    BY <1>1
    DEF Insmod, SyscallHijack, CreateTempSct, RegisterChrdev, CdevAdd, Rmmod,
        RemoveSyscallHijack, Verdicts, Progress, ScanVerdict, FixVerdict,
        SignalVerdict
  <1>2. CASE InitFails \/ Unregister
    <2>1. \A c \in Callers : pc'[c] \notin {"scan", "deliver", "ro", "store"}
      BY <1>2 DEF InitFails, Unregister, FreeModule, Pinned, InCall, InSend
    <2>2. QED
      BY <2>1 DEF Verdicts, Progress, ScanVerdict, FixVerdict, SignalVerdict
  <1>3. ASSUME NEW c \in Callers,
               Call(c) \/ SendWithoutAnswer(c) \/ WriteFaults(c) \/ Recv(c)
                 \/ SetPageRw(c) \/ StoreResult(c)
        PROVE  Verdicts'
    <2>1. OthersKept(c)
      BY <1>3 DEF OthersKept, Call, SendWithoutAnswer, WriteFaults, Recv,
                  SetPageRw, StoreResult, Local
    <2>2. pc'[c] \in {"send", "recv", "oops", "idle", "write"}
      BY <1>3 DEF Call, SendWithoutAnswer, WriteFaults, Recv, SetPageRw, StoreResult
    <2>3. Right(c)'
      BY <2>2 DEF Right
    <2>4. QED
      BY <1>a, <2>1, <2>3
  <1>4. ASSUME NEW c \in Callers, FindTask(c)
        PROVE  Verdicts'
    <2>1. OthersKept(c)
      BY <1>4 DEF OthersKept, FindTask, Local
    <2>2. /\ pc[c] = "send" /\ req'[c] = req[c] /\ req[c].opt \in SignalOpts
          /\ held'[c] = held[c] /\ seen'[c] = seen[c]
      BY <1>4 DEF FindTask, Local
    <2>3. /\ held[c] \subseteq {p \in {req[c].param} : proc[p] # "none"}
          /\ {p \in {req[c].param} : proc[p] # "none"} \subseteq seen[c]
      BY <2>2 DEF Bracketed, Facts, InSend
    <2>4. \/ /\ pc'[c] = "deliver" /\ proc[req[c].param] # "none"
          \/ /\ pc'[c] = "store" /\ val'[c] = 0 /\ proc[req[c].param] = "none"
      BY <1>4 DEF FindTask
    <2>5. Right(c)'
      BY <2>2, <2>3, <2>4 DEF Right, SignalOpts, ScanOpts
    <2>6. QED
      BY <1>a, <2>1, <2>5
  <1>5. ASSUME NEW c \in Callers, SendSig(c)
        PROVE  Verdicts'
    <2>1. OthersKept(c)
      BY <1>5 DEF OthersKept, SendSig
    <2>2. /\ pc'[c] = "store" /\ val'[c] = 1 /\ req'[c] = req[c]
          /\ req[c].opt \in SignalOpts /\ seen'[c] = seen[c]
          /\ req[c].param \in seen[c]
      BY <1>5, <1>b DEF SendSig, HandlerFits, Right
    <2>3. Right(c)'
      BY <2>2 DEF Right, SignalOpts, ScanOpts
    <2>4. QED
      BY <1>a, <2>1, <2>3
  <1>6. ASSUME NEW c \in Callers, StartScan(c)
        PROVE  Verdicts'
    <2>1. OthersKept(c)
      BY <1>6 DEF OthersKept, StartScan, Local
    <2>2. held'[c] \subseteq Nat
      BY <1>6, TableAssumption
      DEF StartScan, Local, Bracketed, InSend, Facts, ScanOpts, SignalOpts,
          SctDiff, IdtDiff, SctEntries, IdtEntries
    <2>3. Right(c)'
      BY <1>6, <2>2 DEF StartScan, Right
    <2>4. QED
      BY <1>a, <2>1, <2>3
  <1>7. ASSUME NEW c \in Callers, CompareScts(c) \/ CompareIdts(c)
        PROVE  Verdicts'
    <2>1. OthersKept(c)
      BY <1>7 DEF OthersKept, CompareScts, CompareIdts, CompareEntry, Local
    <2>2. PICK n \in Nat, diff \in SUBSET Nat :
            /\ diff \subseteq 0 .. n - 1
            /\ CompareEntry(c, 0 .. n - 1, diff)
            /\ Facts(req[c]) = diff
            /\ req[c].opt \in ScanOpts
      <3>1. CASE CompareScts(c)
        <4>1. /\ CompareEntry(c, 0 .. NrSyscalls - 1, SctDiff)
              /\ Facts(req[c]) = SctDiff /\ req[c].opt \in ScanOpts
              /\ SctDiff \subseteq 0 .. NrSyscalls - 1
          BY <3>1
          DEF CompareScts, SctEntries, Facts, ScanOpts, SignalOpts, SctDiff
        <4>2. QED
          BY <4>1, TableAssumption
      <3>2. CASE CompareIdts(c)
        <4>1. /\ CompareEntry(c, 0 .. MaxIdt - 1, IdtDiff)
              /\ Facts(req[c]) = IdtDiff /\ req[c].opt \in ScanOpts
              /\ IdtDiff \subseteq 0 .. MaxIdt - 1
          BY <3>2
          DEF CompareIdts, IdtEntries, Facts, ScanOpts, SignalOpts, IdtDiff
        <4>2. QED
          BY <4>1, TableAssumption
      <3>3. QED
        BY <1>7, <3>1, <3>2
    <2>3. /\ pc[c] = "scan" /\ req'[c] = req[c]
          /\ held'[c] = held[c] /\ seen'[c] = seen[c]
          /\ held[c] \subseteq diff /\ diff \subseteq seen[c]
          /\ \A i \in held[c] : cursor[c] =< i
      BY <2>2, <1>b DEF CompareEntry, Local, Bracketed, InSend, Right
    <2>4. \/ pc'[c] = "store" /\ val'[c] = -1 /\ cursor[c] \notin 0 .. n - 1
          \/ pc'[c] = "store" /\ val'[c] = cursor[c] /\ cursor[c] \in diff
          \/ pc'[c] = "scan" /\ cursor'[c] = cursor[c] + 1 /\ cursor[c] \notin diff
      BY <2>2 DEF CompareEntry
    <2>5. Right(c)'
      <3> cursor[c] \in Nat /\ \A i \in held[c] : i \in 0 .. n - 1 /\ i \in diff
        BY <2>2, <2>3
      <3> HIDE DEF TypeCalls, TypeHistory
      <3>1. CASE pc'[c] = "store" /\ val'[c] = -1 /\ cursor[c] \notin 0 .. n - 1
        <4>1. \A i \in held[c] : FALSE
          BY <2>3, <3>1
        <4>2. QED
          BY <2>2, <2>3, <3>1, <4>1 DEF Right, SignalOpts, ScanOpts
      <3>2. CASE pc'[c] = "store" /\ val'[c] = cursor[c] /\ cursor[c] \in diff
        BY <2>2, <2>3, <3>2 DEF Right, SignalOpts, ScanOpts
      <3>3. CASE /\ pc'[c] = "scan" /\ cursor'[c] = cursor[c] + 1
                 /\ cursor[c] \notin diff
        <4>1. \A i \in held[c] : cursor[c] + 1 =< i
          BY <2>3, <3>3
        <4>2. QED
          BY <2>2, <2>3, <3>3, <4>1 DEF Right
      <3>4. QED
        BY <2>4, <3>1, <3>2, <3>3
    <2>6. QED
      BY <1>a, <2>1, <2>5
  <1>8. ASSUME NEW c \in Callers, FixSct(c)
        PROVE  Verdicts'
    <2>1. OthersKept(c)
      BY <1>8 DEF OthersKept, FixSct, Local
    <2>2. Right(c)'
      BY <1>8, TableAssumption
      DEF FixSct, Right, Local, InFixRange, SctEntries, SctCells, SignalOpts,
          ScanOpts
    <2>3. QED
      BY <1>a, <2>1, <2>2
  <1>9. ASSUME NEW c \in Callers, WriteEntry(c)
        PROVE  Verdicts'
    <2>1. Observe /\ UNCHANGED <<req, cursor, val, temp_sct>>
      BY <1>9 DEF WriteEntry
    <2>2. \A d \in Callers \ {c} : Right(d)'
      BY <1>9, <1>b, <2>1 DEF WriteEntry, Observe, Right
    <2>3. req[c].opt = "SCT_FIX" /\ pc'[c] = "ro"
      BY <1>9 DEF WriteEntry, HandlerFits
    <2>4. Facts(req[c])' = SctDiff'
      BY <2>1, <2>3 DEF Facts, SignalOpts
    <2>5. req[c].param \in SctEntries => req[c].param \notin SctDiff'
      BY <1>9, <2>1, TableAssumption
      DEF WriteEntry, SctDiff, TypeSystem, SctCells, SctEntries
    <2>6. Right(c)'
      BY <2>1, <2>3, <2>4, <2>5 DEF Observe, Right
    <2>7. QED
      BY <2>2, <2>6
      DEF Right, Verdicts, Progress, ScanVerdict, FixVerdict, SignalVerdict
  <1>10. ASSUME NEW c \in Callers, SetPageRo(c)
        PROVE  Verdicts'
    <2>1. OthersKept(c)
      BY <1>10 DEF OthersKept, SetPageRo
    <2>2. /\ pc[c] = "ro" /\ pc'[c] = "store" /\ val'[c] = 1
          /\ req'[c] = req[c] /\ held'[c] = held[c]
          /\ req[c].opt = "SCT_FIX" /\ InFixRange(req[c].param)
      BY <1>10 DEF SetPageRo, HandlerFits
    <2>3. req[c].param \in Int
      BY <2>2, AskedAssumption, SignalParam DEF Requests, NoReq, SignalOpts, ScanOpts
    <2>4. req[c].param \in SctCells
      BY <2>2, <2>3, TableAssumption DEF InFixRange, SctCells
    <2>5. Right(c)'
      BY <1>b, <2>2, <2>4 DEF Right, SignalOpts, ScanOpts
    <2>6. QED
      BY <1>a, <2>1, <2>5
  <1>11. CASE Machine
    BY <1>11, ObserveVerdicts DEF Machine, HookSct, PatchIdt, Spawn, Exit
  <1>12. CASE UNCHANGED vars
    BY <1>12
    DEF vars, Verdicts, Progress, ScanVerdict, FixVerdict, SignalVerdict
  <1>13. QED
    BY <1>1, <1>2, <1>3, <1>4, <1>5, <1>6, <1>7, <1>8, <1>9, <1>10, <1>11, <1>12
    DEF Next, Module, CallStep

LEMMA OwnPlacesStep ==
    ASSUME TypeSystem, TypeCalls, Pinned, OwnPlaces, [Next]_vars
    PROVE  OwnPlaces'
  <1> USE TableAssumption DEF TypeSystem, OwnPlaces, SctCells, SctEntries, tables
  <1>1. CASE Insmod
    BY <1>1 DEF Insmod
  <1>2. CASE SyscallHijack
    BY <1>2 DEF SyscallHijack
  <1>3. CASE CreateTempSct
    BY <1>3 DEF CreateTempSct
  <1>4. CASE RegisterChrdev \/ CdevAdd \/ Rmmod
    BY <1>4 DEF RegisterChrdev, CdevAdd, Rmmod
  <1>5. CASE RemoveSyscallHijack
    BY <1>5 DEF RemoveSyscallHijack
  <1>6. CASE InitFails \/ Unregister
    BY <1>6 DEF InitFails, Unregister, FreeModule
  <1>7. ASSUME NEW c \in Callers, WriteEntry(c)
        PROVE  OwnPlaces'
    <2>1. phase \in Open
      BY <1>7 DEF WriteEntry, Pinned, InCall, InSend
    <2>2. QED
      BY <1>7, <2>1 DEF WriteEntry, Open
  <1>8. ASSUME NEW c \in Callers,
               Call(c) \/ FindTask(c) \/ SendSig(c) \/ StartScan(c)
                 \/ CompareScts(c) \/ CompareIdts(c)
        PROVE  OwnPlaces'
    BY <1>8 DEF Call, FindTask, SendSig, StartScan, CompareScts, CompareIdts,
                CompareEntry, Local
  <1>9. ASSUME NEW c \in Callers,
               FixSct(c) \/ SetPageRw(c) \/ SetPageRo(c) \/ WriteFaults(c)
                 \/ SendWithoutAnswer(c) \/ StoreResult(c) \/ Recv(c)
        PROVE  OwnPlaces'
    BY <1>9 DEF FixSct, SetPageRw, SetPageRo, WriteFaults, SendWithoutAnswer,
                StoreResult, Recv, Local
  <1>10. CASE Machine
    <2>1. ASSUME NEW i \in SctEntries, HookSct(i)
          PROVE  OwnPlaces'
      BY <2>1 DEF HookSct
    <2>2. CASE UNCHANGED <<phase, sct, temp_sct, execve_scf>>
      BY <2>2
    <2>3. QED
      BY <1>10, <2>1, <2>2 DEF Machine, PatchIdt, Spawn, Exit
  <1>11. CASE UNCHANGED vars
    BY <1>11 DEF vars
  <1>12. QED
    BY <1>1, <1>2, <1>3, <1>4, <1>5, <1>6, <1>7, <1>8, <1>9, <1>10, <1>11
    DEF Next, Module, CallStep

-----------------------------------------------------------------------------
(* The theorems.                                                           *)

LEMMA InvariantHolds == Spec => [](TypeOK /\ IInv)
<1>1. Init => IInv
  <2> SUFFICES ASSUME Init PROVE IInv
    OBVIOUS
  <2> USE DEF Init, InCall, InSend
  <2>1. Pinned /\ HandlerFits /\ Bracketed
    BY DEF Pinned, HandlerFits, Bracketed
  <2>2. Verdicts
    BY DEF Verdicts, Progress, ScanVerdict, FixVerdict, SignalVerdict
  <2>3. AnswerFresh /\ PageSealed
    BY DEF AnswerFresh, PageSealed
  <2>4. OwnPlaces
    BY TableAssumption DEF OwnPlaces, SctCells
  <2>5. QED
    BY <2>1, <2>2, <2>3, <2>4 DEF IInv
<1>2. TypeOK /\ IInv /\ [Next]_vars => IInv'
  BY PinnedStep, HandlerFitsStep, BracketedStep, VerdictsStep, AnswerFreshStep,
     PageSealedStep, OwnPlacesStep
  DEF IInv, TypeOK
<1>3. QED
  BY TypeCorrect, <1>1, <1>2, PTL DEF Spec

\* No scan, by any caller over tables that others hook and repair meanwhile,
\* answers "sound" over an entry hooked all through it, or names an entry that
\* was never hooked.
THEOREM ScansAreRight == Spec => []ScanVerdict
<1>1. IInv => ScanVerdict
  BY DEF IInv, Verdicts
<1>2. QED
  BY InvariantHolds, <1>1, PTL

\* A repair of an entry of the table is never refused, and leaves an entry that
\* was sound at some time in the call, with any number of concurrent fixers; a
\* repair beyond the word after the table is refused.  (The word itself, index
\* NrSyscalls, is the subject of FixTellsValidity, which the code breaks.)
THEOREM FixesAreRight == Spec => []FixVerdict
<1>1. IInv => FixVerdict
  BY DEF IInv, Verdicts
<1>2. QED
  BY InvariantHolds, <1>1, PTL

\* A signal's answer is about a process that was there, or was not, in the
\* call, although the task pointer may go stale before it is used.
THEOREM SignalsAreRight == Spec => []SignalVerdict
<1>1. IInv => SignalVerdict
  BY DEF IInv, Verdicts
<1>2. QED
  BY InvariantHolds, <1>1, PTL

\* RECV never returns an answer older than the caller's own SEND.
THEOREM AnswersAreFresh == Spec => []AnswerFresh
<1>1. IInv => AnswerFresh
  BY DEF IInv
<1>2. QED
  BY InvariantHolds, <1>1, PTL

\* Overlapping repairs never leave the table writable with no repair under way.
THEOREM PageIsSealed == Spec => []PageSealed
<1>1. IInv => PageSealed
  BY DEF IInv
<1>2. QED
  BY InvariantHolds, <1>1, PTL

\* The driver's callers cannot make it undo its own hook.
THEOREM OwnHookIsKept == Spec => []OwnHookKept
<1>1. IInv => OwnHookKept
  BY DEF IInv, OwnPlaces, OwnHookKept
<1>2. QED
  BY InvariantHolds, <1>1, PTL

\* A module that loaded leaves no pointer to itself when it unloads.
THEOREM UnloadIsClean == Spec => UnloadLeavesNoPointer
<1>1. TypeOK /\ IInv /\ [Next]_vars =>
        [phase = "restored" /\ phase' = "unloaded" =>
            \A i \in SctEntries : sct'[i] = "dangling" => sct[i] = "dangling"]_vars
  <2> SUFFICES ASSUME TypeOK, IInv, Next,
                      phase = "restored", phase' = "unloaded"
               PROVE  \A i \in SctEntries :
                          sct'[i] = "dangling" => sct[i] = "dangling"
    OBVIOUS
  <2>1. CASE Unregister
    BY <2>1, TableAssumption
    DEF Unregister, FreeModule, IInv, OwnPlaces, SctCells, SctEntries
  <2>2. CASE Module /\ ~Unregister
    BY <2>2
    DEF Module, Insmod, SyscallHijack, CreateTempSct, RegisterChrdev, CdevAdd,
        InitFails, Rmmod, RemoveSyscallHijack
  <2>3. ASSUME NEW c \in Callers, Call(c) \/ CallStep(c)
        PROVE  phase' = phase
    BY <2>3
    DEF CallStep, Call, FindTask, SendSig, StartScan, CompareScts, CompareIdts,
        CompareEntry, FixSct, SetPageRw, WriteEntry, WriteFaults, SetPageRo,
        SendWithoutAnswer, StoreResult, Recv, Local
  <2>4. CASE Machine
    BY <2>4 DEF Machine, HookSct, PatchIdt, Spawn, Exit
  <2>5. QED
    BY <2>1, <2>2, <2>3, <2>4 DEF Next
<1>2. QED
  BY InvariantHolds, <1>1, PTL DEF Spec, UnloadLeavesNoPointer
=============================================================================
