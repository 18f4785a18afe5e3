--------------------------- MODULE NetScanProofs ---------------------------
(***************************************************************************)
(* Proofs about NetScan, for any clients, processes, addresses and logs.   *)
(***************************************************************************)
EXTENDS NetScan, SequenceTheorems, TLAPS

\* Pieces of lists.
LEMMA LinesInList ==
    ASSUME NEW S, NEW l \in ListsOf(S)
    PROVE  /\ l \in Seq(S) /\ Len(l) =< MaxLines
           /\ \A k \in DOMAIN l : l[k] \in S
  <1>1. PICK n \in 0 .. MaxLines : l \in [1 .. n -> S]
    BY DEF ListsOf
  <1>2. n \in Nat
    BY <1>1, LinesAssumption
  <1>3. l \in Seq(S) /\ Len(l) = n
    BY <1>1, <1>2
  <1>4. QED
    BY <1>1, <1>3, LinesAssumption

LEMMA ListOfLines ==
    ASSUME NEW l \in Seq(Lines), Len(l) =< MaxLines
    PROVE  l \in ListsOf(Lines)
  <1>1. Len(l) \in 0 .. MaxLines /\ l \in [1 .. Len(l) -> Lines]
    BY LinesAssumption
  <1>2. QED
    BY <1>1 DEF ListsOf

LEMMA TailOfLines ==
    ASSUME NEW l \in Seq(Lines), l # <<>>, Len(l) =< MaxLines
    PROVE  /\ Head(l) \in Lines /\ Head(l) = l[1] /\ 1 \in DOMAIN l
           /\ Tail(l) \in Seq(Lines) /\ Len(Tail(l)) =< MaxLines
           /\ \A k \in DOMAIN Tail(l) : k + 1 \in DOMAIN l /\ Tail(l)[k] = l[k + 1]
  <1>1. Len(l) \in Nat \ {0} /\ Len(Tail(l)) = Len(l) - 1
    OBVIOUS
  <1>2. QED
    BY <1>1, LinesAssumption

LEMMA DoubtOfLines ==
    ASSUME NEW l \in Seq(Lines), NEW p
    PROVE  /\ Doubt(l, p) \in Seq(Lines)
           /\ Len(Doubt(l, p)) = Len(l) /\ DOMAIN Doubt(l, p) = DOMAIN l
           /\ \A k \in DOMAIN l :
                  /\ Doubt(l, p)[k].pid = l[k].pid
                  /\ Doubt(l, p)[k].doubt <=> l[k].doubt \/ l[k].pid = p
  <1> DEFINE d(k) == IF l[k].pid = p THEN [l[k] EXCEPT !.doubt = TRUE] ELSE l[k]
  <1>1. ASSUME NEW k \in DOMAIN l
        PROVE  /\ d(k) \in Lines /\ d(k).pid = l[k].pid
               /\ d(k).doubt <=> l[k].doubt \/ l[k].pid = p
    <2>1. l[k] \in Lines
      OBVIOUS
    <2>2. CASE l[k].pid = p
      <3>1. d(k) = [l[k] EXCEPT !.doubt = TRUE]
        BY <2>2
      <3>2. QED
        BY <2>1, <2>2, <3>1 DEF Lines
    <2>3. CASE l[k].pid # p
      <3>1. d(k) = l[k]
        BY <2>3
      <3>2. QED
        BY <2>1, <2>3, <3>1
    <2>4. QED
      BY <2>2, <2>3
  <1>2. Doubt(l, p) = [k \in 1 .. Len(l) |-> d(k)]
    BY DEF Doubt
  <1>3. DOMAIN l = 1 .. Len(l) /\ Len(l) \in Nat
    OBVIOUS
  <1> HIDE DEF d
  <1>4. Doubt(l, p) \in [1 .. Len(l) -> Lines]
    BY <1>1, <1>2, <1>3
  <1>5. Doubt(l, p) \in Seq(Lines) /\ Len(Doubt(l, p)) = Len(l)
    BY <1>3, <1>4
  <1>6. QED
    BY <1>1, <1>2, <1>3, <1>5

\* Every reachable state is well typed.
THEOREM NetTypeCorrect == Spec => []TypeOK
<1> USE LinesAssumption DEF scripts, found, stores, clients, netHistory, spofHistory,
                            Goto, Spofs, NoSpofs, Listed, Named
<1>1. Init => TypeOK
  BY DEF Init, TypeOK
<1>2. TypeOK /\ [Next]_vars => TypeOK'
  <2> SUFFICES ASSUME TypeOK, [Next]_vars PROVE TypeOK'
    OBVIOUS
  <2>0. ASSUME NEW s, NEW t, NEW l \in Mixtures(s, t)
        PROVE  l \in Seq(Lines) /\ Len(l) =< MaxLines
    BY <2>0, LinesInList DEF Mixtures
  <2>1. CASE IdentifyProcess
    <3>1. lines' \in Seq(Lines) /\ Len(lines') =< MaxLines
      BY <2>1, LinesInList DEF IdentifyProcess
    <3>2. QED
      BY <2>1, <3>1 DEF IdentifyProcess, TypeOK
  <2>2. CASE WriteLog
    <3>1. malicious_log' \in Seq(Lines) /\ Len(malicious_log') =< MaxLines
      BY <2>2, <2>0 DEF WriteLog, TypeOK
    <3>2. QED
      BY <2>2, <3>1 DEF WriteLog, TypeOK
  <2>3. CASE NetScannerFails
    BY <2>3 DEF NetScannerFails, TypeOK
  <2>4. CASE OpenLog
    BY <2>4 DEF OpenLog, TypeOK
  <2>5. ASSUME NEW o \in orphans, OrphanWrites(o)
        PROVE  TypeOK'
    <3>1. malicious_log' \in Seq(Lines) /\ Len(malicious_log') =< MaxLines
      BY <2>5, <2>0 DEF OrphanWrites
    <3>2. QED
      BY <2>5, <3>1 DEF OrphanWrites, TypeOK
  <2>6. ASSUME NEW o \in orphans, OrphanFails(o)
        PROVE  TypeOK'
    BY <2>6 DEF OrphanFails, TypeOK
  <2>7. CASE ReadLine
    <3>1. Head(lines) \in Lines /\ Tail(lines) \in Seq(Lines)
            /\ Len(Tail(lines)) =< MaxLines
      BY <2>7, TailOfLines DEF ReadLine, TypeOK
    <3>2. Output \in SUBSET Pids
      BY DEF Output, TypeOK
    <3>3. Head(lines).reads \in Pids
      BY <2>7, <3>1 DEF ReadLine, Lines
    <3>4. QED
      BY <2>7, <3>1, <3>2, <3>3 DEF ReadLine, TypeOK
  <2>8. CASE UnreadableLine
    <3>1. Output \in SUBSET Pids
      BY DEF Output, TypeOK
    <3>2. QED
      BY <2>8, <3>1 DEF UnreadableLine, TypeOK
  <2>9. CASE EndOfLog
    BY <2>9 DEF EndOfLog, TypeOK
  <2>10. CASE PushBack
    <3>1. Head(results) \in SUBSET Pids /\ Tail(results) \in Seq(SUBSET Pids)
      BY <2>10 DEF PushBack, TypeOK
    <3>2. QED
      BY <2>10, <3>1 DEF PushBack, TypeOK
  <2>11. CASE SpofingScanner
    BY <2>11 DEF SpofingScanner, TypeOK
  <2>12. CASE Insert
    BY <2>12 DEF Insert, TypeOK
  <2>13. ASSUME NEW c \in Clients, Request(c) \/ CopyPackets(c) \/ CopySpofs(c)
         PROVE  TypeOK'
    BY <2>13 DEF Request, CopyPackets, CopySpofs, TypeOK
  <2>14. ASSUME NEW c \in Clients, ClearPackets(c) \/ ClearSpofs(c)
         PROVE  TypeOK'
    BY <2>14 DEF ClearPackets, ClearSpofs, TypeOK
  <2>15. ASSUME NEW c \in Clients, SendData(c) \/ ResponseLost(c)
         PROVE  TypeOK'
    <3>1. /\ owed' \in SUBSET Pids /\ excused' \in SUBSET Pids
          /\ spofOwed' \in SUBSET Ips /\ spofExcused' \in SUBSET Ips
      BY <2>15 DEF SendData, ResponseLost, TypeOK
    <3>2. Drop(c)
      BY <2>15 DEF SendData, ResponseLost
    <3>3. QED
      BY <3>1, <3>2 DEF Drop, TypeOK
  <2>16. CASE Crash
    <3>1. lines \in ListsOf(Lines)
      BY ListOfLines DEF TypeOK
    <3>2. orphans' \in SUBSET ListsOf(Lines)
      BY <2>16, <3>1 DEF Crash, TypeOK
    <3>3. /\ excused' \in SUBSET Pids /\ spofExcused' \in SUBSET Ips
          /\ UNCHANGED <<proc, malicious_log, owed, spofOwed>>
          /\ up' = FALSE /\ at' = "sleep" /\ lines' = <<>> /\ results' = <<>>
      BY <2>16 DEF Crash, TypeOK
    <3>4. /\ spofing' = NoSpofs /\ packets' = {} /\ spofs' = NoSpofs
          /\ pc' = [c \in Clients |-> "idle"]
          /\ packetsResp' = [c \in Clients |-> {}]
          /\ spofResp' = [c \in Clients |-> NoSpofs]
      BY <2>16 DEF Crash
    <3>5. /\ spofing' \in Spofs /\ spofs' \in Spofs
          /\ packets' \in SUBSET SUBSET Pids
          /\ packetsResp' \in [Clients -> SUBSET SUBSET Pids]
          /\ spofResp' \in [Clients -> Spofs]
      BY <3>4
    <3>6. /\ lines' \in Seq(Lines) /\ Len(lines') =< MaxLines
          /\ results' \in Seq(SUBSET Pids)
      BY <3>3
    <3>7. pc' \in [Clients -> {"idle", "packets", "spofs", "clear_packets",
                               "clear_spofs", "respond"}]
      BY <3>4
    <3>8. QED
      BY <3>2, <3>3, <3>4, <3>5, <3>6, <3>7 DEF TypeOK
  <2>17. CASE Restart
    BY <2>17 DEF Restart, TypeOK
  <2>18. ASSUME NEW p \in Pids, ProcessChanges(p)
         PROVE  TypeOK'
    <3>1. /\ malicious_log' \in Seq(Lines) /\ Len(malicious_log') =< MaxLines
          /\ lines' \in Seq(Lines) /\ Len(lines') =< MaxLines
          /\ lines = <<>> => lines' = <<>>
      BY <2>18, DoubtOfLines DEF ProcessChanges, TypeOK
    <3>2. orphans' \in SUBSET ListsOf(Lines)
      <4> SUFFICES ASSUME NEW o \in orphans PROVE Doubt(o, p) \in ListsOf(Lines)
        BY <2>18 DEF ProcessChanges
      <4>1. o \in Seq(Lines) /\ Len(o) =< MaxLines
        BY LinesInList DEF TypeOK
      <4>2. QED
        BY <4>1, DoubtOfLines, ListOfLines
    <3>3. QED
      BY <2>18, <3>1, <3>2 DEF ProcessChanges, TypeOK
  <2>19. CASE UNCHANGED vars
    BY <2>19 DEF vars, TypeOK
  <2>20. QED
    BY <2>1, <2>2, <2>3, <2>4, <2>5, <2>6, <2>7, <2>8, <2>9, <2>10, <2>11,
       <2>12, <2>13, <2>14, <2>15, <2>16, <2>17, <2>18, <2>19
    DEF Next, Periodic, ScanStep
<1>3. QED
  BY <1>1, <1>2, PTL DEF Spec

-----------------------------------------------------------------------------
(* Nothing found is lost but in the ways KillsAccounted and SpofsAccounted *)
(* name.                                                                   *)

\* What one more line does to the batch.
LEMMA BatchAppend ==
    ASSUME TypeOK, Cumulative, ReadLine
    PROVE  /\ Cumulative'
           /\ InHand \subseteq InHand'
           /\ Head(lines).reads \in InHand'
  <1> DEFINE p == Head(lines).reads
             e == Output \cup {p}
  <1>1. /\ results \in Seq(SUBSET Pids) /\ e \in SUBSET Pids
        /\ results' = Append(results, e)
    <2>1. Head(lines) \in Lines
      BY TailOfLines DEF TypeOK, ReadLine
    <2>2. Output \in SUBSET Pids
      BY DEF TypeOK, Output
    <2>3. QED
      BY <2>1, <2>2 DEF TypeOK, ReadLine, Lines
  <1>2. /\ Len(results') = Len(results) + 1
        /\ DOMAIN results' = DOMAIN results \cup {Len(results) + 1}
        /\ results'[Len(results) + 1] = e
        /\ \A k \in DOMAIN results : results'[k] = results[k]
    BY <1>1
  <1>3. Output' = e
    BY <1>1, <1>2 DEF Output
  <1>4. Cumulative'
    BY <1>2, <1>3 DEF Cumulative
  <1>5. InHand \subseteq InHand' /\ p \in InHand'
    BY <1>2 DEF InHand
  <1>6. QED
    BY <1>4, <1>5

\* What push_back of the first entry leaves in the batch.
LEMMA BatchTail ==
    ASSUME TypeOK, Cumulative, results # <<>>, results' = Tail(results)
    PROVE  /\ Cumulative'
           /\ InHand \subseteq Head(results) \cup InHand'
  <1>1. /\ results \in Seq(SUBSET Pids) /\ Len(results) \in Nat \ {0}
        /\ Len(results') = Len(results) - 1
        /\ \A k \in 1 .. Len(results) - 1 : results'[k] = results[k + 1]
        /\ DOMAIN results' = 1 .. Len(results) - 1
        /\ DOMAIN results = 1 .. Len(results)
        /\ Head(results) = results[1]
    BY DEF TypeOK
  <1>2. results' # <<>> => Output' = Output
    BY <1>1 DEF Output
  <1>3. Cumulative'
    <2> SUFFICES ASSUME NEW k \in DOMAIN results'
                 PROVE  results'[k] \subseteq Output'
      BY DEF Cumulative
    <2>1. k + 1 \in DOMAIN results /\ results'[k] = results[k + 1] /\ results' # <<>>
      BY <1>1
    <2>2. QED
      BY <2>1, <1>2 DEF Cumulative
  <1>4. ASSUME NEW k \in DOMAIN results, k # 1
        PROVE  results[k] \subseteq InHand'
    <2>1. k - 1 \in DOMAIN results' /\ results'[k - 1] = results[k]
      BY <1>1, <1>4
    <2>2. QED
      BY <2>1 DEF InHand
  <1>5. InHand \subseteq Head(results) \cup InHand'
    BY <1>1, <1>4 DEF InHand
  <1>6. QED
    BY <1>3, <1>5

\* A batch that an exception ends told of all its kills in its last entry.
LEMMA BatchInOutput ==
    ASSUME Cumulative PROVE InHand \subseteq Output
  BY DEF Cumulative, InHand

LEMMA EmptyBatch ==
    ASSUME results' = <<>> PROVE Cumulative'
  BY DEF Cumulative

LEMMA SameBatch ==
    ASSUME results' = results PROVE InHand' = InHand /\ (Cumulative => Cumulative')
  BY DEF InHand, Cumulative, Output

LEMMA EmptyUntilCopiedStep ==
    ASSUME TypeOK, EmptyUntilCopied, [Next]_vars
    PROVE  EmptyUntilCopied'
  <1> USE DEF TypeOK, EmptyUntilCopied, clients, Goto
  <1>1. CASE \/ Periodic \/ (\E p \in Pids : ProcessChanges(p)) \/ UNCHANGED vars
             \/ \E o \in orphans : OrphanWrites(o) \/ OrphanFails(o)
    BY <1>1
    DEF Periodic, IdentifyProcess, WriteLog, NetScannerFails, OpenLog, ReadLine,
        UnreadableLine, EndOfLog, PushBack, SpofingScanner, Insert, OrphanWrites,
        OrphanFails, ProcessChanges, vars
  <1>2. ASSUME NEW c \in Clients,
               \/ Request(c) \/ CopyPackets(c) \/ CopySpofs(c) \/ ClearPackets(c)
               \/ ClearSpofs(c)
        PROVE  EmptyUntilCopied'
    BY <1>2
    DEF Request, CopyPackets, CopySpofs, ClearPackets, ClearSpofs
  <1>3. ASSUME NEW c \in Clients, SendData(c) \/ ResponseLost(c)
        PROVE  EmptyUntilCopied'
    <2>1. Drop(c)
      BY <1>3 DEF SendData, ResponseLost
    <2>2. QED
      BY <2>1 DEF Drop
  <1>4. CASE Crash \/ Restart
    BY <1>4 DEF Crash, Restart
  <1>5. QED
    BY <1>1, <1>2, <1>3, <1>4 DEF Next, ScanStep

LEMMA KillsStep ==
    ASSUME TypeOK, KillsInv, [Next]_vars
    PROVE  KillsInv'
  <1> EmptyUntilCopied'
    BY EmptyUntilCopiedStep DEF KillsInv
  <1> USE DEF KillsInv, KillsAccounted, Named, found, stores, clients, netHistory,
              Goto
  <1>1. CASE \/ IdentifyProcess \/ WriteLog \/ NetScannerFails \/ OpenLog
             \/ EndOfLog \/ SpofingScanner \/ Insert \/ Restart
             \/ (\E o \in orphans : OrphanWrites(o) \/ OrphanFails(o))
             \/ (\E p \in Pids : ProcessChanges(p)) \/ UNCHANGED vars
    <2>1. UNCHANGED <<results, packets, pc, packetsResp, owed, excused>>
      BY <1>1 DEF IdentifyProcess, WriteLog, NetScannerFails, OpenLog, EndOfLog,
                  SpofingScanner, Insert, Restart, OrphanWrites, OrphanFails,
                  ProcessChanges, vars
    <2>2. InHand' = InHand /\ Cumulative'
      BY <2>1, SameBatch
    <2>3. QED
      BY <2>1, <2>2 DEF PacketsWindow, Copied
  <1>2. CASE ReadLine
    <2>1. UNCHANGED <<packets, pc, packetsResp, excused>>
          /\ owed' = owed \cup {Head(lines).reads}
      BY <1>2 DEF ReadLine
    <2>2. QED
      BY <1>2, <2>1, BatchAppend DEF PacketsWindow, Copied
  <1>3. CASE UnreadableLine
    <2>1. UNCHANGED <<packets, pc, packetsResp, owed>> /\ results' = <<>>
          /\ excused' = excused \cup Output
      BY <1>3 DEF UnreadableLine
    <2>2. InHand \subseteq Output /\ Cumulative'
      BY <2>1, BatchInOutput, EmptyBatch
    <2>3. QED
      BY <2>1, <2>2 DEF PacketsWindow, Copied
  <1>4. CASE PushBack
    <2>1. /\ UNCHANGED <<pc, packetsResp, owed>>
          /\ results # <<>> /\ results' = Tail(results)
          /\ packets' = packets \cup {Head(results)}
          /\ excused' = IF PacketsWindow = {} THEN excused \ Head(results)
                                             ELSE excused \cup Head(results)
      BY <1>4 DEF PushBack
    <2>2. InHand \subseteq Head(results) \cup InHand' /\ Cumulative'
      BY <2>1, BatchTail
    <2>3. Named(packets') = Named(packets) \cup Head(results)
      BY <2>1
    <2>4. Copied' = Copied /\ PacketsWindow' = PacketsWindow
      BY <2>1 DEF Copied, PacketsWindow
    <2>5. QED
      BY <2>1, <2>2, <2>3, <2>4
  <1>5. ASSUME NEW c \in Clients, Request(c) \/ CopySpofs(c) \/ ClearSpofs(c)
        PROVE  KillsInv'
    <2>1. UNCHANGED <<results, packets, packetsResp, owed, excused>>
          /\ PacketsWindow' \subseteq PacketsWindow
      BY <1>5 DEF Request, CopySpofs, ClearSpofs, PacketsWindow, TypeOK
    <2>2. InHand' = InHand /\ Cumulative' /\ Copied' = Copied
      BY <2>1, SameBatch DEF Copied
    <2>3. QED
      BY <2>1, <2>2
  <1>6. ASSUME NEW c \in Clients, CopyPackets(c)
        PROVE  KillsInv'
    <2>1. /\ UNCHANGED <<results, packets, owed, excused>>
          /\ packetsResp' = [packetsResp EXCEPT ![c] = packets]
          /\ pc[c] = "packets" /\ pc' = [pc EXCEPT ![c] = "spofs"]
      BY <1>6 DEF CopyPackets
    <2>2. InHand' = InHand /\ Cumulative'
      BY <2>1, SameBatch
    <2>3. PacketsWindow' \subseteq PacketsWindow \cup {c}
      BY <2>1 DEF PacketsWindow, TypeOK
    <2>4. /\ packetsResp'[c] = packets /\ packetsResp[c] = {}
          /\ \A d \in Clients \ {c} : packetsResp'[d] = packetsResp[d]
      BY <2>1 DEF EmptyUntilCopied, TypeOK
    <2>5. Copied \subseteq Copied'
      BY <2>4 DEF Copied
    <2>6. QED
      BY <2>1, <2>2, <2>3, <2>4, <2>5
  <1>7. ASSUME NEW c \in Clients, ClearPackets(c)
        PROVE  KillsInv'
    <2>1. /\ UNCHANGED <<results, packetsResp, owed, excused>>
          /\ packets' = {}
          /\ pc[c] = "clear_packets" /\ pc' = [pc EXCEPT ![c] = "clear_spofs"]
      BY <1>7 DEF ClearPackets
    <2>2. InHand' = InHand /\ Cumulative' /\ Copied' = Copied
      BY <2>1, SameBatch DEF Copied
    <2>3. Named(packets) \subseteq Copied \cup excused
      BY <2>1 DEF PacketsWindow, Copied
    <2>4. QED
      BY <2>1, <2>2, <2>3
  <1>8. ASSUME NEW c \in Clients, SendData(c) \/ ResponseLost(c)
        PROVE  KillsInv'
    <2>1. /\ UNCHANGED <<results, packets>>
          /\ packetsResp' = [packetsResp EXCEPT ![c] = {}]
          /\ pc[c] = "respond" /\ pc' = [pc EXCEPT ![c] = "idle"]
      BY <1>8 DEF SendData, ResponseLost, Drop
    <2>2. \/ owed' = owed \ Named(packetsResp[c]) /\ excused' = excused
          \/ owed' = owed /\ excused' = excused \cup Named(packetsResp[c])
      BY <1>8 DEF SendData, ResponseLost
    <2>3. InHand' = InHand /\ Cumulative'
      BY <2>1, SameBatch
    <2>4. \A d \in Clients \ {c} : packetsResp'[d] = packetsResp[d]
      BY <2>1 DEF TypeOK
    <2>5. Copied \subseteq Copied' \cup Named(packetsResp[c])
      BY <2>4 DEF Copied
    <2>6. PacketsWindow' \subseteq PacketsWindow \ {c}
      BY <2>1 DEF PacketsWindow, TypeOK
    <2>7. QED
      BY <2>1, <2>2, <2>3, <2>4, <2>5, <2>6
  <1>9. CASE Crash
    <2>1. /\ owed \subseteq excused' /\ owed' = owed /\ results' = <<>>
          /\ pc' = [c \in Clients |-> "idle"]
      BY <1>9 DEF Crash
    <2>2. PacketsWindow' = {}
      BY <2>1 DEF PacketsWindow
    <2>3. QED
      BY <2>1, <2>2, EmptyBatch
  <1>10. QED
    BY <1>1, <1>2, <1>3, <1>4, <1>5, <1>6, <1>7, <1>8, <1>9
    DEF Next, Periodic, ScanStep

\* For any clients, processes and logs: a process found by the network scan goes
\* unreported only if an exception, a crash, a scan's copy-and-clear or a client
\* that did not get its response came in between.
THEOREM KillsAreAccounted == Spec => []KillsAccounted
<1>1. Init => KillsInv
  BY DEF Init, KillsInv, KillsAccounted, Cumulative, EmptyUntilCopied,
         PacketsWindow
<1>2. TypeOK /\ KillsInv /\ [Next]_vars => KillsInv'
  BY KillsStep
<1>3. KillsInv => KillsAccounted
  BY DEF KillsInv
<1>4. QED
  BY NetTypeCorrect, <1>1, <1>2, <1>3, PTL DEF Spec

LEMMA SpofsStep ==
    ASSUME TypeOK, SpofsInv, [Next]_vars
    PROVE  SpofsInv'
  <1> EmptyUntilCopied'
    BY EmptyUntilCopiedStep DEF SpofsInv
  <1> USE DEF SpofsInv, SpofsAccounted, SpofInHand, Listed, found, stores, clients,
              spofHistory, Goto
  <1>1. CASE \/ IdentifyProcess \/ WriteLog \/ NetScannerFails \/ OpenLog
             \/ ReadLine \/ UnreadableLine \/ EndOfLog \/ PushBack \/ Restart
             \/ (\E o \in orphans : OrphanWrites(o) \/ OrphanFails(o))
             \/ (\E p \in Pids : ProcessChanges(p)) \/ UNCHANGED vars
    <2>1. UNCHANGED <<spofing, spofs, pc, spofResp, spofOwed, spofExcused>>
      BY <1>1 DEF IdentifyProcess, WriteLog, NetScannerFails, OpenLog, ReadLine,
                  UnreadableLine, EndOfLog, PushBack, Restart, OrphanWrites,
                  OrphanFails, ProcessChanges, vars
    <2>2. QED
      BY <2>1 DEF SpofWindow, SpofCopied
  <1>2. CASE SpofingScanner
    <2>1. /\ UNCHANGED <<spofs, pc, spofResp, spofExcused>>
          /\ Listed(spofing) = {}
          /\ spofOwed' = spofOwed \cup Listed(spofing')
      BY <1>2 DEF SpofingScanner, TypeOK, NoSpofs
    <2>2. QED
      BY <2>1 DEF SpofWindow, SpofCopied
  <1>3. CASE Insert
    <2>1. /\ UNCHANGED <<pc, spofResp, spofOwed>>
          /\ spofs' = [i \in Ips |-> IF spofs[i] # None THEN spofs[i]
                                                       ELSE spofing[i]]
          /\ spofExcused' = IF SpofWindow = {}
                            THEN spofExcused \ Listed(spofing)
                            ELSE spofExcused \cup Listed(spofing)
      BY <1>3 DEF Insert
    <2>2. Listed(spofs') = Listed(spofs) \cup Listed(spofing)
      BY <2>1
    <2>3. SpofCopied' = SpofCopied /\ SpofWindow' = SpofWindow
      BY <2>1 DEF SpofCopied, SpofWindow
    <2>4. SpofsAccounted'
      BY <2>1, <2>2, <2>3
    <2>5. \A c \in SpofWindow' :
              Listed(spofs') \subseteq Listed(spofResp'[c]) \cup spofExcused'
      BY <2>1, <2>2, <2>3
    <2>6. QED
      BY <2>4, <2>5
  <1>4. ASSUME NEW c \in Clients, Request(c) \/ CopyPackets(c) \/ ClearPackets(c)
        PROVE  SpofsInv'
    <2>1. /\ UNCHANGED <<spofing, spofs, spofResp, spofOwed, spofExcused>>
          /\ SpofWindow' \subseteq SpofWindow
      BY <1>4 DEF Request, CopyPackets, ClearPackets, SpofWindow, TypeOK
    <2>2. QED
      BY <2>1 DEF SpofCopied
  <1>5. ASSUME NEW c \in Clients, CopySpofs(c)
        PROVE  SpofsInv'
    <2>1. /\ UNCHANGED <<spofing, spofs, spofOwed, spofExcused>>
          /\ spofResp' = [spofResp EXCEPT ![c] = spofs]
          /\ pc[c] = "spofs" /\ pc' = [pc EXCEPT ![c] = "clear_packets"]
      BY <1>5 DEF CopySpofs
    <2>2. SpofWindow' \subseteq SpofWindow \cup {c}
      BY <2>1 DEF SpofWindow, TypeOK
    <2>3. /\ spofResp'[c] = spofs /\ spofResp[c] = NoSpofs
          /\ \A d \in Clients \ {c} : spofResp'[d] = spofResp[d]
      BY <2>1 DEF EmptyUntilCopied, TypeOK
    <2>4. Listed(spofResp[c]) = {}
      BY <2>3 DEF NoSpofs
    <2>5. SpofCopied \subseteq SpofCopied'
      BY <2>3, <2>4 DEF SpofCopied
    <2>6. QED
      BY <2>1, <2>2, <2>3, <2>5
  <1>6. ASSUME NEW c \in Clients, ClearSpofs(c)
        PROVE  SpofsInv'
    <2>1. /\ UNCHANGED <<spofing, spofResp, spofOwed, spofExcused>>
          /\ spofs' = NoSpofs
          /\ pc[c] = "clear_spofs" /\ pc' = [pc EXCEPT ![c] = "respond"]
      BY <1>6 DEF ClearSpofs
    <2>2. SpofCopied' = SpofCopied
      BY <2>1 DEF SpofCopied
    <2>3. Listed(spofs) \subseteq SpofCopied \cup spofExcused
      BY <2>1 DEF SpofWindow, SpofCopied
    <2>4. Listed(spofs') = {}
      BY <2>1 DEF NoSpofs
    <2>5. SpofsAccounted'
      BY <2>1, <2>2, <2>3
    <2>6. QED
      BY <2>1, <2>4, <2>5
  <1>7. ASSUME NEW c \in Clients, SendData(c) \/ ResponseLost(c)
        PROVE  SpofsInv'
    <2>1. /\ UNCHANGED <<spofing, spofs>>
          /\ spofResp' = [spofResp EXCEPT ![c] = NoSpofs]
          /\ pc[c] = "respond" /\ pc' = [pc EXCEPT ![c] = "idle"]
      BY <1>7 DEF SendData, ResponseLost, Drop
    <2>2. \/ /\ spofOwed' = spofOwed \ Listed(spofResp[c])
             /\ spofExcused' = spofExcused
          \/ /\ spofOwed' = spofOwed
             /\ spofExcused' = spofExcused \cup Listed(spofResp[c])
      BY <1>7 DEF SendData, ResponseLost
    <2>3. \A d \in Clients \ {c} : spofResp'[d] = spofResp[d]
      BY <2>1 DEF TypeOK
    <2>4. SpofCopied \subseteq SpofCopied' \cup Listed(spofResp[c])
      BY <2>3 DEF SpofCopied
    <2>5. SpofWindow' \subseteq SpofWindow \ {c}
      BY <2>1 DEF SpofWindow, TypeOK
    <2>6. QED
      BY <2>1, <2>2, <2>3, <2>4, <2>5
  <1>8. CASE Crash
    <2>1. /\ spofOwed \subseteq spofExcused' /\ spofOwed' = spofOwed
          /\ pc' = [c \in Clients |-> "idle"]
      BY <1>8 DEF Crash
    <2>2. SpofWindow' = {}
      BY <2>1 DEF SpofWindow
    <2>3. QED
      BY <2>1, <2>2
  <1>9. QED
    BY <1>1, <1>2, <1>3, <1>4, <1>5, <1>6, <1>7, <1>8 DEF Next, Periodic, ScanStep

\* An address that tried to spoof goes unreported in the same ways only.
THEOREM SpofsAreAccounted == Spec => []SpofsAccounted
<1>1. Init => SpofsInv
  BY DEF Init, SpofsInv, SpofsAccounted, EmptyUntilCopied, SpofWindow
<1>2. TypeOK /\ SpofsInv /\ [Next]_vars => SpofsInv'
  BY SpofsStep
<1>3. SpofsInv => SpofsAccounted
  BY DEF SpofsInv
<1>4. QED
  BY NetTypeCorrect, <1>1, <1>2, <1>3, PTL DEF Spec

-----------------------------------------------------------------------------
(* What may be killed.                                                     *)

\* The lists of LogInv after each kind of step.
LEMMA SoundTail ==
    ASSUME NEW l \in Seq(Lines), l # <<>>, Len(l) =< MaxLines, Sound(l)
    PROVE  Sound(Tail(l))
  BY TailOfLines DEF Sound

LEMMA SoundMixtures ==
    ASSUME NEW s \in Seq(Lines), NEW t \in Seq(Lines), Sound(s), Sound(t),
           NEW l \in Mixtures(s, t)
    PROVE  Sound(l)
  <1> SUFFICES ASSUME NEW k \in DOMAIN l
               PROVE  l[k].doubt \/ proc[l[k].pid] \in {"bad", "none"}
    BY DEF Sound
  <1>1. \E m \in {s[i] : i \in DOMAIN s} \cup {t[i] : i \in DOMAIN t} :
            l[k].pid = m.pid /\ l[k].doubt = m.doubt
    BY LinesInList DEF Mixtures
  <1>2. QED
    BY <1>1 DEF Sound

\* A kill keeps every list sound: who was bad is dead now.
LEMMA SoundAfterKill ==
    ASSUME NEW l \in Seq(Lines), Sound(l), proc \in [Pids -> {"none", "good", "bad"}],
           NEW p \in Pids, proc' \in {proc, [proc EXCEPT ![p] = "none"]}
    PROVE  \A k \in DOMAIN l : l[k].doubt \/ proc'[l[k].pid] \in {"bad", "none"}
  <1>1. \A q \in Pids : proc'[q] \in {proc[q], "none"}
    OBVIOUS
  <1>2. \A k \in DOMAIN l : l[k].pid \in Pids
    <2>1. \A k \in DOMAIN l : l[k] \in Lines
      OBVIOUS
    <2>2. QED
      BY <2>1 DEF Lines
  <1>3. QED
    BY <1>1, <1>2 DEF Sound

\* A process that changes puts the lines about it in doubt.
LEMMA SoundAfterChange ==
    ASSUME NEW l \in Seq(Lines), Sound(l), NEW p \in Pids, NEW procNext,
           \A q \in Pids \ {p} : procNext[q] = proc[q]
    PROVE  \A k \in DOMAIN Doubt(l, p) :
                \/ Doubt(l, p)[k].doubt
                \/ procNext[Doubt(l, p)[k].pid] \in {"bad", "none"}
  <1>1. \A k \in DOMAIN l : l[k].pid \in Pids
    <2>1. \A k \in DOMAIN l : l[k] \in Lines
      OBVIOUS
    <2>2. QED
      BY <2>1 DEF Lines
  <1>2. QED
    BY <1>1, DoubtOfLines DEF Sound

LEMMA LogStep ==
    ASSUME TypeOK, LogInv, [Next]_vars
    PROVE  LogInv'
  <1> USE DEF LogInv
  <1>0. /\ malicious_log \in Seq(Lines) /\ lines \in Seq(Lines) /\ Len(lines) =< MaxLines
        /\ proc \in [Pids -> {"none", "good", "bad"}]
        /\ \A o \in orphans : o \in Seq(Lines)
    BY LinesInList DEF TypeOK
  <1>1. CASE IdentifyProcess
    <2>1. \A k \in DOMAIN lines' : Rightly(lines'[k]) \/ Wrongly(lines'[k])
      BY <1>1, LinesInList DEF IdentifyProcess
    <2>2. UNCHANGED <<proc, malicious_log, orphans>>
      BY <1>1 DEF IdentifyProcess
    <2>3. QED
      BY <2>1, <2>2 DEF Rightly, Wrongly, Sound
  <1>2. CASE WriteLog
    <2>1. UNCHANGED <<proc, orphans>> /\ lines' = <<>>
      BY <1>2 DEF WriteLog
    <2>2. Sound(malicious_log')
      BY <1>0, <1>2, SoundMixtures DEF WriteLog
    <2>3. QED
      BY <2>1, <2>2 DEF Sound
  <1>3. ASSUME NEW o \in orphans, OrphanWrites(o)
        PROVE  LogInv'
    <2>1. UNCHANGED <<proc, lines>> /\ orphans' \subseteq orphans
      BY <1>3 DEF OrphanWrites
    <2>2. Sound(malicious_log')
      BY <1>0, <1>3, SoundMixtures DEF OrphanWrites
    <2>3. QED
      BY <2>1, <2>2 DEF Sound
  <1>4. CASE NetScannerFails \/ OpenLog \/ UnreadableLine
    BY <1>4 DEF NetScannerFails, OpenLog, UnreadableLine, Sound
  <1>5. ASSUME NEW o \in orphans, OrphanFails(o)
        PROVE  LogInv'
    BY <1>5 DEF OrphanFails, Sound
  <1>6. CASE ReadLine
    <2>1. PICK p \in Pids : proc' \in {proc, [proc EXCEPT ![p] = "none"]}
      <3>1. Head(lines) \in Lines
        BY <1>0, <1>6, TailOfLines DEF ReadLine
      <3>2. QED
        BY <1>6, <3>1 DEF ReadLine, Lines
    <2>2. UNCHANGED <<malicious_log, orphans>> /\ lines' = Tail(lines)
          /\ lines # <<>>
      BY <1>6 DEF ReadLine
    <2>3. Tail(lines) \in Seq(Lines) /\ Sound(Tail(lines))
      BY <1>0, <2>2, TailOfLines, SoundTail
    <2>4. QED
      BY <1>0, <2>1, <2>2, <2>3, SoundAfterKill DEF Sound
  <1>7. ASSUME NEW p \in Pids, ProcessChanges(p)
        PROVE  LogInv'
    <2>1. /\ malicious_log' = Doubt(malicious_log, p)
          /\ lines' = Doubt(lines, p)
          /\ orphans' = {Doubt(o, p) : o \in orphans}
          /\ \A q \in Pids \ {p} : proc'[q] = proc[q]
      BY <1>0, <1>7 DEF ProcessChanges
    <2>2. QED
      BY <1>0, <2>1, SoundAfterChange DEF Sound
  <1>8. CASE EndOfLog \/ PushBack \/ SpofingScanner \/ Insert \/ Restart
              \/ UNCHANGED vars
    BY <1>8 DEF EndOfLog, PushBack, SpofingScanner, Insert, Restart, vars, scripts,
                Sound
  <1>9. CASE Crash
    BY <1>9 DEF Crash, Sound
  <1>10. ASSUME NEW c \in Clients, Request(c) \/ ScanStep(c)
         PROVE  LogInv'
    BY <1>10 DEF Request, ScanStep, CopyPackets, CopySpofs, ClearPackets, ClearSpofs,
                 SendData, ResponseLost, Drop, scripts, Sound
  <1>11. QED
    BY <1>1, <1>2, <1>3, <1>4, <1>5, <1>6, <1>7, <1>8, <1>9, <1>10
    DEF Next, Periodic

LEMMA KillStep ==
    ASSUME TypeOK, LogInv, [Next]_vars, results' # results,
           NEW p \in Pids, proc'[p] # proc[p], proc[p] # "bad"
    PROVE  Head(lines).doubt \/ Head(lines).reads # Head(lines).pid
  <1>1. CASE ReadLine
    <2>1. Head(lines) = lines[1] /\ 1 \in DOMAIN lines
      BY <1>1, TailOfLines DEF ReadLine, TypeOK
    <2>2. p = Head(lines).reads /\ proc[p] # "none"
      BY <1>1 DEF ReadLine, TypeOK
    <2>3. Head(lines).doubt \/ proc[Head(lines).pid] \in {"bad", "none"}
      BY <2>1 DEF LogInv, Sound
    <2>4. QED
      BY <2>2, <2>3
  <1>2. CASE \/ IdentifyProcess \/ WriteLog \/ NetScannerFails \/ OpenLog
             \/ UnreadableLine \/ EndOfLog \/ PushBack \/ SpofingScanner
             \/ Insert \/ Crash \/ Restart \/ UNCHANGED vars
    BY <1>2 DEF IdentifyProcess, WriteLog, NetScannerFails, OpenLog, UnreadableLine,
                EndOfLog, PushBack, SpofingScanner, Insert, Crash, Restart, vars
  <1>3. CASE \/ \E q \in Pids : ProcessChanges(q)
             \/ \E o \in orphans : OrphanWrites(o) \/ OrphanFails(o)
             \/ \E c \in Clients : Request(c) \/ ScanStep(c)
    BY <1>3 DEF ProcessChanges, OrphanWrites, OrphanFails, Request, ScanStep,
                CopyPackets, CopySpofs, ClearPackets, ClearSpofs, SendData,
                ResponseLost, Drop, found
  <1>4. QED
    BY <1>1, <1>2, <1>3 DEF Next, Periodic

\* Whatever the logs, the pids, the scripts of dead backends and the failures: a
\* process that does not talk to a malicious address is killed only by a line
\* whose pid has changed hands or habits since it was looked at, or about which
\* the server was wrong, or that is read as another number than was written.
THEOREM KillsAreOfTheSeen == Spec => KillsWhatItSaw
<1>1. Init => LogInv
  BY DEF Init, LogInv, Sound
<1>2. TypeOK /\ LogInv /\ [Next]_vars => LogInv'
  BY LogStep
<1>3. TypeOK /\ LogInv /\ [Next]_vars =>
        [results' # results =>
            \A p \in Pids : proc'[p] # proc[p] =>
                \/ proc[p] = "bad"
                \/ Head(lines).doubt
                \/ Head(lines).reads # Head(lines).pid]_vars
  BY KillStep
<1>4. QED
  BY NetTypeCorrect, <1>1, <1>2, <1>3, PTL DEF Spec, KillsWhatItSaw
=============================================================================
