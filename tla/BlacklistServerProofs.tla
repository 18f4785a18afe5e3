----------------------- MODULE BlacklistServerProofs -----------------------
(***************************************************************************)
(* Proofs about BlacklistServer, for any updaters, addresses, hashes,      *)
(* lists and requests.                                                     *)
(***************************************************************************)
EXTENDS BlacklistServer, SequenceTheorems, FiniteSetTheorems, TLAPS

\* The updaters: lines in hand only while one goes through a list, and the line
\* found to be missing is one of them.
UpdatersTyped ==
    /\ updater \in [Updaters ->
            [at : {"none", "idle", "getIps", "ips", "getHashes", "hashes", "dead"},
             todo : SUBSET Keys, missing : Keys \cup {None}]]
    /\ lock \in {None} \cup {u \in Updaters : updater[u].missing # None}
    /\ \A u \in Updaters :
        /\ updater[u].todo # {} => updater[u].at \in {"ips", "hashes"}
        /\ updater[u].missing # None => updater[u].missing \in updater[u].todo

\* The requests: an addition is of one key.
Requested == [op : {"none", "scan", "save"}, keys : Seq(Keys), answers : Seq(BOOLEAN),
              before : SUBSET Texts, torn : SUBSET Nat]
Proper(r) == /\ Len(r.answers) <= Len(r.keys)
             /\ r.torn \subseteq 1 .. Len(r.answers)
             /\ r.op = "save" => Len(r.keys) = 1
RequestsTyped ==
    /\ request \in [Connections -> Requested]
    /\ \A c \in Connections : Proper(request[c])

\* The tables and the counters.
TablesTyped ==
    /\ up \in BOOLEAN
    /\ rows \in [Texts -> Nat] /\ told \in [Texts -> Nat]
    /\ list \in Lists \cup {{}}
    /\ night \in 0 .. MaxEvents /\ asks \in 0 .. MaxEvents /\ faults \in 0 .. MaxEvents

TypeInv == UpdatersTyped /\ RequestsTyped /\ TablesTyped

LEMMA AsksTyped ==
    ASSUME NEW r \in Asks
    PROVE  /\ r.op \in {"scan", "save"}
           /\ r.keys \in Seq(Keys)
           /\ r.op = "save" => Len(r.keys) = 1
  <1>1. CASE r \in [op : {"scan"}, keys : {<<i>> : i \in Ips} \cup Seq(Hashes)]
    <2>1. r.keys \in {<<i>> : i \in Ips} \cup Seq(Hashes)
      BY <1>1
    <2>2. CASE r.keys \in Seq(Hashes)
      BY <1>1, <2>2 DEF Keys
    <2>3. ASSUME NEW i \in Ips, r.keys = <<i>> PROVE r.keys \in Seq(Keys)
      BY <2>3 DEF Keys
    <2>4. QED
      BY <1>1, <2>1, <2>2, <2>3
  <1>2. CASE r \in [op : {"save"}, keys : {<<key>> : key \in Keys}]
    <2>1. PICK key \in Keys : r.keys = <<key>>
      BY <1>2
    <2>2. QED
      BY <1>2, <2>1
  <1>3. QED
    BY <1>1, <1>2, BlacklistAssumption DEF Keys

LEMMA KeysTyped == None \notin Keys /\ None \notin Updaters
  BY BlacklistAssumption DEF Keys

LEMMA TextsTyped ==
    ASSUME NEW key \in Keys
    PROVE  Plain(key) \in Texts /\ Line(key) \in Texts
  BY DEF Texts

\* What an action does to the requests is one of these.
LEMMA OneRequest ==
    ASSUME RequestsTyped, NEW c \in Connections, NEW r \in Requested, Proper(r),
           request' = [request EXCEPT ![c] = r]
    PROVE  RequestsTyped'
  <1>1. \A d \in Connections : request'[d] = IF d = c THEN r ELSE request[d]
    BY DEF RequestsTyped
  <1>2. request' \in [Connections -> Requested]
    BY DEF RequestsTyped
  <1>3. QED
    BY <1>1, <1>2 DEF RequestsTyped

LEMMA NoRequestProper == NoRequest \in Requested /\ Proper(NoRequest)
  BY DEF NoRequest, Requested, Proper

LEMMA UpdatersStep ==
    ASSUME TypeInv, [Next]_vars
    PROVE  UpdatersTyped'
  <1> USE KeysTyped DEF TypeInv, UpdatersTyped
  <1>1. CASE StartServer \/ BindFails
    <2>1. CASE UNCHANGED updater
      BY <1>1, <2>1 DEF StartServer, BindFails
    <2>2. ASSUME NEW u \in Updaters, updater[u].at = "none",
                 updater' = [updater EXCEPT ![u].at = "idle"]
          PROVE  UpdatersTyped'
      BY <1>1, <2>2 DEF StartServer, BindFails
    <2>3. QED
      BY <1>1, <2>1, <2>2 DEF StartServer, BindFails, StartUpdater
  <1>2. CASE Midnight
    <2>1. \A u \in Updaters : updater'[u] =
            IF updater[u].at = "idle" THEN [at |-> "getIps", todo |-> {}, missing |-> None]
                                      ELSE updater[u]
      <3>1. [NoUpdater EXCEPT !.at = "getIps"]
                = [at |-> "getIps", todo |-> {}, missing |-> None]
        BY DEF NoUpdater
      <3>2. QED
        BY <1>2, <3>1 DEF Midnight
    <2>2. updater' \in [Updaters ->
            [at : {"none", "idle", "getIps", "ips", "getHashes", "hashes", "dead"},
             todo : SUBSET Keys, missing : Keys \cup {None}]]
      BY <1>2 DEF Midnight, NoUpdater
    <2>3. lock' = lock
      BY <1>2 DEF Midnight
    <2>4. lock \in Updaters => updater[lock].at \in {"ips", "hashes"}
      OBVIOUS
    <2>5. QED
      BY <2>1, <2>2, <2>3, <2>4
  <1>3. ASSUME NEW u \in Updaters, Download(u) PROVE UpdatersTyped'
    BY <1>3 DEF Download, Keys
  <1>4. ASSUME NEW u \in Updaters, LookUpLine(u) PROVE UpdatersTyped'
    BY <1>4 DEF LookUpLine
  <1>5. ASSUME NEW u \in Updaters, BeginInsert(u) PROVE UpdatersTyped'
    BY <1>5 DEF BeginInsert
  <1>6. ASSUME NEW u \in Updaters, EndInsert(u) PROVE UpdatersTyped'
    BY <1>6 DEF EndInsert
  <1>7. ASSUME NEW u \in Updaters, EndOfList(u) PROVE UpdatersTyped'
    BY <1>7 DEF EndOfList
  <1>8. ASSUME NEW u \in Updaters, Die(u) PROVE UpdatersTyped'
    BY <1>8 DEF Die, NoUpdater
  <1>9. CASE UNCHANGED <<updater, lock>>
    BY <1>9
  <1>10. QED
    BY <1>1, <1>2, <1>3, <1>4, <1>5, <1>6, <1>7, <1>8, <1>9
    DEF Next, Task, NothingLeft, vars, ServerDies, Request, Lookup, Save, Answer

LEMMA RequestsStep ==
    ASSUME TypeInv, [Next]_vars
    PROVE  RequestsTyped'
  <1> USE DEF TypeInv
  <1>1. CASE ServerDies
    BY <1>1, NoRequestProper DEF ServerDies, RequestsTyped
  <1>2. ASSUME NEW c \in Connections, Request(c) PROVE RequestsTyped'
    <2>1. PICK r \in Asks : request' = [request EXCEPT ![c] =
            [op |-> r.op, keys |-> r.keys, answers |-> <<>>, before |-> Stored, torn |-> {}]]
      BY <1>2 DEF Request
    <2> DEFINE new == [op |-> r.op, keys |-> r.keys, answers |-> <<>>,
                       before |-> Stored, torn |-> {}]
    <2>2. Stored \in SUBSET Texts
      BY DEF Stored
    <2>3. /\ r.op \in {"scan", "save"} /\ r.keys \in Seq(Keys)
          /\ r.op = "save" => Len(r.keys) = 1
      BY AsksTyped
    <2>4. new \in Requested
      BY <2>2, <2>3 DEF Requested
    <2>5. Proper(new)
      BY <2>3 DEF Proper
    <2>6. QED
      BY <2>1, <2>4, <2>5, OneRequest
  <1>3. ASSUME NEW c \in Connections, Lookup(c) PROVE RequestsTyped'
    <2> DEFINE r == request[c]
               k == Len(r.answers) + 1
    <2>1. r \in Requested /\ Proper(r)
      BY <1>3 DEF RequestsTyped
    <2>2. PICK answer \in BOOLEAN : request' = [request EXCEPT
                ![c].answers = Append(@, answer),
                ![c].torn = IF lock = None THEN @ ELSE @ \cup {k}]
      <3>1. (rows[Plain(r.keys[k])] >= 1) \in BOOLEAN
        OBVIOUS
      <3>2. QED
        BY <1>3, <3>1 DEF Lookup, IsMalicious
    <2> DEFINE new == [r EXCEPT !.answers = Append(@, answer),
                                !.torn = IF lock = None THEN @ ELSE @ \cup {k}]
    <2>3. request' = [request EXCEPT ![c] = new]
      BY <2>2, <1>3 DEF RequestsTyped
    <2>4. /\ new.op = r.op /\ new.keys = r.keys /\ new.before = r.before
          /\ new.answers = Append(r.answers, answer)
          /\ new.torn = (IF lock = None THEN r.torn ELSE r.torn \cup {k})
      BY <2>1 DEF Requested
    <2>5. /\ Append(r.answers, answer) \in Seq(BOOLEAN)
          /\ Len(Append(r.answers, answer)) = k
          /\ k \in Nat /\ Len(r.keys) \in Nat /\ Len(r.answers) \in Nat
      BY <2>1 DEF Requested
    <2>6. k =< Len(r.keys)
      BY <1>3 DEF Lookup
    <2>7. Proper(new)
      BY <2>1, <2>4, <2>5, <2>6 DEF Proper
    <2>8. new \in Requested
      BY <2>1, <2>4, <2>5 DEF Requested
    <2>9. QED
      BY <2>3, <2>7, <2>8, OneRequest
  <1>4. ASSUME NEW c \in Connections, Save(c) PROVE RequestsTyped'
    <2> DEFINE r == request[c]
    <2>1. r \in Requested /\ Proper(r) /\ r.op = "save" /\ r.answers = <<>>
      BY <1>4 DEF RequestsTyped, Save
    <2>2. PICK isWorked \in BOOLEAN :
            request' = [request EXCEPT ![c].answers = <<isWorked>>]
      BY <1>4 DEF Save
    <2> DEFINE new == [r EXCEPT !.answers = <<isWorked>>]
    <2>3. request' = [request EXCEPT ![c] = new]
      BY <2>2
    <2>4. <<isWorked>> \in Seq(BOOLEAN) /\ Len(<<isWorked>>) = 1
      OBVIOUS
    <2>5. new \in Requested
      BY <2>1, <2>4 DEF Requested
    <2>6. /\ new.answers = <<isWorked>> /\ new.keys = r.keys
          /\ new.op = r.op /\ new.torn = r.torn
      BY <2>1 DEF Requested
    <2>7. Proper(new)
      <3>1. Len(r.keys) = 1 /\ r.torn = {}
        BY <2>1 DEF Proper
      <3>2. QED
        BY <2>1, <2>4, <2>6, <3>1 DEF Proper
    <2>8. QED
      BY <2>3, <2>5, <2>7, OneRequest
  <1>5. ASSUME NEW c \in Connections, Answer(c) PROVE RequestsTyped'
    BY <1>5, NoRequestProper, OneRequest DEF Answer
  <1>6. CASE UNCHANGED request
    BY <1>6 DEF RequestsTyped
  <1>7. QED
    BY <1>1, <1>2, <1>3, <1>4, <1>5, <1>6
    DEF Next, Task, NothingLeft, vars, StartServer, BindFails, Midnight, Download,
        LookUpLine, BeginInsert, EndInsert, EndOfList, Die

LEMMA TablesStep ==
    ASSUME TypeInv, [Next]_vars
    PROVE  TablesTyped'
  <1> USE DEF TypeInv, TablesTyped
  <1>1. MaxEvents \in Nat
    BY BlacklistAssumption
  <1>2. CASE ServerDies
    <2>1. faults' \in 0 .. MaxEvents
      BY <1>1, <1>2 DEF ServerDies, Fault, MoreEvents
    <2>2. QED
      BY <1>2, <2>1 DEF ServerDies
  <1>3. ASSUME NEW c \in Connections, Request(c) PROVE TablesTyped'
    BY <1>1, <1>3 DEF Request, MoreEvents, Connections
  <1>4. ASSUME NEW c \in Connections, Save(c) PROVE TablesTyped'
    <2>1. request[c].keys \in Seq(Keys) /\ Len(request[c].keys) = 1
      BY <1>4 DEF Save, RequestsTyped, Requested, Proper
    <2>2. request[c].keys[1] \in Keys
      BY <2>1
    <2>3. Plain(request[c].keys[1]) \in Texts
      BY <2>2, TextsTyped
    <2>4. QED
      BY <1>4, <2>3 DEF Save
  <1>5. CASE Midnight
    BY <1>1, <1>5 DEF Midnight, MoreEvents
  <1>6. ASSUME NEW u \in Updaters, EndInsert(u) PROVE TablesTyped'
    <2>1. updater[u].missing \in Keys
      BY <1>6, KeysTyped DEF EndInsert, UpdatersTyped
    <2>2. Line(updater[u].missing) \in Texts
      BY <2>1, TextsTyped
    <2>3. QED
      BY <1>6, <2>2 DEF EndInsert
  <1>7. ASSUME NEW u \in Updaters, Die(u) PROVE TablesTyped'
    BY <1>1, <1>7 DEF Die, Fault, MoreEvents
  <1>8. CASE StartServer \/ BindFails
    BY <1>8 DEF StartServer, BindFails
  <1>9. CASE UNCHANGED <<up, rows, list, night, asks, faults, told>>
    BY <1>9
  <1>10. QED
    BY <1>2, <1>3, <1>4, <1>5, <1>6, <1>7, <1>8, <1>9
    DEF Next, Task, NothingLeft, vars, Lookup, Answer, Download, LookUpLine,
        BeginInsert, EndOfList

LEMMA TypeInit == Init => TypeInv
<1>1. Init => UpdatersTyped
  BY DEF Init, UpdatersTyped, NoUpdater
<1>2. Init => RequestsTyped
  BY NoRequestProper DEF Init, RequestsTyped
<1>3. Init => TablesTyped
  <2>1. MaxEvents \in Nat
    BY BlacklistAssumption
  <2>2. Init => rows \in [Texts -> Nat] /\ told \in [Texts -> Nat]
    BY DEF Init
  <2>3. Init => list \in Lists \cup {{}}
    BY DEF Init
  <2>4. Init => up \in BOOLEAN
    BY DEF Init
  <2>5. Init => night = 0 /\ asks = 0 /\ faults = 0
    BY DEF Init
  <2>6. QED
    BY <2>1, <2>2, <2>3, <2>4, <2>5 DEF TablesTyped
<1>4. QED
  BY <1>1, <1>2, <1>3 DEF TypeInv

LEMMA TypeAlways == Spec => []TypeInv
<1>1. TypeInv /\ [Next]_vars => TypeInv'
  BY UpdatersStep, RequestsStep, TablesStep DEF TypeInv
<1>2. QED
  BY <1>1, TypeInit, PTL DEF Spec

\* Every reachable state is well typed, and the database is only ever locked by
\* an updater that has a line to insert.
THEOREM BlacklistTypeCorrect == Spec => []TypeOK
<1>1. TypeInv => TypeOK
  BY DEF TypeInv, UpdatersTyped, RequestsTyped, Requested, Proper, TablesTyped, TypeOK
<1>2. QED
  BY <1>1, TypeAlways, PTL

-----------------------------------------------------------------------------
(* The rows are explained.                                                 *)

\* Who may have added the text already: not an updater that has not begun, and
\* not one that has the text in hand, which it looked up before anyone had
\* added it.  Rows are never removed, so nobody finds it missing again.
Spent(t) == {u \in Updaters : /\ updater[u].at # "none"
                              /\ updater[u].missing # None => Line(updater[u].missing) # t}

RowsInv ==
    \A t \in Texts :
        /\ told[t] <= rows[t]
        /\ rows[t] <= told[t] + Cardinality(Spent(t))

LEMMA SpentFinite ==
    ASSUME NEW t
    PROVE  /\ IsFiniteSet(Spent(t)) /\ Cardinality(Spent(t)) \in Nat
           /\ IsFiniteSet(Begun) /\ Cardinality(Begun) \in Nat
           /\ Cardinality(Spent(t)) <= Cardinality(Begun)
  <1>1. Begun \subseteq Updaters /\ Spent(t) \subseteq Begun
    BY DEF Spent, Begun
  <1>2. IsFiniteSet(Updaters)
    BY BlacklistAssumption
  <1>3. IsFiniteSet(Begun)
    BY <1>1, <1>2, FS_Subset
  <1>4. IsFiniteSet(Spent(t)) /\ Cardinality(Spent(t)) <= Cardinality(Begun)
    BY <1>1, <1>3, FS_Subset
  <1>5. QED
    BY <1>3, <1>4, FS_CardinalityType

\* More updaters are spent on a text, and no row of it is added.
LEMMA SpentGrows ==
    ASSUME RowsInv, NEW t \in Texts, TypeInv, TypeInv',
           Spent(t) \subseteq Spent(t)', rows'[t] = rows[t], told'[t] = told[t]
    PROVE  told'[t] <= rows'[t] /\ rows'[t] <= told'[t] + Cardinality(Spent(t)')
  <1>1. Spent(t)' \subseteq Updaters
    BY DEF Spent
  <1>2. IsFiniteSet(Spent(t)')
    BY <1>1, FS_Subset, BlacklistAssumption
  <1>3. /\ Cardinality(Spent(t)) <= Cardinality(Spent(t)')
        /\ Cardinality(Spent(t)) \in Nat /\ Cardinality(Spent(t)') \in Nat
    BY <1>2, FS_Subset, FS_CardinalityType
  <1>4. rows[t] \in Nat /\ told[t] \in Nat
    BY DEF TypeInv, TablesTyped
  <1>5. QED
    BY <1>3, <1>4 DEF RowsInv

\* An updater that is spent on more texts adds no row.
LEMMA MoreSpent ==
    ASSUME TypeInv, TypeInv', RowsInv, UNCHANGED <<rows, told>>,
           \A t \in Texts : Spent(t) \subseteq Spent(t)'
    PROVE  RowsInv'
  BY SpentGrows DEF RowsInv

LEMMA RowsStep ==
    ASSUME TypeInv, TypeInv', RowsInv, [Next]_vars
    PROVE  RowsInv'
  <1>1. CASE StartServer \/ BindFails
    <2>1. /\ \/ updater' = updater
             \/ \E u \in Updaters : /\ updater[u].at = "none"
                                    /\ updater' = [updater EXCEPT ![u].at = "idle"]
          /\ UNCHANGED <<rows, told>>
      BY <1>1 DEF StartServer, BindFails, StartUpdater
    <2>2. \A u \in Updaters : /\ updater[u].at # "none" => updater'[u].at # "none"
                              /\ updater'[u].missing = updater[u].missing
      BY <2>1 DEF TypeInv, UpdatersTyped
    <2>3. \A t \in Texts : Spent(t) \subseteq Spent(t)'
      BY <2>2 DEF Spent
    <2>4. QED
      BY <2>1, <2>3, MoreSpent
  <1>2. CASE Midnight
    <2>1. \A u \in Updaters : /\ updater[u].at # "none" => updater'[u].at # "none"
                              /\ updater'[u].missing \in {None, updater[u].missing}
      <3>1. [NoUpdater EXCEPT !.at = "getIps"]
                = [at |-> "getIps", todo |-> {}, missing |-> None]
        BY DEF NoUpdater
      <3>2. QED
        BY <1>2, <3>1 DEF Midnight, TypeInv, UpdatersTyped
    <2>2. \A t \in Texts : Spent(t) \subseteq Spent(t)'
      BY <2>1 DEF Spent
    <2>3. UNCHANGED <<rows, told>>
      BY <1>2 DEF Midnight
    <2>4. QED
      BY <2>2, <2>3, MoreSpent
  <1>3. ASSUME NEW u \in Updaters, Download(u) \/ EndOfList(u) \/ BeginInsert(u)
        PROVE  RowsInv'
    <2>1. \A w \in Updaters : /\ updater[w].at # "none" => updater'[w].at # "none"
                              /\ updater'[w].missing = updater[w].missing
      BY <1>3 DEF Download, EndOfList, BeginInsert, TypeInv, UpdatersTyped
    <2>2. \A t \in Texts : Spent(t) \subseteq Spent(t)'
      BY <2>1 DEF Spent
    <2>3. UNCHANGED <<rows, told>>
      BY <1>3 DEF Download, EndOfList, BeginInsert
    <2>4. QED
      BY <2>2, <2>3, MoreSpent
  <1>4. ASSUME NEW u \in Updaters, LookUpLine(u)
        PROVE  RowsInv'
    <2>1. PICK key \in updater[u].todo :
            updater' = IF isExists(Line(key)) THEN [updater EXCEPT ![u].todo = @ \ {key}]
                                              ELSE [updater EXCEPT ![u].missing = key]
      BY <1>4 DEF LookUpLine
    <2>2. UNCHANGED <<rows, told>>
      BY <1>4 DEF LookUpLine
    <2>3. SUFFICES ASSUME NEW t \in Texts
                   PROVE  /\ told'[t] <= rows'[t]
                          /\ rows'[t] <= told'[t] + Cardinality(Spent(t)')
      BY DEF RowsInv
    <2>4. \A w \in Updaters : /\ updater'[w].at = updater[w].at
                              /\ w # u => updater'[w].missing = updater[w].missing
      BY <2>1 DEF TypeInv, UpdatersTyped
    <2>5. CASE isExists(Line(key)) \/ Line(key) # t
      <3>1. updater'[u].missing \in {updater[u].missing, key}
            /\ (updater'[u].missing = key => Line(key) # t \/ updater[u].missing = key)
        BY <2>1, <2>5 DEF TypeInv, UpdatersTyped
      <3>2. Spent(t) \subseteq Spent(t)'
        BY <2>4, <3>1 DEF Spent
      <3>3. QED
        BY <2>2, <3>2, SpentGrows
    <2>6. CASE ~isExists(Line(key)) /\ Line(key) = t
      <3>1. rows[t] \in Nat /\ told[t] \in Nat /\ told[t] <= rows[t]
        BY DEF TypeInv, TablesTyped, RowsInv
      <3>2. rows[t] = 0
        BY <2>6, <3>1 DEF isExists
      <3>3. Spent(t)' \subseteq Updaters
        BY DEF Spent
      <3>4. Cardinality(Spent(t)') \in Nat
        BY <3>3, FS_Subset, FS_CardinalityType, BlacklistAssumption
      <3>5. QED
        BY <2>2, <3>1, <3>2, <3>4
    <2>7. QED
      BY <2>5, <2>6
  <1>5. ASSUME NEW u \in Updaters, EndInsert(u)
        PROVE  RowsInv'
    <2> DEFINE key == updater[u].missing
    <2>1. /\ key \in Keys /\ key # None /\ updater[u].at # "none"
          /\ rows' = [rows EXCEPT ![Line(key)] = @ + 1] /\ told' = told
          /\ updater' = [updater EXCEPT ![u].missing = None, ![u].todo = @ \ {key}]
      BY <1>5, KeysTyped DEF EndInsert, TypeInv, UpdatersTyped
    <2>2. \A w \in Updaters : /\ updater'[w].at = updater[w].at
                              /\ w # u => updater'[w].missing = updater[w].missing
                              /\ w = u => updater'[w].missing = None
      BY <2>1 DEF TypeInv, UpdatersTyped
    <2>3. SUFFICES ASSUME NEW t \in Texts
                   PROVE  /\ told'[t] <= rows'[t]
                          /\ rows'[t] <= told'[t] + Cardinality(Spent(t)')
      BY DEF RowsInv
    <2>4. Spent(t) \subseteq Spent(t)'
      BY <2>2 DEF Spent
    <2>5. CASE Line(key) # t
      <3>1. rows'[t] = rows[t]
        BY <2>1, <2>5 DEF TypeInv, TablesTyped
      <3>2. QED
        BY <2>1, <2>4, <3>1, SpentGrows
    <2>6. CASE Line(key) = t
      <3>1. rows'[t] = rows[t] + 1
        BY <2>1, <2>6 DEF TypeInv, TablesTyped
      <3>2. Spent(t)' = Spent(t) \cup {u} /\ u \notin Spent(t)
        BY <2>1, <2>2, <2>6 DEF Spent
      <3>3. Spent(t) \subseteq Updaters
        BY DEF Spent
      <3>4. IsFiniteSet(Spent(t)) /\ Cardinality(Spent(t)) \in Nat
        BY <3>3, FS_Subset, FS_CardinalityType, BlacklistAssumption
      <3>5. Cardinality(Spent(t)') = Cardinality(Spent(t)) + 1
        BY <3>2, <3>4, FS_AddElement
      <3>6. rows[t] \in Nat /\ told[t] \in Nat
        BY DEF TypeInv, TablesTyped
      <3>7. told[t] <= rows[t] /\ rows[t] <= told[t] + Cardinality(Spent(t))
        BY DEF RowsInv
      <3>8. told'[t] = told[t]
        BY <2>1
      <3>9. QED
        BY <3>1, <3>4, <3>5, <3>6, <3>7, <3>8
    <2>7. QED
      BY <2>5, <2>6
  <1>6. ASSUME NEW u \in Updaters, Die(u)
        PROVE  RowsInv'
    <2>1. \A w \in Updaters : /\ w # u => updater'[w] = updater[w]
                              /\ w = u => updater'[w].at = "dead"
                                          /\ updater'[w].missing = None
      <3>1. [NoUpdater EXCEPT !.at = "dead"]
                = [at |-> "dead", todo |-> {}, missing |-> None]
        BY DEF NoUpdater
      <3>2. QED
        BY <1>6, <3>1 DEF Die, TypeInv, UpdatersTyped
    <2>2. \A t \in Texts : Spent(t) \subseteq Spent(t)'
      BY <2>1 DEF Spent
    <2>3. UNCHANGED <<rows, told>>
      BY <1>6 DEF Die
    <2>4. QED
      BY <2>2, <2>3, MoreSpent
  <1>7. ASSUME NEW c \in Connections, Save(c)
        PROVE  RowsInv'
    <2> DEFINE text == Plain(request[c].keys[1])
    <2>1. \/ /\ rows' = [rows EXCEPT ![text] = @ + 1]
             /\ told' = [told EXCEPT ![text] = @ + 1]
          \/ rows' = rows /\ told' = told
      BY <1>7 DEF Save
    <2>2. updater' = updater
      BY <1>7 DEF Save
    <2>3. \A t \in Texts : Spent(t)' = Spent(t)
      BY <2>2 DEF Spent
    <2>4. SUFFICES ASSUME NEW t \in Texts
                   PROVE  /\ told'[t] <= rows'[t]
                          /\ rows'[t] <= told'[t] + Cardinality(Spent(t))
      BY <2>3 DEF RowsInv
    <2>5. \/ rows'[t] = rows[t] /\ told'[t] = told[t]
          \/ rows'[t] = rows[t] + 1 /\ told'[t] = told[t] + 1
      BY <2>1 DEF TypeInv, TablesTyped
    <2>6. rows[t] \in Nat /\ told[t] \in Nat /\ Cardinality(Spent(t)) \in Nat
      BY SpentFinite DEF TypeInv, TablesTyped
    <2>7. QED
      BY <2>5, <2>6 DEF RowsInv
  <1>8. CASE UNCHANGED <<rows, told, updater>>
    <2>1. \A t \in Texts : Spent(t)' = Spent(t)
      BY <1>8 DEF Spent
    <2>2. QED
      BY <1>8, <2>1 DEF RowsInv
  <1>9. QED
    BY <1>1, <1>2, <1>3, <1>4, <1>5, <1>6, <1>7, <1>8
    DEF Next, Task, NothingLeft, vars, ServerDies, Request, Lookup, Answer

\* However the updaters of several servers, dead and alive, look and insert
\* between each other, each adds a line once at most, and every addition that a
\* client was told of is in its table.
THEOREM RowsAreExplained == Spec => []RowsExplained
<1>1. Init => RowsInv
  <2>1. \A t \in Texts : Cardinality(Spent(t)) \in Nat
    BY SpentFinite
  <2>2. Init => \A t \in Texts : rows[t] = 0 /\ told[t] = 0
    BY DEF Init
  <2>3. QED
    BY <2>1, <2>2 DEF RowsInv
<1>2. TypeInv /\ RowsInv => RowsExplained
  <2> SUFFICES ASSUME TypeInv, RowsInv, NEW t \in Texts
               PROVE  /\ told[t] <= rows[t]
                      /\ rows[t] <= told[t] + Cardinality(Begun)
    BY DEF RowsExplained
  <2>1. rows[t] \in Nat /\ told[t] \in Nat
    BY DEF TypeInv, TablesTyped
  <2>2. QED
    BY <2>1, SpentFinite DEF RowsInv
<1>3. TypeInv /\ TypeInv' /\ RowsInv /\ [Next]_vars => RowsInv'
  BY RowsStep
<1>4. QED
  BY <1>1, <1>2, <1>3, TypeAlways, PTL DEF Spec

-----------------------------------------------------------------------------
(* The answers fit.                                                        *)

\* Rows stay: what a table held when a request began it holds now.
BeforeStored == \A c \in Connections : request[c].before \subseteq Stored

AnswersInv == BeforeStored /\ AnswersFit

LEMMA RowsGrow ==
    ASSUME TypeInv, [Next]_vars
    PROVE  \A t \in Texts : rows[t] > 0 => rows'[t] > 0
  <1>1. ASSUME NEW c \in Connections, Save(c)
        PROVE  \A t \in Texts : rows'[t] \in {rows[t], rows[t] + 1}
    BY <1>1 DEF Save, TypeInv, TablesTyped
  <1>2. ASSUME NEW u \in Updaters, EndInsert(u)
        PROVE  \A t \in Texts : rows'[t] \in {rows[t], rows[t] + 1}
    BY <1>2 DEF EndInsert, TypeInv, TablesTyped
  <1>3. \A t \in Texts : rows[t] \in Nat
    BY DEF TypeInv, TablesTyped
  <1>4. rows' = rows \/ \A t \in Texts : rows'[t] \in {rows[t], rows[t] + 1}
    BY <1>1, <1>2
    DEF Next, Task, NothingLeft, vars, StartServer, BindFails, ServerDies, Request,
        Lookup, Answer, Midnight, Download, LookUpLine, BeginInsert, EndOfList, Die
  <1>5. QED
    BY <1>3, <1>4

\* What one answer of a request says of its key.
Fits(r, i) ==
    LET text == Plain(r.keys[i]) IN
    IF r.answers[i] THEN rows[text] > 0 ELSE text \notin r.before

\* The answers of a request go on fitting while rows are added.
LEMMA FitsStays ==
    ASSUME TypeInv, [Next]_vars, NEW c \in Connections, NEW i \in Clear(c),
           Fits(request[c], i)
    PROVE  Fits(request[c], i)'
           \/ request'[c] # request[c]
  <1>1. request[c] \in Requested /\ Proper(request[c])
    BY DEF TypeInv, RequestsTyped
  <1>2. i \in 1 .. Len(request[c].keys)
    <2>1. i \in DOMAIN request[c].answers
      BY DEF Clear
    <2>2. /\ DOMAIN request[c].answers = 1 .. Len(request[c].answers)
          /\ Len(request[c].answers) \in Nat /\ Len(request[c].keys) \in Nat
      BY <1>1 DEF Requested
    <2>3. QED
      BY <1>1, <2>1, <2>2 DEF Proper
  <1>3. request[c].keys[i] \in Keys
    BY <1>1, <1>2 DEF Requested
  <1>4. Plain(request[c].keys[i]) \in Texts
    BY <1>3, TextsTyped
  <1>5. QED
    BY <1>4, RowsGrow DEF Fits

LEMMA AnswersStep ==
    ASSUME TypeInv, TypeInv', AnswersInv, [Next]_vars
    PROVE  AnswersInv'
  <1>1. \A t \in Texts : t \in Stored => t \in Stored'
    BY RowsGrow DEF Stored
  <1>2. \A c \in Connections : request[c].before \in SUBSET Texts
    BY DEF TypeInv, RequestsTyped, Requested
  <1>3. \A c \in Connections : request[c].before \subseteq Stored'
    BY <1>1, <1>2 DEF AnswersInv, BeforeStored
  \* Only its own thread changes a request, but for the server's end.
  <1>4. ASSUME NEW c \in Connections, request'[c] = request[c]
        PROVE  /\ request'[c].before \subseteq Stored'
               /\ \A i \in Clear(c)' : Fits(request[c], i)'
    <2>1. Clear(c)' = Clear(c)
      BY <1>4 DEF Clear
    <2>2. \A i \in Clear(c) : Fits(request[c], i)
      BY DEF AnswersInv, AnswersFit, Fits
    <2>3. QED
      BY <1>3, <1>4, <2>1, <2>2, FitsStays
  <1>5. ASSUME NEW c \in Connections, Clear(c)' = {}, request'[c].before \subseteq Stored'
        PROVE  /\ request'[c].before \subseteq Stored'
               /\ \A i \in Clear(c)' : Fits(request[c], i)'
    BY <1>5
  <1>6. ASSUME \A c \in Connections :
                    /\ request'[c].before \subseteq Stored'
                    /\ \A i \in Clear(c)' : Fits(request[c], i)'
        PROVE  AnswersInv'
    BY <1>6 DEF AnswersInv, BeforeStored, AnswersFit, Fits
  <1>7. CASE ServerDies
    <2>1. \A c \in Connections : Clear(c)' = {} /\ request'[c].before = {}
      BY <1>7 DEF ServerDies, Clear, NoRequest
    <2>2. QED
      BY <1>5, <1>6, <2>1
  <1>8. ASSUME NEW c \in Connections, Request(c) \/ Save(c) \/ Answer(c)
        PROVE  AnswersInv'
    <2>1. \A d \in Connections \ {c} : request'[d] = request[d]
      BY <1>8 DEF Request, Save, Answer, TypeInv, RequestsTyped
    <2>2. CASE Request(c)
      <3>1. PICK r \in Asks : request' = [request EXCEPT ![c] =
            [op |-> r.op, keys |-> r.keys, answers |-> <<>>, before |-> Stored, torn |-> {}]]
        BY <2>2 DEF Request
      <3>2. request'[c].answers = <<>> /\ request'[c].before = Stored
        BY <3>1 DEF TypeInv, RequestsTyped
      <3>3. Clear(c)' = {}
        BY <3>2 DEF Clear
      <3>4. Stored' = Stored
        BY <2>2 DEF Request, Stored
      <3>5. QED
        BY <1>4, <1>5, <1>6, <2>1, <3>2, <3>3, <3>4
    <2>3. CASE Save(c)
      <3>1. request'[c].op = "save" /\ request'[c].before = request[c].before
        BY <2>3 DEF Save, TypeInv, RequestsTyped, Requested
      <3>2. Clear(c)' = {}
        BY <3>1 DEF Clear
      <3>3. QED
        BY <1>3, <1>4, <1>5, <1>6, <2>1, <3>1, <3>2
    <2>4. CASE Answer(c)
      <3>1. request'[c].op = "none" /\ request'[c].before = {}
        BY <2>4 DEF Answer, NoRequest, TypeInv, RequestsTyped
      <3>2. Clear(c)' = {}
        BY <3>1 DEF Clear
      <3>3. QED
        BY <1>4, <1>5, <1>6, <2>1, <3>1, <3>2
    <2>5. QED
      BY <1>8, <2>2, <2>3, <2>4
  <1>9. ASSUME NEW c \in Connections, Lookup(c)
        PROVE  AnswersInv'
    <2> DEFINE r == request[c]
               k == Len(r.answers) + 1
    <2>1. /\ r \in Requested /\ Proper(r) /\ r.op = "scan" /\ rows' = rows
          /\ k \in Nat /\ Len(r.answers) \in Nat /\ Len(r.keys) \in Nat /\ k <= Len(r.keys)
      BY <1>9 DEF Lookup, TypeInv, RequestsTyped, Requested
    <2>2. PICK answer \in IF lock = None THEN {IsMalicious(r.keys[k])} ELSE BOOLEAN :
            request' = [request EXCEPT
                ![c].answers = Append(@, answer),
                ![c].torn = IF lock = None THEN @ ELSE @ \cup {k}]
      BY <1>9 DEF Lookup
    <2>3. /\ \A d \in Connections \ {c} : request'[d] = request[d]
          /\ request'[c].keys = r.keys /\ request'[c].before = r.before
          /\ request'[c].op = r.op
          /\ request'[c].answers = Append(r.answers, answer)
          /\ request'[c].torn = (IF lock = None THEN r.torn ELSE r.torn \cup {k})
      BY <2>2 DEF TypeInv, RequestsTyped, Requested
    <2>4. answer \in BOOLEAN
      <3>1. (rows[Plain(r.keys[k])] >= 1) \in BOOLEAN
        OBVIOUS
      <3>2. QED
        BY <2>2, <3>1 DEF IsMalicious
    <2>5. /\ DOMAIN Append(r.answers, answer) = DOMAIN r.answers \cup {k}
          /\ Append(r.answers, answer)[k] = answer
          /\ \A i \in DOMAIN r.answers : Append(r.answers, answer)[i] = r.answers[i]
      BY <2>1, <2>4 DEF Requested
    <2>6. \A i \in Clear(c)' : i \in Clear(c) \/ (i = k /\ lock = None)
      BY <2>1, <2>3, <2>5 DEF Clear
    <2>7. ASSUME NEW i \in Clear(c)' PROVE Fits(request[c], i)'
      <3>1. CASE i \in Clear(c)
        <4>1. Fits(request[c], i)
          BY <3>1 DEF AnswersInv, AnswersFit, Fits
        <4>2. i \in DOMAIN r.answers
          BY <3>1 DEF Clear
        <4>3. request'[c].answers[i] = r.answers[i]
          BY <2>3, <2>5, <4>2
        <4>4. QED
          BY <2>1, <2>3, <4>1, <4>3 DEF Fits
      <3>2. CASE i = k /\ lock = None
        <4>1. request'[c].answers[i] = (rows[Plain(r.keys[k])] >= 1)
          BY <2>2, <2>3, <2>5, <3>2 DEF IsMalicious
        <4>2. r.keys[k] \in Keys
          BY <2>1 DEF Requested
        <4>3. Plain(r.keys[k]) \in Texts /\ rows[Plain(r.keys[k])] \in Nat
          BY <4>2, TextsTyped DEF TypeInv, TablesTyped
        <4>4. r.before \subseteq Stored
          BY DEF AnswersInv, BeforeStored
        <4>5. CASE rows[Plain(r.keys[k])] >= 1
          <5>1. rows'[Plain(request'[c].keys[i])] > 0
            BY <2>1, <2>3, <3>2, <4>3, <4>5
          <5>2. request'[c].answers[i]
            BY <4>1, <4>5
          <5>3. QED
            BY <5>1, <5>2 DEF Fits
        <4>6. CASE ~(rows[Plain(r.keys[k])] >= 1)
          <5>1. Plain(r.keys[k]) \notin r.before
            BY <4>3, <4>4, <4>6 DEF Stored
          <5>2. QED
            BY <2>3, <3>2, <4>1, <4>6, <5>1 DEF Fits
        <4>7. QED
          BY <4>5, <4>6
      <3>3. QED
        BY <2>6, <3>1, <3>2
    <2>8. QED
      BY <1>3, <1>4, <1>6, <2>3, <2>7
  <1>10. CASE UNCHANGED request
    BY <1>4, <1>6, <1>10
  <1>11. QED
    BY <1>7, <1>8, <1>9, <1>10
    DEF Next, Task, NothingLeft, vars, StartServer, BindFails, Midnight, Download,
        LookUpLine, BeginInsert, EndInsert, EndOfList, Die

\* But for answers that came while the database was locked: a key that is
\* called malicious has a row, and one that is called clean had none when its
\* request began, whatever other threads and updaters add meanwhile.
THEOREM AnswersAreRight == Spec => []AnswersFit
<1>1. Init => AnswersInv
  BY DEF Init, AnswersInv, BeforeStored, AnswersFit, Clear, NoRequest
<1>2. TypeInv /\ TypeInv' /\ AnswersInv /\ [Next]_vars => AnswersInv'
  BY AnswersStep
<1>3. AnswersInv => AnswersFit
  BY DEF AnswersInv
<1>4. QED
  BY <1>1, <1>2, <1>3, TypeAlways, PTL DEF Spec
=============================================================================
