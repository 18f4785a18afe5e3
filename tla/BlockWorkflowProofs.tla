------------------------ MODULE BlockWorkflowProofs ------------------------
(***************************************************************************)
(* Proofs about BlockWorkflow, for any clients, processes and bounds.      *)
(***************************************************************************)
EXTENDS BlockWorkflow, TLAPS

Places  == {"none", "signal", "recv", "answered", "update"}
Threads == [at : Places, op : Signals \cup {"scan"}, pid : Pids \cup {None},
            answer : Answers, quiet : BOOLEAN, earned : SUBSET Answers]

\* A thread that signals has a process to signal, and only blocking and freeing
\* go on to the table.
Fitting(t) == /\ t.op # "scan" => t.pid \in Pids
              /\ t.op = "scan" => t.pid = None
              /\ t.at = "update" => t.op \in {"block", "free"}

ThreadsTyped ==
    /\ thread \in [Clicks -> Threads]
    /\ \A k \in Clicks : Fitting(thread[k])

OthersTyped ==
    /\ up \in BOOLEAN /\ device \in BOOLEAN
    /\ result \in Answers
    /\ status \in [Pids -> {"running", "stopped", "none"}]
    /\ rows \in [Pids -> Nat]
    /\ busy \in [Clients -> 0 .. MaxClicks]
    /\ clicks \in 0 .. MaxClicks /\ faults \in 0 .. MaxFaults
    /\ settled \in [Pids -> BOOLEAN]

TypeInv == ThreadsTyped /\ OthersTyped

LEMMA Bounds == MaxClicks \in Nat /\ MaxFaults \in Nat /\ None \notin Pids
  BY WorkflowAssumption

LEMMA NoThreadTyped ==
    NoThread \in Threads /\ Fitting(NoThread) /\ NoThread.at = "none" /\ ~NoThread.quiet
  BY DEF NoThread, Threads, Fitting, Places, Signals, Answers, ScanAnswers

LEMMA AsksTyped ==
    ASSUME NEW r \in Asks
    PROVE  \/ r.op \in Signals /\ r.pid \in Pids
           \/ r.op = "scan" /\ r.pid = None
  BY WorkflowAssumption DEF Requests

-----------------------------------------------------------------------------
(* What each action does to the threads.                                   *)

\* One thread changes, the others as they were.
LEMMA OneThread ==
    ASSUME ThreadsTyped, NEW k \in Clicks, NEW t \in Threads, Fitting(t),
           thread' = [thread EXCEPT ![k] = t]
    PROVE  /\ ThreadsTyped'
           /\ thread'[k] = t
           /\ \A j \in Clicks \ {k} : thread'[j] = thread[j]
  BY DEF ThreadsTyped

LEMMA GoneTyped ==
    ASSUME ThreadsTyped, NEW k \in Clicks, Gone(k)
    PROVE  /\ ThreadsTyped'
           /\ thread'[k] = NoThread
           /\ \A j \in Clicks \ {k} : thread'[j] = thread[j]
  BY OneThread, NoThreadTyped DEF Gone

\* Disturbing clears a history field, and nothing else.
SameBut(t, s) == /\ t.at = s.at /\ t.op = s.op /\ t.pid = s.pid
                 /\ t.answer = s.answer /\ t.earned = s.earned

LEMMA DisturbedTyped ==
    ASSUME ThreadsTyped, NEW ks \in SUBSET Clicks
    PROVE  /\ Disturbed(ks) \in [Clicks -> Threads]
           /\ \A k \in Clicks : /\ SameBut(Disturbed(ks)[k], thread[k])
                                /\ Fitting(Disturbed(ks)[k])
                                /\ Disturbed(ks)[k].quiet
                                     => k \notin ks /\ Disturbed(ks)[k] = thread[k]
  BY DEF ThreadsTyped, Disturbed, Threads, SameBut, Fitting

LEMMA ClicksOnTyped == \A p : ClicksOn(p) \in SUBSET Clicks
  BY DEF ClicksOn

\* The thread that a click starts.
LEMMA ClickThread ==
    ASSUME TypeInv, NEW c \in Clients, Click(c)
    PROVE  /\ clicks' \in Clicks /\ clicks' = clicks + 1
           /\ \E r \in Asks :
                /\ ThreadsTyped'
                /\ thread'[clicks'] = [at |-> "signal", op |-> r.op, pid |-> r.pid,
                                       answer |-> 0, quiet |-> ClicksOn(r.pid) = {},
                                       earned |-> {}]
                /\ \A j \in Clicks \ {clicks'} : thread'[j] = Disturbed(ClicksOn(r.pid))[j]
                /\ settled' = [p \in Pids |-> settled[p] /\ p # r.pid]
  <1>1. clicks' \in Clicks /\ clicks' = clicks + 1
    BY Bounds DEF Click, Clicks, TypeInv, OthersTyped
  <1>2. PICK r \in Asks :
            /\ thread' = [Disturbed(ClicksOn(r.pid)) EXCEPT ![clicks'] =
                            [at |-> "signal", op |-> r.op, pid |-> r.pid, answer |-> 0,
                             quiet |-> ClicksOn(r.pid) = {}, earned |-> {}]]
            /\ settled' = [p \in Pids |-> settled[p] /\ p # r.pid]
    BY DEF Click
  <1> DEFINE new == [at |-> "signal", op |-> r.op, pid |-> r.pid, answer |-> 0,
                     quiet |-> ClicksOn(r.pid) = {}, earned |-> {}]
  <1>3. thread' = [Disturbed(ClicksOn(r.pid)) EXCEPT ![clicks'] = new]
    BY <1>2
  <1>4. new \in Threads /\ Fitting(new)
    BY AsksTyped DEF Threads, Fitting, Places, Signals, Answers, ScanAnswers
  <1>5. ThreadsTyped'
    BY <1>1, <1>3, <1>4, DisturbedTyped, ClicksOnTyped DEF TypeInv, ThreadsTyped
  <1>6. /\ thread'[clicks'] = new
        /\ \A j \in Clicks \ {clicks'} : thread'[j] = Disturbed(ClicksOn(r.pid))[j]
    BY <1>1, <1>3, DisturbedTyped, ClicksOnTyped DEF TypeInv
  <1>7. QED
    BY <1>1, <1>2, <1>5, <1>6

\* A SEND changes its own thread, and what those waiting for an answer may be told.
LEMMA SendThreads ==
    ASSUME TypeInv, NEW k \in Clicks, Send(k)
    PROVE  /\ ThreadsTyped' /\ result' \in Answers
           /\ thread'[k] = [thread[k] EXCEPT !.at = "recv", !.earned = {result'}]
           /\ \A j \in Clicks \ {k} : thread'[j] =
                IF thread[j].at = "recv"
                THEN [thread[j] EXCEPT !.earned = @ \cup {result'}]
                ELSE thread[j]
  <1>1. result' \in Answers
    BY DEF Send, Answers, ScanAnswers
  <1>2. thread' = [j \in Clicks |->
                        IF j = k THEN [thread[k] EXCEPT !.at = "recv", !.earned = {result'}]
                        ELSE IF thread[j].at = "recv"
                        THEN [thread[j] EXCEPT !.earned = @ \cup {result'}]
                        ELSE thread[j]]
    BY DEF Send
  <1>3. ASSUME NEW t \in Threads, Fitting(t), NEW a \in Answers
        PROVE  /\ [t EXCEPT !.at = "recv", !.earned = {a}] \in Threads
               /\ Fitting([t EXCEPT !.at = "recv", !.earned = {a}])
               /\ [t EXCEPT !.earned = @ \cup {a}] \in Threads
               /\ Fitting([t EXCEPT !.earned = @ \cup {a}])
    BY <1>3 DEF Threads, Fitting, Places
  <1>4. QED
    BY <1>1, <1>2, <1>3 DEF TypeInv, ThreadsTyped

\* An answer is waited for, or its thread ends.
LEMMA AnswerThreads ==
    ASSUME TypeInv, NEW k \in Clicks, NEW value \in Answers, Answer(k, value)
    PROVE  /\ ThreadsTyped'
           /\ \/ /\ thread'[k].at = "answered" /\ thread'[k].answer = value
                 /\ thread'[k].op = thread[k].op /\ thread'[k].pid = thread[k].pid
                 /\ thread'[k].earned = thread[k].earned
                 /\ thread'[k].quiet => thread[k].quiet /\ device
              \/ thread'[k] = NoThread
           /\ \A j \in Clicks \ {k} : thread'[j] = thread[j]
  <1> DEFINE new == [thread[k] EXCEPT !.at = "answered", !.answer = value,
                                      !.quiet = @ /\ device]
  <1>1. new \in Threads /\ Fitting(new)
    BY DEF TypeInv, ThreadsTyped, OthersTyped, Threads, Fitting, Places
  <1>2. thread' = [thread EXCEPT ![k] = new] \/ Gone(k)
    BY DEF Answer, TypeInv, ThreadsTyped
  <1>3. /\ new.at = "answered" /\ new.answer = value
        /\ new.op = thread[k].op /\ new.pid = thread[k].pid
        /\ new.earned = thread[k].earned
        /\ new.quiet = (thread[k].quiet /\ device)
    BY DEF TypeInv, ThreadsTyped, Threads
  <1>4. QED
    BY <1>1, <1>2, <1>3, OneThread, GoneTyped DEF TypeInv

\* A reply is followed by the second request, or ends the click.
LEMMA ReplyThreads ==
    ASSUME TypeInv, NEW c \in Clients, GetReply(c)
    PROVE  LET k == busy[c] IN
           /\ ThreadsTyped'
           /\ k \in Clicks /\ thread[k].at = "answered"
           /\ \/ /\ thread[k].op \in {"block", "free"}
                 /\ thread'[k] = [thread[k] EXCEPT !.at = "update"]
                 /\ settled' = settled
              \/ /\ thread[k].op \notin {"block", "free"}
                 /\ thread'[k] = NoThread
                 /\ settled' = [p \in Pids |-> IF p = thread[k].pid THEN thread[k].quiet
                                                                    ELSE settled[p]]
           /\ \A j \in Clicks \ {k} : thread'[j] = thread[j]
  <1> DEFINE k == busy[c]
             new == [thread[k] EXCEPT !.at = "update"]
  <1>1. k \in Clicks /\ thread[k].at = "answered"
    BY Bounds DEF GetReply, At, TypeInv, OthersTyped, Clicks
  <1>2. thread[k] \in Threads /\ Fitting(thread[k])
    BY <1>1 DEF TypeInv, ThreadsTyped
  <1>3. CASE thread[k].op \in {"block", "free"}
    <2>1. thread' = [thread EXCEPT ![k] = new] /\ settled' = settled
      BY <1>1, <1>3 DEF GetReply, TypeInv, ThreadsTyped
    <2>2. new \in Threads /\ Fitting(new)
      BY <1>2, <1>3 DEF Threads, Fitting, Places
    <2>3. QED
      BY <1>1, <1>3, <2>1, <2>2, OneThread DEF TypeInv
  <1>4. CASE thread[k].op \notin {"block", "free"}
    <2>1. Gone(k) /\ settled' = [p \in Pids |-> IF p = thread[k].pid THEN thread[k].quiet
                                                                     ELSE settled[p]]
      BY <1>1, <1>4 DEF GetReply
    <2>2. QED
      BY <1>1, <1>4, <2>1, GoneTyped DEF TypeInv
  <1>5. QED
    BY <1>3, <1>4

\* A client that leaves ends its click or disturbs it.
LEMMA LeaveThreads ==
    ASSUME TypeInv, NEW c \in Clients, Leave(c)
    PROVE  /\ ThreadsTyped'
           /\ \A j \in Clicks :
                \/ thread'[j] = NoThread
                \/ SameBut(thread'[j], thread[j]) /\ (thread'[j].quiet => thread'[j] = thread[j])
  <1> DEFINE k == busy[c]
  <1>1. k \in Clicks
    BY Bounds DEF Leave, TypeInv, OthersTyped, Clicks
  <1>2. CASE Gone(k)
    BY <1>1, <1>2, GoneTyped DEF TypeInv, SameBut
  <1>3. CASE thread' = Disturbed({k})
    BY <1>1, <1>3, DisturbedTyped DEF TypeInv, ThreadsTyped
  <1>4. QED
    BY <1>2, <1>3 DEF Leave

\* The steps that leave the threads alone.
LEMMA OtherSteps ==
    ASSUME Restart \/ Rmmod \/ Insmod \/ (\E p \in Pids : Exit(p)) \/ UNCHANGED vars
    PROVE  thread' = thread
  BY DEF Restart, Rmmod, Insmod, Exit, vars

LEMMA ThreadsStep ==
    ASSUME TypeInv, [Next]_vars
    PROVE  ThreadsTyped'
  <1>1. ASSUME NEW c \in Clients, Click(c) \/ GetReply(c) \/ Leave(c)
        PROVE  ThreadsTyped'
    BY <1>1, ClickThread, ReplyThreads, LeaveThreads
  <1>2. ASSUME NEW k \in Clicks, Send(k)
        PROVE  ThreadsTyped'
    BY <1>2, SendThreads
  <1>3. ASSUME NEW k \in Clicks, Recv(k) \/ NoDevice(k)
        PROVE  ThreadsTyped'
    <2>1. result \in Answers /\ 0 \in Answers
      BY DEF TypeInv, OthersTyped, Answers
    <2>2. QED
      BY <1>3, <2>1, AnswerThreads DEF Recv, NoDevice
  <1>4. ASSUME NEW k \in Clicks, UpdateTable(k) \/ UpdateFails(k)
        PROVE  ThreadsTyped'
    BY <1>4, GoneTyped DEF UpdateTable, UpdateFails, TypeInv
  <1>5. ASSUME NEW p \in Pids, Start(p)
        PROVE  ThreadsTyped'
    BY <1>5, DisturbedTyped, ClicksOnTyped DEF Start, TypeInv, ThreadsTyped
  <1>6. CASE Crash
    BY <1>6, NoThreadTyped DEF Crash, ThreadsTyped
  <1>7. CASE thread' = thread
    BY <1>7 DEF TypeInv, ThreadsTyped
  <1>8. QED
    BY <1>1, <1>2, <1>3, <1>4, <1>5, <1>6, <1>7, OtherSteps
    DEF Next, ThreadStep, NothingAsked

LEMMA OthersStep ==
    ASSUME TypeInv, [Next]_vars
    PROVE  OthersTyped'
  <1> USE Bounds DEF TypeInv, OthersTyped
  <1>1. ASSUME NEW c \in Clients, Click(c) PROVE OthersTyped'
    <2>1. clicks' \in 0 .. MaxClicks
      BY <1>1 DEF Click
    <2>2. busy' \in [Clients -> 0 .. MaxClicks]
      BY <1>1, <2>1 DEF Click
    <2>3. settled' \in [Pids -> BOOLEAN]
      BY <1>1, ClickThread
    <2>4. QED
      BY <1>1, <2>1, <2>2, <2>3 DEF Click, kernel
  <1>2. ASSUME NEW c \in Clients, GetReply(c) PROVE OthersTyped'
    <2>1. settled' \in [Pids -> BOOLEAN]
      <3>1. thread[busy[c]].quiet \in BOOLEAN
        BY <1>2, ReplyThreads DEF ThreadsTyped, Threads
      <3>2. \/ settled' = settled
            \/ settled' = [p \in Pids |-> IF p = thread[busy[c]].pid
                                          THEN thread[busy[c]].quiet ELSE settled[p]]
        BY <1>2, ReplyThreads
      <3>3. QED
        BY <3>1, <3>2
    <2>2. QED
      BY <1>2, <2>1 DEF GetReply, kernel
  <1>3. ASSUME NEW c \in Clients, Leave(c) PROVE OthersTyped'
    BY <1>3 DEF Leave, kernel, Fault
  <1>4. ASSUME NEW k \in Clicks, Send(k) PROVE OthersTyped'
    <2>1. status' \in [Pids -> {"running", "stopped", "none"}]
      BY <1>4 DEF Send
    <2>2. QED
      BY <1>4, <2>1, SendThreads DEF Send
  <1>5. ASSUME NEW k \in Clicks, Recv(k) \/ NoDevice(k) PROVE OthersTyped'
    BY <1>5 DEF Recv, NoDevice, Answer, kernel
  <1>6. ASSUME NEW k \in Clicks, UpdateTable(k) PROVE OthersTyped'
    <2>1. thread[k] \in Threads /\ Fitting(thread[k]) /\ thread[k].at = "update"
      BY <1>6 DEF UpdateTable, At, ThreadsTyped
    <2>2. thread[k].pid \in Pids /\ thread[k].quiet \in BOOLEAN
      BY <2>1 DEF Threads, Fitting
    <2>3. rows' \in [Pids -> Nat]
      BY <1>6, <2>2 DEF UpdateTable, Updated
    <2>4. settled' \in [Pids -> BOOLEAN]
      BY <1>6, <2>2 DEF UpdateTable
    <2>5. QED
      BY <1>6, <2>3, <2>4 DEF UpdateTable, kernel
  <1>7. ASSUME NEW k \in Clicks, UpdateFails(k) PROVE OthersTyped'
    BY <1>7 DEF UpdateFails, kernel, Fault
  <1>8. CASE Crash
    <2>1. busy' \in [Clients -> 0 .. MaxClicks]
      BY <1>8 DEF Crash
    <2>2. faults' \in 0 .. MaxFaults
      BY <1>8 DEF Crash, Fault
    <2>3. up' \in BOOLEAN
      BY <1>8 DEF Crash
    <2>4. QED
      BY <1>8, <2>1, <2>2, <2>3 DEF Crash, kernel
  <1>9. CASE Restart \/ Insmod
    BY <1>9 DEF Restart, Insmod, kernel, Answers, ScanAnswers
  <1>10. CASE Rmmod
    <2>1. faults' \in 0 .. MaxFaults
      BY <1>10 DEF Rmmod, Fault
    <2>2. device' \in BOOLEAN
      BY <1>10 DEF Rmmod
    <2>3. QED
      BY <1>10, <2>1, <2>2 DEF Rmmod
  <1>11. ASSUME NEW p \in Pids, Exit(p) PROVE OthersTyped'
    BY <1>11 DEF Exit
  <1>12. ASSUME NEW p \in Pids, Start(p) PROVE OthersTyped'
    BY <1>12 DEF Start, Fault
  <1>13. CASE UNCHANGED vars
    BY <1>13 DEF vars, kernel
  <1>14. QED
    BY <1>1, <1>2, <1>3, <1>4, <1>5, <1>6, <1>7, <1>8, <1>9, <1>10, <1>11, <1>12, <1>13
    DEF Next, ThreadStep, NothingAsked

LEMMA TypeAlways == Spec => []TypeInv
<1>1. Init => ThreadsTyped
  BY NoThreadTyped DEF Init, ThreadsTyped
<1>2. Init => OthersTyped
  BY Bounds DEF Init, OthersTyped, Answers
<1>3. TypeInv /\ [Next]_vars => TypeInv'
  BY ThreadsStep, OthersStep DEF TypeInv
<1>4. QED
  BY <1>1, <1>2, <1>3, PTL DEF Spec, TypeInv

\* Every reachable state is well typed.
THEOREM BlockTypeCorrect == Spec => []TypeOK
<1>1. TypeInv => TypeOK
  BY DEF TypeInv, ThreadsTyped, OthersTyped, Threads, Places, TypeOK
<1>2. QED
  BY <1>1, TypeAlways, PTL

-----------------------------------------------------------------------------
(* Answers are earned.                                                     *)

\* A thread inside the device keeps it loaded, and the last answer is among
\* those given since its own SEND.
Earned(t) ==
    /\ t.at = "recv" => device /\ result \in t.earned
    /\ t.at = "signal" => t.earned = {}
    /\ t.at \in {"answered", "update"} =>
            t.answer \in (IF t.earned = {} THEN {0} ELSE t.earned)

EarnedInv == \A k \in Clicks : Earned(thread[k])

LEMMA EarnedStep ==
    ASSUME TypeInv, EarnedInv, [Next]_vars
    PROVE  EarnedInv'
  <1>1. ASSUME UNCHANGED <<device, result>>,
               \A k \in Clicks : thread'[k] = NoThread \/ SameBut(thread'[k], thread[k])
        PROVE  EarnedInv'
    BY <1>1 DEF EarnedInv, Earned, SameBut, NoThread
  <1>2. ASSUME NEW c \in Clients, Click(c) PROVE EarnedInv'
    <2>1. UNCHANGED <<device, result>>
      BY <1>2 DEF Click, kernel
    <2>2. \A k \in Clicks \ {clicks'} : SameBut(thread'[k], thread[k])
      BY <1>2, ClickThread, DisturbedTyped, ClicksOnTyped DEF TypeInv
    <2>3. PICK r \in Asks :
            thread'[clicks'] = [at |-> "signal", op |-> r.op, pid |-> r.pid, answer |-> 0,
                                quiet |-> ClicksOn(r.pid) = {}, earned |-> {}]
      BY <1>2, ClickThread
    <2>4. thread'[clicks'].at = "signal" /\ thread'[clicks'].earned = {}
      BY <2>3
    <2>5. QED
      BY <2>1, <2>2, <2>4 DEF EarnedInv, Earned, SameBut
  <1>3. ASSUME NEW c \in Clients, GetReply(c) PROVE EarnedInv'
    <2> DEFINE k == busy[c]
    <2>1. UNCHANGED <<device, result>>
      BY <1>3 DEF GetReply, kernel
    <2>2. /\ k \in Clicks /\ thread[k].at = "answered"
          /\ \A j \in Clicks \ {k} : thread'[j] = thread[j]
      BY <1>3, ReplyThreads
    <2>3. thread[k] \in Threads
      BY <2>2 DEF TypeInv, ThreadsTyped
    <2>4. thread'[k] = NoThread \/ /\ thread'[k].at = "update"
                                   /\ thread'[k].answer = thread[k].answer
                                   /\ thread'[k].earned = thread[k].earned
      BY <1>3, <2>3, ReplyThreads DEF Threads
    <2>5. QED
      BY <2>1, <2>2, <2>4 DEF EarnedInv, Earned, NoThread
  <1>4. ASSUME NEW c \in Clients, Leave(c) PROVE EarnedInv'
    <2>1. UNCHANGED <<device, result>>
      BY <1>4 DEF Leave, kernel
    <2>2. QED
      BY <1>1, <1>4, <2>1, LeaveThreads
  <1>5. ASSUME NEW k \in Clicks, Send(k) PROVE EarnedInv'
    <2>1. device' = device /\ device
      BY <1>5 DEF Send
    <2>2. \A j \in Clicks : thread[j] \in Threads
      BY DEF TypeInv, ThreadsTyped
    <2>3. Earned(thread[k])'
      <3>1. thread'[k].at = "recv" /\ thread'[k].earned = {result'}
        BY <1>5, <2>2, SendThreads DEF Threads
      <3>2. QED
        BY <2>1, <3>1 DEF Earned
    <2>4. ASSUME NEW j \in Clicks \ {k} PROVE Earned(thread[j])'
      <3>1. CASE thread[j].at = "recv"
        <4>1. thread'[j].at = "recv" /\ thread'[j].earned = thread[j].earned \cup {result'}
          BY <1>5, <2>2, <3>1, SendThreads DEF Threads
        <4>2. QED
          BY <2>1, <4>1 DEF Earned
      <3>2. CASE thread[j].at # "recv"
        <4>1. thread'[j] = thread[j]
          BY <1>5, <3>2, SendThreads
        <4>2. QED
          BY <3>2, <4>1 DEF EarnedInv, Earned
      <3>3. QED
        BY <3>1, <3>2
    <2>5. QED
      BY <2>3, <2>4 DEF EarnedInv
  <1>6. ASSUME NEW k \in Clicks, NEW value \in Answers, Answer(k, value),
               value \in (IF thread[k].earned = {} THEN {0} ELSE thread[k].earned)
        PROVE  EarnedInv'
    <2>1. UNCHANGED <<device, result>>
      BY <1>6 DEF Answer, kernel
    <2>2. thread[k] \in Threads
      BY DEF TypeInv, ThreadsTyped
    <2>3. thread'[k] = NoThread \/ /\ thread'[k].at = "answered"
                                   /\ thread'[k].answer = value
                                   /\ thread'[k].earned = thread[k].earned
      BY <1>6, <2>2, AnswerThreads DEF Threads
    <2>4. \A j \in Clicks \ {k} : thread'[j] = thread[j]
      BY <1>6, AnswerThreads
    <2>5. QED
      BY <1>6, <2>1, <2>3, <2>4 DEF EarnedInv, Earned, NoThread
  <1>7. ASSUME NEW k \in Clicks, Recv(k) PROVE EarnedInv'
    <2>1. result \in thread[k].earned /\ result \in Answers
      BY <1>7 DEF Recv, At, EarnedInv, Earned, TypeInv, OthersTyped
    <2>2. QED
      BY <1>6, <1>7, <2>1 DEF Recv
  <1>8. ASSUME NEW k \in Clicks, NoDevice(k) PROVE EarnedInv'
    <2>1. thread[k].earned = {} /\ 0 \in Answers
      BY <1>8 DEF NoDevice, At, EarnedInv, Earned, Answers
    <2>2. QED
      BY <1>6, <1>8, <2>1 DEF NoDevice
  <1>9. ASSUME NEW k \in Clicks, UpdateTable(k) \/ UpdateFails(k) PROVE EarnedInv'
    <2>1. UNCHANGED <<device, result>>
      BY <1>9 DEF UpdateTable, UpdateFails, kernel
    <2>2. QED
      BY <1>1, <1>9, <2>1, GoneTyped DEF UpdateTable, UpdateFails, TypeInv, SameBut
  <1>10. ASSUME NEW p \in Pids, Start(p) PROVE EarnedInv'
    <2>1. UNCHANGED <<device, result>> /\ thread' = Disturbed(ClicksOn(p))
      BY <1>10 DEF Start
    <2>2. QED
      BY <1>1, <2>1, DisturbedTyped, ClicksOnTyped DEF TypeInv
  <1>11. CASE Crash
    BY <1>1, <1>11 DEF Crash, kernel
  <1>12. CASE Rmmod
    BY <1>12 DEF Rmmod, EarnedInv, Earned
  <1>13. CASE Insmod
    BY <1>13 DEF Insmod, EarnedInv, Earned
  <1>14. CASE UNCHANGED <<device, result, thread>>
    BY <1>1, <1>14 DEF SameBut
  <1>15. QED
    BY <1>2, <1>3, <1>4, <1>5, <1>7, <1>8, <1>9, <1>10, <1>11, <1>12, <1>13, <1>14
    DEF Next, ThreadStep, NothingAsked, vars, kernel, Restart, Exit

\* What a client is told was the driver's answer to some call it served since
\* the client's own began, or is 0 because there was no driver.
THEOREM AnswersAreEarned == Spec => []AnswerEarned
<1>1. Init => EarnedInv
  BY DEF Init, EarnedInv, Earned, NoThread
<1>2. EarnedInv => AnswerEarned
  BY DEF EarnedInv, Earned, AnswerEarned
<1>3. QED
  BY <1>1, <1>2, EarnedStep, TypeAlways, PTL DEF Spec

-----------------------------------------------------------------------------
(* The table shows what is stopped.                                        *)

After(op) == IF op = "block" THEN "stopped" ELSE IF op = "free" THEN "running" ELSE "none"
Signalled == {"recv", "answered", "update"}

\* A quiet click is the only one on its process, which no click has settled
\* yet; once signalled the process is as the signal left it, or has ended.
Quiet(k) ==
    LET t == thread[k] IN
    /\ t.at # "none"
    /\ \A j \in Clicks : thread[j].at # "none" /\ thread[j].pid = t.pid => j = k
    /\ t.pid \in Pids => ~settled[t.pid]
    /\ t.op # "scan" /\ t.at \in Signalled => status[t.pid] \in {After(t.op), "none"}

\* On a settled process no click is under way.
Settled(p) ==
    /\ \A j \in Clicks : thread[j].at # "none" => thread[j].pid # p
    /\ rows[p] > 0 /\ status[p] # "none" <=> status[p] = "stopped"

SettledInv ==
    /\ \A k \in Clicks : thread[k].quiet => Quiet(k)
    /\ \A p \in Pids : settled[p] => Settled(p)

\* A thread goes on, or ends, or is disturbed, and does no more.
Carries(t, s) ==
    \/ t.at = "none" /\ ~t.quiet
    \/ /\ s.at # "none" /\ t.op = s.op /\ t.pid = s.pid
       /\ t.quiet => s.quiet /\ t.at # "none"
                     /\ (t.at \in Signalled => s.at \in Signalled)

LEMMA CarriesOn ==
    ASSUME TypeInv, SettledInv, UNCHANGED <<rows, settled>>,
           \A p \in Pids : status'[p] \in {status[p], "none"},
           \A k \in Clicks : Carries(thread'[k], thread[k])
    PROVE  SettledInv'
  <1>1. ASSUME NEW k \in Clicks, thread'[k].quiet
        PROVE  Quiet(k)'
    <2>1. /\ thread[k].at # "none" /\ thread[k].quiet
          /\ thread'[k].op = thread[k].op /\ thread'[k].pid = thread[k].pid
          /\ thread'[k].at # "none"
          /\ thread'[k].at \in Signalled => thread[k].at \in Signalled
      BY <1>1 DEF Carries
    <2>2. Quiet(k)
      BY <2>1 DEF SettledInv
    <2>3. \A j \in Clicks : thread'[j].at # "none" =>
              thread[j].at # "none" /\ thread'[j].pid = thread[j].pid
      BY DEF Carries
    <2>4. thread[k].op # "scan" => thread[k].pid \in Pids
      BY DEF TypeInv, ThreadsTyped, Fitting
    <2>5. QED
      BY <2>1, <2>2, <2>3, <2>4 DEF Quiet
  <1>2. ASSUME NEW p \in Pids, settled'[p]
        PROVE  Settled(p)'
    <2>1. Settled(p)
      BY <1>2 DEF SettledInv
    <2>2. \A j \in Clicks : thread'[j].at # "none" =>
              thread[j].at # "none" /\ thread'[j].pid = thread[j].pid
      BY DEF Carries
    <2>3. status'[p] \in {status[p], "none"}
      OBVIOUS
    <2>4. QED
      BY <2>1, <2>2, <2>3 DEF Settled
  <1>3. QED
    BY <1>1, <1>2 DEF SettledInv

LEMMA CarriesSame ==
    ASSUME TypeInv, NEW k \in Clicks,
           thread'[k] = thread[k] \/ thread'[k] = NoThread
           \/ /\ thread[k].at # "none" /\ SameBut(thread'[k], thread[k])
              /\ thread'[k].quiet => thread'[k] = thread[k]
           \/ /\ thread[k].at = "none" /\ SameBut(thread'[k], thread[k])
              /\ ~thread'[k].quiet,
           SettledInv
    PROVE  Carries(thread'[k], thread[k])
  <1>1. thread[k].quiet => thread[k].at # "none"
    BY DEF SettledInv, Quiet
  <1>2. QED
    BY <1>1, NoThreadTyped DEF Carries, SameBut

LEMMA NewThread ==
    ASSUME NEW o, NEW p, NEW others,
           NEW t, t = [at |-> "signal", op |-> o, pid |-> p, answer |-> 0,
                       quiet |-> others = {}, earned |-> {}]
    PROVE  t.at = "signal" /\ t.pid = p /\ (t.quiet => others = {})
  OBVIOUS

\* A click whose process no other click is on begins quiet, and unsettles it.
LEMMA SettledClick ==
    ASSUME TypeInv, TypeInv', SettledInv, NEW c \in Clients, Click(c)
    PROVE  SettledInv'
  <1>1. clicks' \in Clicks
    BY ClickThread
  <1>2. PICK r \in Asks :
            /\ thread'[clicks'] = [at |-> "signal", op |-> r.op, pid |-> r.pid, answer |-> 0,
                                   quiet |-> ClicksOn(r.pid) = {}, earned |-> {}]
            /\ \A j \in Clicks \ {clicks'} : thread'[j] = Disturbed(ClicksOn(r.pid))[j]
            /\ settled' = [p \in Pids |-> settled[p] /\ p # r.pid]
    BY ClickThread
  <1>3. UNCHANGED <<rows, status>>
    BY DEF Click, kernel
  <1>4. \A j \in Clicks \ {clicks'} :
            /\ SameBut(thread'[j], thread[j])
            /\ thread'[j].quiet => j \notin ClicksOn(r.pid) /\ thread'[j] = thread[j]
    BY <1>2, DisturbedTyped, ClicksOnTyped DEF TypeInv
  <1>5. /\ thread'[clicks'].at = "signal" /\ thread'[clicks'].pid = r.pid
        /\ thread'[clicks'].quiet => ClicksOn(r.pid) = {}
    BY <1>2, NewThread
  <1>6. ASSUME NEW k \in Clicks, thread'[k].quiet
        PROVE  Quiet(k)'
    <2>1. CASE k = clicks'
      <3>1. \A j \in Clicks : ~(thread[j].at # "none" /\ thread[j].pid = r.pid)
        BY <1>5, <1>6, <2>1 DEF ClicksOn
      <3>2. \A j \in Clicks : thread'[j].at # "none" /\ thread'[j].pid = r.pid => j = k
        BY <1>4, <2>1, <3>1 DEF SameBut
      <3>3. r.pid \in Pids => ~settled'[r.pid]
        BY <1>2
      <3>4. QED
        BY <1>5, <2>1, <3>2, <3>3 DEF Quiet, Signalled
    <2>2. CASE k # clicks'
      <3>1. thread'[k] = thread[k] /\ k \notin ClicksOn(r.pid)
        BY <1>4, <1>6, <2>2
      <3>2. Quiet(k)
        BY <1>6, <3>1 DEF SettledInv
      <3>3. thread[k].pid # r.pid
        BY <3>1, <3>2 DEF Quiet, ClicksOn
      <3>4. \A j \in Clicks : thread'[j].at # "none" /\ thread'[j].pid = thread[k].pid => j = k
        BY <1>4, <1>5, <3>2, <3>3 DEF SameBut, Quiet
      <3>5. \A p \in Pids : settled'[p] => settled[p]
        BY <1>2
      <3>6. QED
        BY <1>3, <3>1, <3>2, <3>4, <3>5 DEF Quiet
    <2>3. QED
      BY <2>1, <2>2
  <1>7. ASSUME NEW p \in Pids, settled'[p]
        PROVE  Settled(p)'
    <2>1. settled[p] /\ p # r.pid
      BY <1>2, <1>7
    <2>2. Settled(p)
      BY <2>1 DEF SettledInv
    <2>3. \A j \in Clicks : thread'[j].at # "none" => thread'[j].pid # p
      BY <1>4, <1>5, <2>1, <2>2 DEF SameBut, Settled
    <2>4. QED
      BY <1>3, <2>2, <2>3 DEF Settled
  <1>8. QED
    BY <1>6, <1>7 DEF SettledInv

\* The signal changes the state of its own process alone.
LEMMA SettledSend ==
    ASSUME TypeInv, TypeInv', SettledInv, NEW k \in Clicks, Send(k)
    PROVE  SettledInv'
  <1> DEFINE t == thread[k]
  <1>1. /\ t.at = "signal" /\ t \in Threads /\ Fitting(t)
        /\ UNCHANGED <<rows, settled>>
    BY DEF Send, At, TypeInv, ThreadsTyped
  <1>2. \A p \in Pids : status'[p] = status[p] \/ (t.op # "scan" /\ p = t.pid)
    BY DEF Send, TypeInv, OthersTyped
  <1>3. t.op # "scan" => status'[t.pid] \in {After(t.op), "none"}
    BY <1>1 DEF Send, After, Fitting, TypeInv, OthersTyped, Threads, Signals
  <1>4. \A j \in Clicks : thread[j] \in Threads
    BY DEF TypeInv, ThreadsTyped
  <1>5. \A j \in Clicks : /\ thread'[j].op = thread[j].op /\ thread'[j].pid = thread[j].pid
                          /\ thread'[j].quiet = thread[j].quiet
                          /\ thread'[j].at # "none" => thread[j].at # "none"
                          /\ j # k => thread'[j].at = thread[j].at
    <2>1. /\ thread'[k].op = t.op /\ thread'[k].pid = t.pid
          /\ thread'[k].quiet = t.quiet /\ t.at # "none"
      BY <1>1, SendThreads DEF Threads
    <2>2. ASSUME NEW j \in Clicks \ {k}
          PROVE  /\ thread'[j].op = thread[j].op /\ thread'[j].pid = thread[j].pid
                 /\ thread'[j].quiet = thread[j].quiet
                 /\ thread'[j].at = thread[j].at
      <3>1. CASE thread[j].at = "recv"
        BY <1>4, <3>1, SendThreads DEF Threads
      <3>2. CASE thread[j].at # "recv"
        BY <3>2, SendThreads
      <3>3. QED
        BY <3>1, <3>2
    <2>3. QED
      BY <2>1, <2>2
  <1>6. thread'[k].at = "recv"
    BY <1>4, SendThreads DEF Threads
  <1>7. ASSUME NEW j \in Clicks, thread'[j].quiet
        PROVE  Quiet(j)'
    <2>1. Quiet(j)
      BY <1>5, <1>7 DEF SettledInv
    <2>2. \A i \in Clicks : thread'[i].at # "none" /\ thread'[i].pid = thread'[j].pid => i = j
      BY <1>5, <2>1 DEF Quiet
    <2>3. thread[j].op # "scan" => thread[j].pid \in Pids
      BY DEF TypeInv, ThreadsTyped, Fitting
    <2>4. CASE j = k
      BY <1>1, <1>3, <1>5, <1>6, <2>1, <2>2, <2>4 DEF Quiet
    <2>5. CASE j # k
      <3>1. thread[j].pid # t.pid
        BY <1>1, <2>1, <2>5 DEF Quiet
      <3>2. thread[j].op # "scan" => status'[thread[j].pid] = status[thread[j].pid]
        BY <1>2, <2>3, <3>1
      <3>3. QED
        BY <1>1, <1>5, <2>1, <2>2, <2>5, <3>2 DEF Quiet
    <2>6. QED
      BY <2>4, <2>5
  <1>8. ASSUME NEW p \in Pids, settled'[p]
        PROVE  Settled(p)'
    <2>1. Settled(p)
      BY <1>1, <1>8 DEF SettledInv
    <2>2. p # t.pid
      BY <1>1, <2>1 DEF Settled
    <2>3. status'[p] = status[p]
      BY <1>2, <2>2
    <2>4. QED
      BY <1>1, <1>5, <2>1, <2>3 DEF Settled
  <1>9. QED
    BY <1>7, <1>8 DEF SettledInv

\* The end of a click settles its process, if nothing has disturbed it.
LEMMA SettledEnd ==
    ASSUME TypeInv, TypeInv', SettledInv, NEW k \in Clicks, NEW q \in Pids,
           thread[k].at # "none", thread[k].pid = q, thread'[k] = NoThread,
           \A j \in Clicks \ {k} : thread'[j] = thread[j],
           status' = status, settled' = [settled EXCEPT ![q] = thread[k].quiet],
           \A p \in Pids \ {q} : rows'[p] = rows[p],
           thread[k].quiet => (rows'[q] > 0 /\ status[q] # "none" <=> status[q] = "stopped")
    PROVE  SettledInv'
  <1>1. ASSUME NEW j \in Clicks, thread'[j].quiet
        PROVE  Quiet(j)'
    <2>1. j # k /\ thread'[j] = thread[j]
      BY <1>1, NoThreadTyped
    <2>2. Quiet(j)
      BY <1>1, <2>1 DEF SettledInv
    <2>3. thread[j].pid # q
      BY <2>1, <2>2 DEF Quiet
    <2>4. thread[j].pid \in Pids => settled'[thread[j].pid] = settled[thread[j].pid]
      BY <2>3 DEF TypeInv, OthersTyped
    <2>5. \A i \in Clicks : thread'[i].at # "none" => thread'[i] = thread[i]
      BY NoThreadTyped
    <2>6. QED
      BY <2>1, <2>2, <2>4, <2>5 DEF Quiet
  <1>2. ASSUME NEW p \in Pids \ {q}, settled'[p]
        PROVE  Settled(p)'
    <2>1. settled[p] /\ rows'[p] = rows[p]
      BY <1>2 DEF TypeInv, OthersTyped
    <2>2. Settled(p)
      BY <2>1 DEF SettledInv
    <2>3. \A i \in Clicks : thread'[i].at # "none" => thread'[i] = thread[i]
      BY NoThreadTyped
    <2>4. QED
      BY <2>1, <2>2, <2>3 DEF Settled
  <1>3. ASSUME settled'[q]
        PROVE  Settled(q)'
    <2>1. thread[k].quiet
      BY <1>3 DEF TypeInv, OthersTyped
    <2>2. \A i \in Clicks : thread[i].at # "none" /\ thread[i].pid = q => i = k
      BY <2>1 DEF SettledInv, Quiet
    <2>3. \A i \in Clicks : thread'[i].at # "none" => thread'[i].pid # q
      BY <2>2, NoThreadTyped
    <2>4. QED
      BY <2>1, <2>3 DEF Settled
  <1>4. QED
    BY <1>1, <1>2, <1>3 DEF SettledInv

LEMMA SettledUpdate ==
    ASSUME TypeInv, TypeInv', SettledInv, NEW k \in Clicks, UpdateTable(k)
    PROVE  SettledInv'
  <1> DEFINE t == thread[k]
  <1>1. /\ t.at = "update" /\ t \in Threads /\ Fitting(t) /\ Gone(k)
        /\ status' = status /\ settled' = [settled EXCEPT ![t.pid] = t.quiet]
        /\ rows' = Updated(t)
    BY DEF UpdateTable, At, kernel, TypeInv, ThreadsTyped
  <1>2. t.op \in {"block", "free"} /\ t.pid \in Pids
    BY <1>1 DEF Fitting
  <1>3. \A p \in Pids \ {t.pid} : rows'[p] = rows[p]
    BY <1>1, <1>2 DEF Updated, TypeInv, OthersTyped
  <1>4. rows'[t.pid] = IF t.op = "block" THEN rows[t.pid] + 1 ELSE 0
    BY <1>1, <1>2 DEF Updated, TypeInv, OthersTyped
  <1>5. rows[t.pid] \in Nat
    BY <1>2 DEF TypeInv, OthersTyped
  <1>6. t.quiet => status[t.pid] \in {After(t.op), "none"}
    BY <1>1, <1>2 DEF SettledInv, Quiet, Signalled
  <1>7. t.quiet => (rows'[t.pid] > 0 /\ status[t.pid] # "none" <=> status[t.pid] = "stopped")
    BY <1>2, <1>4, <1>5, <1>6 DEF After
  <1>8. thread'[k] = NoThread /\ \A j \in Clicks \ {k} : thread'[j] = thread[j]
    BY <1>1, GoneTyped DEF TypeInv
  <1>9. QED
    BY <1>1, <1>2, <1>3, <1>7, <1>8, SettledEnd

\* An answer to a kill is the end of its click; a scan settles nothing.
LEMMA SettledReply ==
    ASSUME TypeInv, TypeInv', SettledInv, NEW c \in Clients, GetReply(c)
    PROVE  SettledInv'
  <1> DEFINE k == busy[c]
             t == thread[k]
  <1>1. /\ k \in Clicks /\ t.at = "answered" /\ t \in Threads /\ Fitting(t)
        /\ \A j \in Clicks \ {k} : thread'[j] = thread[j]
    BY ReplyThreads DEF TypeInv, ThreadsTyped
  <1>2. UNCHANGED <<rows, status>>
    BY DEF GetReply, kernel
  <1>3. \/ /\ t.op \in {"block", "free"}
           /\ thread'[k] = [t EXCEPT !.at = "update"]
           /\ settled' = settled
        \/ /\ t.op \notin {"block", "free"}
           /\ thread'[k] = NoThread
           /\ settled' = [p \in Pids |-> IF p = t.pid THEN t.quiet ELSE settled[p]]
    BY ReplyThreads
  <1>4. \A j \in Clicks : thread'[j] = thread[j] => Carries(thread'[j], thread[j])
    BY CarriesSame
  <1>5. CASE t.op \in {"block", "free"}
    <2>1. Carries(thread'[k], t)
      BY <1>1, <1>3, <1>5 DEF Carries, Signalled, Threads
    <2>2. settled' = settled
      BY <1>3, <1>5
    <2>3. QED
      BY <1>1, <1>2, <1>4, <2>1, <2>2, CarriesOn
  <1>6. CASE t.op = "scan"
    <2>1. Carries(thread'[k], t)
      BY <1>3, <1>6, NoThreadTyped DEF Carries
    <2>2. t.pid \notin Pids
      BY <1>1, <1>6, Bounds DEF Fitting
    <2>3. settled' = [p \in Pids |-> settled[p]]
      BY <1>3, <1>6, <2>2
    <2>4. settled' = settled
      BY <2>3 DEF TypeInv, OthersTyped
    <2>5. QED
      BY <1>1, <1>2, <1>4, <2>1, <2>4, CarriesOn
  <1>7. CASE t.op = "kill"
    <2>1. t.pid \in Pids
      BY <1>1, <1>7 DEF Fitting
    <2>2. thread'[k] = NoThread
      BY <1>3, <1>7
    <2>3. settled' = [p \in Pids |-> IF p = t.pid THEN t.quiet ELSE settled[p]]
      BY <1>3, <1>7
    <2>4. settled' = [settled EXCEPT ![t.pid] = t.quiet]
      BY <2>1, <2>3 DEF TypeInv, OthersTyped
    <2>5. t.quiet => status[t.pid] = "none"
      BY <1>1, <1>7, <2>1 DEF SettledInv, Quiet, Signalled, After
    <2>6. QED
      BY <1>1, <1>2, <2>1, <2>2, <2>4, <2>5, SettledEnd
  <1>8. QED
    BY <1>1, <1>5, <1>6, <1>7 DEF Threads, Signals

\* The process of a reused number has no quiet click.
LEMMA SettledStart ==
    ASSUME TypeInv, TypeInv', SettledInv, NEW p \in Pids, Start(p)
    PROVE  SettledInv'
  <1>1. /\ thread' = Disturbed(ClicksOn(p)) /\ rows' = rows
        /\ settled' = [settled EXCEPT ![p] = FALSE]
        /\ status' = [status EXCEPT ![p] = "running"]
    BY DEF Start
  <1>2. \A q \in Pids \ {p} : status'[q] = status[q] /\ settled'[q] = settled[q]
    BY <1>1 DEF TypeInv, OthersTyped
  <1>3. ~settled'[p]
    BY <1>1 DEF TypeInv, OthersTyped
  <1>4. \A j \in Clicks :
            /\ SameBut(thread'[j], thread[j])
            /\ thread'[j].quiet => j \notin ClicksOn(p) /\ thread'[j] = thread[j]
    BY <1>1, DisturbedTyped, ClicksOnTyped DEF TypeInv
  <1>5. ASSUME NEW k \in Clicks, thread'[k].quiet
        PROVE  Quiet(k)'
    <2>1. thread'[k] = thread[k] /\ k \notin ClicksOn(p)
      BY <1>4, <1>5
    <2>2. Quiet(k)
      BY <1>5, <2>1 DEF SettledInv
    <2>3. thread[k].pid # p
      BY <2>1, <2>2 DEF Quiet, ClicksOn
    <2>4. \A j \in Clicks : thread'[j].at # "none" /\ thread'[j].pid = thread[k].pid => j = k
      BY <1>4, <2>2 DEF SameBut, Quiet
    <2>5. thread[k].op # "scan" => thread[k].pid \in Pids
      BY DEF TypeInv, ThreadsTyped, Fitting
    <2>6. QED
      BY <1>2, <2>1, <2>2, <2>3, <2>4, <2>5 DEF Quiet
  <1>6. ASSUME NEW q \in Pids, settled'[q]
        PROVE  Settled(q)'
    <2>1. q # p /\ settled[q]
      BY <1>2, <1>3, <1>6
    <2>2. Settled(q)
      BY <2>1 DEF SettledInv
    <2>3. \A j \in Clicks : thread'[j].at # "none" => thread'[j].pid # q
      BY <1>4, <2>2 DEF SameBut, Settled
    <2>4. QED
      BY <1>1, <1>2, <2>1, <2>2, <2>3 DEF Settled
  <1>7. QED
    BY <1>5, <1>6 DEF SettledInv

LEMMA SettledAnswer ==
    ASSUME TypeInv, SettledInv, NEW k \in Clicks, Recv(k) \/ NoDevice(k)
    PROVE  SettledInv'
  <1>1. PICK value \in Answers : Answer(k, value)
    BY DEF Recv, NoDevice, TypeInv, OthersTyped, Answers
  <1>2. UNCHANGED <<rows, settled, status>>
    BY <1>1 DEF Answer, kernel
  <1>3. thread[k].at = "recv" \/ (thread[k].at = "signal" /\ ~device)
    BY DEF Recv, NoDevice, At
  <1>4. Carries(thread'[k], thread[k])
    BY <1>1, <1>3, AnswerThreads, NoThreadTyped DEF Carries, Signalled
  <1>5. \A j \in Clicks \ {k} : Carries(thread'[j], thread[j])
    BY <1>1, AnswerThreads, CarriesSame
  <1>6. QED
    BY <1>2, <1>4, <1>5, CarriesOn

LEMMA SettledStep ==
    ASSUME TypeInv, TypeInv', SettledInv, [Next]_vars
    PROVE  SettledInv'
  <1>1. ASSUME UNCHANGED <<rows, settled>>,
               \A p \in Pids : status'[p] \in {status[p], "none"},
               \A k \in Clicks : thread'[k] = thread[k] \/ thread'[k] = NoThread
        PROVE  SettledInv'
    BY <1>1, CarriesSame, CarriesOn
  <1>2. ASSUME NEW c \in Clients, Leave(c) PROVE SettledInv'
    <2>1. UNCHANGED <<rows, settled, status>>
      BY <1>2 DEF Leave, kernel
    <2>2. \A k \in Clicks :
             \/ thread'[k] = NoThread
             \/ SameBut(thread'[k], thread[k]) /\ (thread'[k].quiet => thread'[k] = thread[k])
      BY <1>2, LeaveThreads
    <2>3. \A k \in Clicks : thread[k].quiet => thread[k].at # "none"
      BY DEF SettledInv, Quiet
    <2>4. \A k \in Clicks : Carries(thread'[k], thread[k])
      BY <2>2, <2>3, NoThreadTyped DEF Carries, SameBut
    <2>5. QED
      BY <2>1, <2>4, CarriesOn
  <1>3. ASSUME NEW k \in Clicks, UpdateFails(k) PROVE SettledInv'
    <2>1. UNCHANGED <<rows, settled, status>> /\ Gone(k)
      BY <1>3 DEF UpdateFails, kernel
    <2>2. QED
      BY <1>1, <2>1, GoneTyped DEF TypeInv
  <1>4. ASSUME NEW p \in Pids, Exit(p) PROVE SettledInv'
    <2>1. UNCHANGED <<rows, settled, thread>>
      BY <1>4 DEF Exit
    <2>2. \A q \in Pids : status'[q] \in {status[q], "none"}
      BY <1>4 DEF Exit, TypeInv, OthersTyped
    <2>3. QED
      BY <1>1, <2>1, <2>2
  <1>5. CASE Crash
    BY <1>1, <1>5 DEF Crash, kernel
  <1>6. CASE Restart \/ Rmmod \/ Insmod \/ UNCHANGED vars
    BY <1>1, <1>6 DEF Restart, Rmmod, Insmod, vars, kernel
  <1>7. QED
    BY <1>2, <1>3, <1>4, <1>5, <1>6, SettledClick, SettledReply, SettledSend,
       SettledAnswer, SettledUpdate, SettledStart DEF Next, ThreadStep, NothingAsked

\* After a click that nothing disturbed the window lists the process exactly
\* when it is stopped.
THEOREM SettledIsShown == Spec => []SettledShown
<1>1. Init => SettledInv
  BY DEF Init, SettledInv, NoThread
<1>2. SettledInv => SettledShown
  BY DEF SettledInv, Settled, SettledShown, Listed
<1>3. QED
  BY <1>1, <1>2, SettledStep, TypeAlways, PTL DEF Spec
=============================================================================
