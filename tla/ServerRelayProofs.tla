------------------------- MODULE ServerRelayProofs -------------------------
(***************************************************************************)
(* Proofs about ServerRelay, for any clients, descriptors and bound.       *)
(***************************************************************************)
EXTENDS ServerRelay, SequenceTheorems, WellFoundedInduction, TLAPS

Places == {"none", "recv", "refuse", "end", "ended", "socket", "connect",
           "send", "call", "read", "reply", "close"}

ProcessTyped ==
    /\ alive \in BOOLEAN
    /\ fds \in [Fds -> Sockets \cup {None}]
    /\ server \in 0 .. MaxFd
    /\ made \in Relays

ThreadTyped ==
    /\ pc \in [Clients -> Places]
    /\ sock \in [Clients -> 0 .. MaxFd] /\ rfd \in [Clients -> 0 .. MaxFd]
    /\ msg \in [Clients -> Messages]
    /\ torn \in [Clients -> BOOLEAN]

NetTyped ==
    /\ peer \in [Sockets -> {"new", "open", "gone"}]
    /\ in \in [Sockets -> Seq(Messages)]
    /\ out \in [Sockets -> Seq(Messages)]

\* Requests are numbered within the bound, each being an event.
ClientTyped ==
    /\ asked \in [Clients -> Nat]
    /\ got \in [Clients -> Seq(Messages)]
    /\ phase \in [Clients -> {"idle", "waiting", "lost", "left"}]
    /\ events \in 0 .. MaxEvents
    /\ \A c \in Clients : asked[c] =< events

RestTyped ==
    /\ serverUp \in BOOLEAN /\ overlap \in BOOLEAN /\ faults \in BOOLEAN
    /\ served \subseteq Queries

TypeInv == ProcessTyped /\ ThreadTyped /\ NetTyped /\ ClientTyped /\ RestTyped

-----------------------------------------------------------------------------
(* Descriptors, sockets and messages.                                      *)

LEMMA Bounds ==
    /\ MaxFd \in Nat \ {0} /\ MaxEvents \in Nat
    /\ None \notin Sockets /\ Clients \cap Relays = {} /\ 0 \in Relays
  BY BoundsAssumption DEF Sockets, Relays

LEMMA Least ==
    ASSUME NEW T \in SUBSET Nat, T # {}
    PROVE  \E x \in T : \A y \in T : x =< y
<1> DEFINE R == {p \in Nat \X Nat : p[1] < p[2]}
<1>1. IsWellFoundedOn(R, Nat)
  BY NatLessThanWellFounded DEF OpToRel
<1>2. \A x, y \in Nat : <<y, x>> \in R <=> y < x
  OBVIOUS
<1> HIDE DEF R
<1>3. \E x \in T : \A y \in T : ~(<<y, x>> \in R)
  BY <1>1, WFMin
<1>4. PICK x \in T : \A y \in T : ~(<<y, x>> \in R)
  BY <1>3
<1>5. ASSUME NEW y \in T PROVE ~(y < x)
  <2>1. y \in Nat /\ x \in Nat
    OBVIOUS
  <2>2. ~(<<y, x>> \in R)
    BY <1>4
  <2>3. QED
    BY <1>2, <2>1, <2>2
<1>6. QED
  BY <1>5

LEMMA LowestIsFree ==
    Lowest # 0 => Lowest \in Fds /\ fds[Lowest] = None
<1>1. FreeFds \in SUBSET Nat /\ FreeFds \subseteq Fds
  BY Bounds DEF FreeFds, Fds
<1>2. CASE FreeFds = {}
  BY <1>2 DEF Lowest
<1>3. CASE FreeFds # {}
  <2>1. \E f \in FreeFds : \A g \in FreeFds : f =< g
    BY <1>1, <1>3, Least
  <2>2. Lowest \in FreeFds
    BY <1>3, <2>1 DEF Lowest
  <2>3. QED
    BY <1>1, <2>2 DEF FreeFds
<1>4. QED
  BY <1>2, <1>3

LEMMA LowestTyped == Lowest \in 0 .. MaxFd
  BY LowestIsFree, Bounds DEF Fds

LEMMA SocketTyped ==
    ASSUME ProcessTyped, NEW f
    PROVE  SocketOf(f) \in Sockets \cup {None}
  BY DEF ProcessTyped, SocketOf

LEMMA MessageTyped ==
    /\ Garbage \in Messages /\ Garbage.is = "garbage"
    /\ \A m \in Messages : m.is \in {"request", "answer"} <=> m # Garbage
    /\ \A q \in Queries : /\ [is |-> "request", of |-> q] \in Messages
                          /\ [is |-> "answer", of |-> q] \in Messages
    /\ \A m \in Messages : m # Garbage => m.of \in Queries
  BY DEF Messages, Garbage

LEMMA StreamTyped ==
    /\ \A s \in Seq(Messages) : s # <<>> => Head(s) \in Messages /\ Tail(s) \in Seq(Messages)
    /\ \A s \in Seq(Messages), m \in Messages : Append(s, m) \in Seq(Messages)
    /\ <<>> \in Seq(Messages)
  OBVIOUS

LEMMA GotoTyped ==
    ASSUME ThreadTyped, NEW c \in Clients, NEW from, NEW to \in Places, Goto(c, from, to)
    PROVE  /\ pc' \in [Clients -> Places] /\ alive /\ pc[c] = from /\ pc'[c] = to
           /\ \A d \in Clients \ {c} : pc'[d] = pc[d]
  BY DEF ThreadTyped, Goto

LEMMA SendTyped ==
    ASSUME TypeInv, NEW c \in Clients, NEW from, NEW f, NEW m \in Messages,
           NEW sent \in Places, NEW failed \in Places, Send(c, from, f, m, sent, failed)
    PROVE  /\ pc' \in [Clients -> Places]
           /\ msg' \in [Clients -> Messages]
           /\ out' \in [Sockets -> Seq(Messages)]
  <1> DEFINE s == SocketOf(f)
  <1>1. pc' \in [Clients -> Places]
    BY GotoTyped DEF Send, TypeInv
  <1>2. msg' \in [Clients -> Messages]
    BY MessageTyped DEF Send, TypeInv, ThreadTyped
  <1>3. out' = out \/ (s \in Sockets /\ out' = [out EXCEPT ![s] = Append(@, m)])
    BY SocketTyped DEF Send, TypeInv
  <1>4. out' \in [Sockets -> Seq(Messages)]
    <2>1. s \in Sockets => Append(out[s], m) \in Seq(Messages)
      BY StreamTyped DEF TypeInv, NetTyped
    <2>2. QED
      BY <1>3, <2>1 DEF TypeInv, NetTyped
  <1>5. QED
    BY <1>1, <1>2, <1>4

LEMMA CloseTyped ==
    ASSUME TypeInv, NEW f, Close(f)
    PROVE  /\ fds' \in [Fds -> Sockets \cup {None}]
           /\ in' \in [Sockets -> Seq(Messages)]
           /\ torn' \in [Clients -> BOOLEAN]
  <1>1. fds' \in [Fds -> Sockets \cup {None}]
    BY DEF Close, TypeInv, ProcessTyped
  <1>2. in' \in [Sockets -> Seq(Messages)]
    BY SocketTyped, StreamTyped DEF Close, TypeInv, NetTyped
  <1>3. torn' \in [Clients -> BOOLEAN]
    BY DEF Close
  <1>4. QED
    BY <1>1, <1>2, <1>3

LEMMA DieTyped ==
    ASSUME TypeInv, Die
    PROVE  TypeInv'
  <1>1. ProcessTyped'
    <2>1. fds' \in [Fds -> Sockets \cup {None}]
      BY DEF Die
    <2>2. alive' = FALSE /\ server' = 0 /\ made' = made
      BY DEF Die
    <2>3. 0 \in 0 .. MaxFd
      BY Bounds
    <2>4. made' \in Relays /\ alive' \in BOOLEAN /\ server' \in 0 .. MaxFd
      BY <2>2, <2>3 DEF TypeInv, ProcessTyped
    <2>5. QED
      BY <2>1, <2>4 DEF ProcessTyped
  <1>2. ThreadTyped'
    BY Bounds, MessageTyped DEF Die, ThreadTyped, Places
  <1>3. NetTyped'
    BY StreamTyped DEF Die, TypeInv, NetTyped
  <1>4. ClientTyped' /\ RestTyped'
    BY DEF Die, TypeInv, ClientTyped, RestTyped, client, history
  <1>5. QED
    BY <1>1, <1>2, <1>3, <1>4 DEF TypeInv

-----------------------------------------------------------------------------
(* Types.                                                                  *)

LEMMA ReceiveTyped ==
    ASSUME TypeInv, NEW c \in Clients,
           Accept(c) \/ RecvRequest(c) \/ RecvNothing(c) \/ Refuse(c) \/ End(c)
    PROVE  TypeInv'
  <1> USE DEF TypeInv
  <1>1. CASE Accept(c)
    <2>1. pc' \in [Clients -> Places]
      BY <1>1, GotoTyped DEF Accept, Places
    <2>2. Lowest \in Fds
      BY <1>1, LowestIsFree DEF Accept
    <2>3. ProcessTyped' /\ ThreadTyped'
      BY <1>1, <2>1, <2>2, LowestTyped DEF Accept, ProcessTyped, ThreadTyped, Sockets
    <2>4. NetTyped' /\ ClientTyped' /\ RestTyped'
      BY <1>1 DEF Accept, NetTyped, ClientTyped, RestTyped, net, client, history
    <2>5. QED
      BY <2>3, <2>4
  <1>2. CASE RecvRequest(c)
    <2> DEFINE s == SocketOf(sock[c])
    <2>1. s \in Sockets /\ in[s] # <<>> /\ in[s] \in Seq(Messages)
      BY <1>2, SocketTyped DEF RecvRequest, NetTyped
    <2>2. pc' \in [Clients -> Places]
      BY <1>2, GotoTyped DEF RecvRequest, Places
    <2>3. ThreadTyped'
      BY <1>2, <2>1, <2>2, StreamTyped DEF RecvRequest, ThreadTyped
    <2>4. NetTyped'
      BY <1>2, <2>1, StreamTyped DEF RecvRequest, NetTyped
    <2>5. ProcessTyped' /\ ClientTyped' /\ RestTyped'
      BY <1>2 DEF RecvRequest, ProcessTyped, ClientTyped, RestTyped, process, client, history
    <2>6. QED
      BY <2>3, <2>4, <2>5
  <1>3. CASE RecvNothing(c)
    <2>1. pc' \in [Clients -> Places]
      BY <1>3, GotoTyped DEF RecvNothing, Places
    <2>2. ThreadTyped'
      BY <1>3, <2>1, MessageTyped DEF RecvNothing, ThreadTyped
    <2>3. ProcessTyped' /\ NetTyped' /\ ClientTyped' /\ RestTyped'
      BY <1>3 DEF RecvNothing, ProcessTyped, NetTyped, ClientTyped, RestTyped,
                  process, net, client, history
    <2>4. QED
      BY <2>2, <2>3
  <1>4. CASE Refuse(c)
    <2>1. ThreadTyped' /\ NetTyped'
      BY <1>4, SendTyped, MessageTyped DEF Refuse, ThreadTyped, NetTyped, Places
    <2>2. ProcessTyped' /\ ClientTyped' /\ RestTyped'
      BY <1>4 DEF Refuse, ProcessTyped, ClientTyped, RestTyped, process, client, history
    <2>3. QED
      BY <2>1, <2>2
  <1>5. CASE End(c)
    <2>1. pc' \in [Clients -> Places]
      BY <1>5, GotoTyped DEF End, Places
    <2>2. /\ fds' \in [Fds -> Sockets \cup {None}]
          /\ in' \in [Sockets -> Seq(Messages)]
          /\ torn' \in [Clients -> BOOLEAN]
      <3>1. Close(sock[c])
        BY <1>5 DEF End
      <3>2. QED
        BY <3>1, CloseTyped
    <2>4. sock' \in [Clients -> 0 .. MaxFd]
      BY <1>5, Bounds DEF End, ThreadTyped
    <2>5. ProcessTyped' /\ ThreadTyped' /\ NetTyped'
      BY <1>5, <2>1, <2>2, <2>4 DEF End, ProcessTyped, ThreadTyped, NetTyped
    <2>3. ClientTyped' /\ RestTyped'
      BY <1>5 DEF End, ClientTyped, RestTyped, client, history
    <2>6. QED
      BY <2>3, <2>5
  <1>6. QED
    BY <1>1, <1>2, <1>3, <1>4, <1>5

LEMMA ConnectTyped ==
    ASSUME TypeInv, NEW c \in Clients,
           NewSocket(c) \/ NoSocket(c) \/ Connect(c) \/ SendRequest(c) \/ CallRead(c)
    PROVE  TypeInv'
  <1> USE DEF TypeInv
  <1>1. CASE NewSocket(c)
    <2>1. pc' \in [Clients -> Places]
      BY <1>1, GotoTyped DEF NewSocket, Places
    <2>2. made + 1 \in Relays /\ made + 1 \in Sockets
      BY <1>1, Bounds DEF NewSocket, ProcessTyped, Relays, Sockets
    <2>3. ProcessTyped'
      BY <1>1, <2>2, LowestTyped DEF NewSocket, ProcessTyped
    <2>4. ThreadTyped' /\ NetTyped' /\ ClientTyped' /\ RestTyped'
      BY <1>1, <2>1 DEF NewSocket, ThreadTyped, NetTyped, ClientTyped, RestTyped, net, client
    <2>5. QED
      BY <2>3, <2>4
  <1>2. CASE NoSocket(c)
    <2>1. pc' \in [Clients -> Places]
      BY <1>2, GotoTyped DEF NoSocket, Places
    <2>2. ProcessTyped' /\ ThreadTyped' /\ NetTyped' /\ RestTyped'
      BY <1>2, <2>1, Bounds DEF NoSocket, ProcessTyped, ThreadTyped, NetTyped, RestTyped, net
    <2>3. ClientTyped'
      <3>1. events' \in 0 .. MaxEvents /\ events' >= events
        BY <1>2, Bounds DEF NoSocket, ClientTyped
      <3>2. UNCHANGED client
        BY <1>2 DEF NoSocket
      <3>3. QED
        BY <3>1, <3>2 DEF ClientTyped, client
    <2>4. QED
      BY <2>2, <2>3
  <1>3. CASE Connect(c)
    <2>1. pc' \in [Clients -> Places]
      BY <1>3, GotoTyped DEF Connect, Places
    <2>2. NetTyped'
      BY <1>3, SocketTyped DEF Connect, NetTyped
    <2>3. ProcessTyped' /\ ThreadTyped' /\ ClientTyped' /\ RestTyped'
      BY <1>3, <2>1 DEF Connect, ProcessTyped, ThreadTyped, ClientTyped, RestTyped,
                        process, client, history
    <2>4. QED
      BY <2>2, <2>3
  <1>4. CASE SendRequest(c)
    <2>1. msg[c] \in Messages
      BY DEF ThreadTyped
    <2>2. ThreadTyped' /\ NetTyped'
      BY <1>4, <2>1, SendTyped DEF SendRequest, ThreadTyped, NetTyped, Places
    <2>3. ProcessTyped' /\ ClientTyped' /\ RestTyped'
      BY <1>4 DEF SendRequest, ProcessTyped, ClientTyped, RestTyped, process, client, history
    <2>4. QED
      BY <2>2, <2>3
  <1>5. CASE CallRead(c)
    <2>1. pc' \in [Clients -> Places]
      BY <1>5, GotoTyped DEF CallRead, Places
    <2>2. ThreadTyped'
      BY <1>5, <2>1 DEF CallRead, ThreadTyped, ProcessTyped
    <2>3. ProcessTyped' /\ NetTyped' /\ ClientTyped' /\ RestTyped'
      BY <1>5 DEF CallRead, ProcessTyped, NetTyped, ClientTyped, RestTyped,
                  process, net, client, history
    <2>4. QED
      BY <2>2, <2>3
  <1>6. QED
    BY <1>1, <1>2, <1>3, <1>4, <1>5

LEMMA AnswerTyped ==
    ASSUME TypeInv, NEW c \in Clients,
           ReadAnswer(c) \/ ReadNothing(c) \/ Reply(c) \/ CloseServer(c)
    PROVE  TypeInv'
  <1> USE DEF TypeInv
  <1>1. CASE ReadAnswer(c)
    <2> DEFINE s == SocketOf(rfd[c])
    <2>1. s \in Sockets /\ in[s] # <<>> /\ in[s] \in Seq(Messages)
      BY <1>1, SocketTyped DEF ReadAnswer, NetTyped
    <2>2. pc' \in [Clients -> Places]
      BY <1>1, GotoTyped DEF ReadAnswer, Places
    <2>3. ThreadTyped'
      <3>1. rfd' \in [Clients -> 0 .. MaxFd]
        BY <1>1, Bounds DEF ReadAnswer, ThreadTyped
      <3>2. msg' \in [Clients -> Messages]
        BY <1>1, <2>1, StreamTyped DEF ReadAnswer, ThreadTyped
      <3>3. torn' \in [Clients -> BOOLEAN] /\ sock' = sock
        BY <1>1 DEF ReadAnswer, ThreadTyped
      <3>4. QED
        BY <2>2, <3>1, <3>2, <3>3 DEF ThreadTyped
    <2>4. NetTyped'
      BY <1>1, <2>1, StreamTyped DEF ReadAnswer, NetTyped
    <2>5. ProcessTyped' /\ ClientTyped' /\ RestTyped'
      BY <1>1 DEF ReadAnswer, ProcessTyped, ClientTyped, RestTyped, process, client, history
    <2>6. QED
      BY <2>3, <2>4, <2>5
  <1>2. CASE ReadNothing(c)
    <2>1. pc' \in [Clients -> Places]
      BY <1>2, GotoTyped DEF ReadNothing, Places
    <2>2. ThreadTyped'
      <3>1. rfd' \in [Clients -> 0 .. MaxFd]
        BY <1>2, Bounds DEF ReadNothing, ThreadTyped
      <3>2. msg' \in [Clients -> Messages]
        BY <1>2, MessageTyped DEF ReadNothing, ThreadTyped
      <3>3. torn' \in [Clients -> BOOLEAN] /\ sock' = sock
        BY <1>2 DEF ReadNothing, ThreadTyped
      <3>4. QED
        BY <2>1, <3>1, <3>2, <3>3 DEF ThreadTyped
    <2>3. ProcessTyped' /\ NetTyped' /\ ClientTyped' /\ RestTyped'
      BY <1>2 DEF ReadNothing, ProcessTyped, NetTyped, ClientTyped, RestTyped,
                  process, net, client, history
    <2>4. QED
      BY <2>2, <2>3
  <1>3. CASE Reply(c)
    <2>1. msg[c] \in Messages
      BY DEF ThreadTyped
    <2>2. ThreadTyped' /\ NetTyped'
      BY <1>3, <2>1, SendTyped DEF Reply, ThreadTyped, NetTyped, Places
    <2>3. ProcessTyped' /\ ClientTyped' /\ RestTyped'
      BY <1>3 DEF Reply, ProcessTyped, ClientTyped, RestTyped, process, client, history
    <2>4. QED
      BY <2>2, <2>3
  <1>4. CASE CloseServer(c)
    <2>1. pc' \in [Clients -> Places]
      BY <1>4, GotoTyped DEF CloseServer, Places
    <2>2. /\ fds' \in [Fds -> Sockets \cup {None}]
          /\ in' \in [Sockets -> Seq(Messages)]
          /\ torn' \in [Clients -> BOOLEAN]
      <3>1. Close(server)
        BY <1>4 DEF CloseServer
      <3>2. QED
        BY <3>1, CloseTyped
    <2>3. msg' \in [Clients -> Messages]
      BY <1>4, MessageTyped DEF CloseServer, ThreadTyped
    <2>4. ProcessTyped' /\ ThreadTyped' /\ NetTyped'
      BY <1>4, <2>1, <2>2, <2>3 DEF CloseServer, ProcessTyped, ThreadTyped, NetTyped
    <2>5. ClientTyped' /\ RestTyped'
      BY <1>4 DEF CloseServer, ClientTyped, RestTyped, client, history
    <2>6. QED
      BY <2>4, <2>5
  <1>5. QED
    BY <1>1, <1>2, <1>3, <1>4

LEMMA TornTyped ==
    ASSUME TypeInv, NEW c \in Clients, TornRead(c)
    PROVE  TypeInv'
  <1> DEFINE s == SocketOf(ReadFd(c))
  <1> USE DEF TypeInv
  <1>1. pc' \in [Clients -> Places]
    BY GotoTyped DEF TornRead, Places
  <1>2. torn' \in [Clients -> BOOLEAN]
    BY DEF TornRead, ThreadTyped
  <1>3. msg' \in [Clients -> Messages] /\ rfd' \in [Clients -> 0 .. MaxFd] /\ sock' = sock
    BY MessageTyped, Bounds DEF TornRead, ThreadTyped
  <1>4. in' \in [Sockets -> Seq(Messages)]
    <2>1. \/ in' = in
          \/ /\ s # None /\ in[s] # <<>>
             /\ \E rest \in {<<>>, <<Garbage>>} : in' = [in EXCEPT ![s] = rest \o Tail(@)]
      BY DEF TornRead
    <2>2. CASE in' = in
      BY <2>2 DEF NetTyped
    <2>3. ASSUME s # None, in[s] # <<>>, NEW rest \in {<<>>, <<Garbage>>},
                 in' = [in EXCEPT ![s] = rest \o Tail(@)]
          PROVE  in' \in [Sockets -> Seq(Messages)]
      <3>1. s \in Sockets
        BY <2>3, SocketTyped
      <3>4. Tail(in[s]) \in Seq(Messages)
        BY <2>3, <3>1, StreamTyped DEF NetTyped
      <3>5. <<>> \in Seq(Messages) /\ <<Garbage>> \in Seq(Messages)
        BY MessageTyped
      <3>2. Tail(in[s]) \in Seq(Messages) /\ rest \in Seq(Messages)
        BY <3>4, <3>5
      <3>3. rest \o Tail(in[s]) \in Seq(Messages)
        BY <3>2
      <3>6. QED
        BY <2>3, <3>1, <3>3 DEF NetTyped
    <2>4. QED
      BY <2>1, <2>2, <2>3
  <1>5. ThreadTyped' /\ NetTyped'
    BY <1>1, <1>2, <1>3, <1>4 DEF TornRead, ThreadTyped, NetTyped
  <1>6. ProcessTyped' /\ ClientTyped' /\ RestTyped'
    BY DEF TornRead, ProcessTyped, ClientTyped, RestTyped, process, client, history
  <1>7. QED
    BY <1>5, <1>6

LEMMA ServerTyped ==
    ASSUME TypeInv,
           (\E r \in Relays : ServerAnswers(r)) \/ ServerDies \/ ServerStarts
    PROVE  TypeInv'
  <1> USE DEF TypeInv
  <1>1. ASSUME NEW r \in Relays, ServerAnswers(r)
        PROVE  TypeInv'
    <2> DEFINE m == Head(out[r])
               reply == IF m.is = "request" THEN [is |-> "answer", of |-> m.of] ELSE Garbage
    <2>1. r \in Sockets /\ m \in Messages /\ Tail(out[r]) \in Seq(Messages)
      BY <1>1, StreamTyped DEF ServerAnswers, NetTyped, Sockets
    <2>2. m.is = "request" => m.of \in Queries
      BY <2>1, MessageTyped
    <2>3. reply \in Messages
      BY <2>2, MessageTyped
    <2>4. Append(in[r], reply) \in Seq(Messages)
      BY <2>1, <2>3, StreamTyped DEF NetTyped
    <2>5. in' = in \/ in' = [in EXCEPT ![r] = Append(in[r], reply)]
      BY <1>1 DEF ServerAnswers
    <2>6. in' \in [Sockets -> Seq(Messages)]
      BY <2>4, <2>5 DEF NetTyped
    <2>7. peer' \in [Sockets -> {"new", "open", "gone"}]
      BY <1>1 DEF ServerAnswers, NetTyped
    <2>8. out' \in [Sockets -> Seq(Messages)]
      BY <1>1, <2>1 DEF ServerAnswers, NetTyped
    <2>9. served' \subseteq Queries
      BY <1>1, <2>2 DEF ServerAnswers, RestTyped
    <2>10. ProcessTyped' /\ ThreadTyped' /\ ClientTyped' /\ RestTyped'
      BY <1>1, <2>9 DEF ServerAnswers, ProcessTyped, ThreadTyped, ClientTyped, RestTyped,
                        process, thread, client
    <2>11. QED
      BY <2>6, <2>7, <2>8, <2>10 DEF NetTyped
  <1>2. CASE ServerDies
    <2>1. peer' \in [Sockets -> {"new", "open", "gone"}]
      BY <1>2 DEF ServerDies, NetTyped
    <2>2. out' \in [Sockets -> Seq(Messages)]
      BY <1>2, StreamTyped DEF ServerDies, NetTyped
    <2>3. events' \in 0 .. MaxEvents /\ events' >= events /\ faults' \in BOOLEAN
      BY <1>2, Bounds DEF ServerDies, Fault, ClientTyped
    <2>4. ClientTyped'
      BY <1>2, <2>3 DEF ServerDies, ClientTyped, client
    <2>5. ProcessTyped' /\ ThreadTyped' /\ RestTyped' /\ in' = in
      BY <1>2, <2>3 DEF ServerDies, ProcessTyped, ThreadTyped, RestTyped, process, thread
    <2>6. QED
      BY <2>1, <2>2, <2>4, <2>5 DEF NetTyped
  <1>3. CASE ServerStarts
    BY <1>3 DEF ServerStarts, ProcessTyped, ThreadTyped, NetTyped, ClientTyped, RestTyped,
                process, thread, net, client, history
  <1>4. QED
    BY <1>1, <1>2, <1>3

LEMMA ClientsTyped ==
    ASSUME TypeInv, NEW c \in Clients,
           Ask(c) \/ GetAnswer(c) \/ Broken(c) \/ Leave(c)
    PROVE  TypeInv'
  <1> USE DEF TypeInv
  <1> c \in Sockets
    BY DEF Sockets
  <1>1. CASE Ask(c)
    <2>1. events' \in 0 .. MaxEvents /\ events' = events + 1
      BY <1>1, Bounds DEF Ask, ClientTyped
    <2>2. <<c, asked[c] + 1>> \in Queries
      BY <2>1, Bounds DEF ClientTyped, Queries
    <2>3. Append(in[c], [is |-> "request", of |-> <<c, asked[c] + 1>>]) \in Seq(Messages)
      BY <2>2, MessageTyped, StreamTyped DEF NetTyped
    <2>4. \/ in' = in
          \/ in' = [in EXCEPT ![c] = Append(in[c],
                                   [is |-> "request", of |-> <<c, asked[c] + 1>>])]
      BY <1>1 DEF Ask
    <2>5. NetTyped'
      BY <1>1, <2>3, <2>4 DEF Ask, NetTyped
    <2>6. asked' \in [Clients -> Nat] /\ \A d \in Clients : asked'[d] =< events'
      BY <1>1, <2>1 DEF Ask, ClientTyped
    <2>7. ClientTyped'
      BY <1>1, <2>1, <2>6 DEF Ask, ClientTyped
    <2>8. ProcessTyped' /\ ThreadTyped' /\ RestTyped'
      BY <1>1 DEF Ask, ProcessTyped, ThreadTyped, RestTyped, process, thread
    <2>9. QED
      BY <2>5, <2>7, <2>8
  <1>2. CASE GetAnswer(c)
    <2>1. Head(out[c]) \in Messages /\ Tail(out[c]) \in Seq(Messages)
      BY <1>2, StreamTyped DEF GetAnswer, NetTyped
    <2>2. Append(got[c], Head(out[c])) \in Seq(Messages)
      BY <2>1, StreamTyped DEF ClientTyped
    <2>3. NetTyped'
      BY <1>2, <2>1 DEF GetAnswer, NetTyped
    <2>4. ClientTyped'
      BY <1>2, <2>2 DEF GetAnswer, ClientTyped, history
    <2>5. ProcessTyped' /\ ThreadTyped' /\ RestTyped'
      BY <1>2 DEF GetAnswer, ProcessTyped, ThreadTyped, RestTyped, process, thread, history
    <2>6. QED
      BY <2>3, <2>4, <2>5
  <1>3. CASE Broken(c)
    BY <1>3 DEF Broken, ProcessTyped, ThreadTyped, NetTyped, ClientTyped, RestTyped,
                process, thread, net, history
  <1>4. CASE Leave(c)
    <2>1. NetTyped'
      BY <1>4, StreamTyped DEF Leave, NetTyped
    <2>2. events' \in 0 .. MaxEvents /\ events' >= events /\ faults' \in BOOLEAN
      BY <1>4, Bounds DEF Leave, Fault, ClientTyped
    <2>3. ClientTyped'
      BY <1>4, <2>2 DEF Leave, ClientTyped
    <2>4. ProcessTyped' /\ ThreadTyped' /\ RestTyped'
      BY <1>4, <2>2 DEF Leave, ProcessTyped, ThreadTyped, RestTyped, process, thread
    <2>5. QED
      BY <2>1, <2>3, <2>4
  <1>5. QED
    BY <1>1, <1>2, <1>3, <1>4

LEMMA TypeStep ==
    ASSUME TypeInv, [Next]_vars
    PROVE  TypeInv'
  <1>1. ASSUME NEW c \in Clients, ThreadStep(c)
        PROVE  TypeInv'
    BY <1>1, ReceiveTyped, ConnectTyped, AnswerTyped, TornTyped, DieTyped
    DEF ThreadStep, Killed, SendKills
  <1>2. CASE UNCHANGED vars
    BY <1>2 DEF vars, TypeInv, ProcessTyped, ThreadTyped, NetTyped, ClientTyped, RestTyped,
                process, thread, net, client, history
  <1>3. QED
    BY <1>1, <1>2, ClientsTyped, ServerTyped DEF Next, Waiting

LEMMA TypeAlways == Spec => []TypeInv
<1>1. Init => TypeInv
  <2> SUFFICES ASSUME Init PROVE TypeInv
    OBVIOUS
  <2>1. ProcessTyped
    BY Bounds DEF Init, ProcessTyped, Sockets, Fds
  <2>2. ThreadTyped
    BY Bounds, MessageTyped DEF Init, ThreadTyped, Places
  <2>3. NetTyped
    BY StreamTyped DEF Init, NetTyped
  <2>6. got \in [Clients -> Seq(Messages)] /\ events \in 0 .. MaxEvents
    BY Bounds, StreamTyped DEF Init
  <2>7. /\ asked \in [Clients -> Nat] /\ \A c \in Clients : asked[c] =< events
        /\ phase \in [Clients -> {"idle", "waiting", "lost", "left"}]
    BY DEF Init
  <2>8. RestTyped
    BY DEF Init, RestTyped
  <2>4. ClientTyped /\ RestTyped
    BY <2>6, <2>7, <2>8 DEF ClientTyped
  <2>5. QED
    BY <2>1, <2>2, <2>3, <2>4 DEF TypeInv
<1>2. QED
  BY <1>1, TypeStep, PTL DEF Spec

\* Every reachable state is well typed, descriptors and messages included.
THEOREM RelayTypeCorrect == Spec => []TypeOK
<1>1. TypeInv => TypeOK
  BY DEF TypeInv, ProcessTyped, ThreadTyped, NetTyped, ClientTyped, RestTyped, Places, TypeOK
<1>2. QED
  BY <1>1, TypeAlways, PTL

-----------------------------------------------------------------------------
(* Descriptors, as long as no relays have overlapped.                      *)

Busy(c)  == pc[c] \in {"connect", "send", "call", "read", "reply", "close"}
Using(c) == pc[c] \notin {"none", "ended"}

\* One relay at most is past its socket(), and _ServerSocket is its own; so
\* closing it closes nobody else's.
Tidy ==
    alive /\ ~overlap =>
        /\ \A c, d \in Clients : Busy(c) /\ Busy(d) => c = d
        /\ \A c \in Clients : Using(c) => sock[c] \in Fds
        /\ \A f \in Fds : \A c \in Clients : fds[f] = c <=> sock[c] = f /\ Using(c)
        /\ \A f \in Fds : fds[f] \in Relays \ {0} => server = f /\ \E c \in Clients : Busy(c)
        /\ (\E c \in Clients : Busy(c)) =>
                server = 0 \/ (server \in Fds /\ fds[server] \in Relays \ {0})

\* Most steps move threads within the phases that Tidy tells apart.
LEMMA TidyMoves ==
    ASSUME Tidy, UNCHANGED <<fds, server, sock>>, alive' => alive, overlap' = overlap,
           \A c \in Clients : (Busy(c)' <=> Busy(c)) /\ (Using(c)' <=> Using(c))
    PROVE  Tidy'
  BY DEF Tidy

LEMMA TidyGoto ==
    ASSUME Tidy, ThreadTyped, NEW c \in Clients, NEW from \in Places, NEW to \in Places,
           Goto(c, from, to), UNCHANGED <<alive, fds, server, sock, overlap>>,
           \/ {from, to} \subseteq {"recv", "refuse", "end", "socket"}
           \/ {from, to} \subseteq {"connect", "send", "call", "read", "reply", "close"}
    PROVE  Tidy'
  <1>1. \A d \in Clients : (Busy(d)' <=> Busy(d)) /\ (Using(d)' <=> Using(d))
    BY GotoTyped DEF Busy, Using
  <1>2. QED
    BY <1>1, TidyMoves

LEMMA TidyAccept ==
    ASSUME TypeInv, Tidy, NEW c \in Clients, Accept(c)
    PROVE  Tidy'
  <1> SUFFICES ASSUME alive, ~overlap PROVE Tidy'
    BY DEF Accept, Tidy, history
  <1>1. /\ Lowest \in Fds /\ fds[Lowest] = None
        /\ fds' = [fds EXCEPT ![Lowest] = c] /\ sock' = [sock EXCEPT ![c] = Lowest]
        /\ pc[c] = "none" /\ pc'[c] = "recv" /\ \A d \in Clients \ {c} : pc'[d] = pc[d]
        /\ UNCHANGED <<server, overlap>>
    BY LowestIsFree, GotoTyped DEF Accept, TypeInv, Places, history
  <1>2. /\ \A d \in Clients : Busy(d)' <=> Busy(d)
        /\ Using(c)' /\ ~Using(c) /\ \A d \in Clients \ {c} : Using(d)' <=> Using(d)
    BY <1>1 DEF Busy, Using
  <1>3. /\ fds'[Lowest] = c /\ \A f \in Fds \ {Lowest} : fds'[f] = fds[f]
        /\ sock'[c] = Lowest /\ \A d \in Clients \ {c} : sock'[d] = sock[d]
    BY <1>1 DEF TypeInv, ProcessTyped, ThreadTyped
  <1>4. c \notin Relays /\ None \notin Clients /\ None \notin Relays
    BY Bounds DEF Sockets
  <1>5. \A f \in Fds : \A d \in Clients : fds'[f] = d <=> sock'[d] = f /\ Using(d)'
    BY <1>1, <1>2, <1>3, <1>4 DEF Tidy
  <1>6. \A f \in Fds : fds'[f] \in Relays \ {0} => fds[f] \in Relays \ {0}
    BY <1>3, <1>4
  <1>7. (\E d \in Clients : Busy(d)') =>
            server = 0 \/ (server \in Fds /\ fds'[server] \in Relays \ {0})
    BY <1>1, <1>2, <1>3, <1>4 DEF Tidy
  <1>8. QED
    BY <1>1, <1>2, <1>3, <1>5, <1>6, <1>7 DEF Tidy

LEMMA TidyEnd ==
    ASSUME TypeInv, Tidy, NEW c \in Clients, End(c)
    PROVE  Tidy'
  <1> SUFFICES ASSUME alive, ~overlap PROVE Tidy'
    BY DEF End, Tidy, history
  <1> DEFINE f == sock[c]
  <1>1. /\ pc[c] = "end" /\ pc'[c] = "ended" /\ \A d \in Clients \ {c} : pc'[d] = pc[d]
        /\ sock' = [sock EXCEPT ![c] = 0] /\ Close(f)
        /\ UNCHANGED <<server, overlap>>
    BY GotoTyped DEF End, TypeInv, Places, history
  <1>2. f \in Fds /\ fds[f] = c
    BY <1>1 DEF Tidy, Using
  <1>3. fds' = [fds EXCEPT ![f] = None]
    BY <1>1, <1>2 DEF Close
  <1>4. /\ \A d \in Clients : Busy(d)' <=> Busy(d)
        /\ ~Using(c)' /\ \A d \in Clients \ {c} : Using(d)' <=> Using(d)
    BY <1>1 DEF Busy, Using
  <1>5. /\ fds'[f] = None /\ \A g \in Fds \ {f} : fds'[g] = fds[g]
        /\ \A d \in Clients \ {c} : sock'[d] = sock[d]
    BY <1>1, <1>2, <1>3 DEF TypeInv, ProcessTyped, ThreadTyped
  <1>6. c \notin Relays /\ None \notin Clients /\ None \notin Relays
    BY Bounds DEF Sockets
  <1>7. \A g \in Fds : \A d \in Clients : fds'[g] = d <=> sock'[d] = g /\ Using(d)'
    BY <1>2, <1>4, <1>5, <1>6 DEF Tidy
  <1>8. \A g \in Fds : fds'[g] \in Relays \ {0} => fds[g] \in Relays \ {0}
    BY <1>5, <1>6
  <1>9. (\E d \in Clients : Busy(d)') =>
            server = 0 \/ (server \in Fds /\ fds'[server] \in Relays \ {0})
    BY <1>1, <1>2, <1>4, <1>5, <1>6 DEF Tidy
  <1>10. QED
    BY <1>1, <1>4, <1>5, <1>7, <1>8, <1>9 DEF Tidy

\* A relay that begins alone finds no socket left by another.
LEMMA TidySocket ==
    ASSUME TypeInv, Tidy, NEW c \in Clients, NewSocket(c) \/ NoSocket(c)
    PROVE  Tidy'
  <1> SUFFICES ASSUME alive, ~overlap' PROVE Tidy'
    BY DEF NewSocket, NoSocket, Tidy
  <1>1. /\ ~overlap /\ \A d \in Clients \ {c} : ~Relaying(d)
        /\ pc[c] = "socket" /\ pc'[c] = "connect" /\ \A d \in Clients \ {c} : pc'[d] = pc[d]
        /\ sock' = sock
    BY GotoTyped DEF NewSocket, NoSocket, TypeInv, Places
  <1>2. /\ \A d \in Clients : ~Busy(d)
        /\ Busy(c)' /\ \A d \in Clients \ {c} : ~Busy(d)'
        /\ \A d \in Clients : Using(d)' <=> Using(d)
    BY <1>1 DEF Relaying, Busy, Using
  <1>3. \A f \in Fds : fds[f] \notin Relays \ {0}
    BY <1>1, <1>2 DEF Tidy
  <1>4. CASE NewSocket(c)
    <2>1. /\ Lowest \in Fds /\ fds[Lowest] = None /\ server' = Lowest
          /\ fds' = [fds EXCEPT ![Lowest] = made + 1]
      BY <1>4, LowestIsFree DEF NewSocket
    <2>2. made + 1 \in Relays \ {0}
      BY <1>4, Bounds DEF NewSocket, TypeInv, ProcessTyped, Relays
    <2>3. fds'[Lowest] = made + 1 /\ \A f \in Fds \ {Lowest} : fds'[f] = fds[f]
      BY <2>1 DEF TypeInv, ProcessTyped
    <2>4. made + 1 \notin Clients /\ None \notin Clients
      BY <2>2, Bounds DEF Sockets
    <2>5. \A f \in Fds : \A d \in Clients : fds'[f] = d <=> sock'[d] = f /\ Using(d)'
      BY <1>1, <1>2, <2>1, <2>3, <2>4 DEF Tidy
    <2>6. \A f \in Fds : fds'[f] \in Relays \ {0} => server' = f
      BY <1>3, <2>1, <2>3
    <2>7. server' \in Fds /\ fds'[server'] \in Relays \ {0}
      BY <2>1, <2>2, <2>3
    <2>8. QED
      BY <1>1, <1>2, <2>5, <2>6, <2>7 DEF Tidy
  <1>5. CASE NoSocket(c)
    <2>1. fds' = fds /\ server' = 0
      BY <1>5 DEF NoSocket
    <2>2. QED
      BY <1>1, <1>2, <1>3, <2>1 DEF Tidy
  <1>6. QED
    BY <1>4, <1>5

LEMMA TidyClose ==
    ASSUME TypeInv, Tidy, NEW c \in Clients, CloseServer(c)
    PROVE  Tidy'
  <1> SUFFICES ASSUME alive, ~overlap PROVE Tidy'
    BY DEF CloseServer, Tidy, history
  <1>1. /\ pc[c] = "close" /\ pc'[c] = "recv" /\ \A d \in Clients \ {c} : pc'[d] = pc[d]
        /\ Close(server) /\ UNCHANGED <<server, sock, overlap>>
    BY GotoTyped DEF CloseServer, TypeInv, Places, history
  <1>2. /\ Busy(c) /\ \A d \in Clients : ~Busy(d)'
        /\ \A d \in Clients : Using(d)' <=> Using(d)
    BY <1>1 DEF Busy, Using, Tidy
  <1>3. 0 \notin Fds
    BY Bounds DEF Fds
  <1>4. \/ server = 0 /\ fds' = fds
        \/ /\ server \in Fds /\ fds[server] \in Relays \ {0}
           /\ fds' = [fds EXCEPT ![server] = None]
    BY <1>1, <1>2, <1>3 DEF Tidy, Close
  <1>5. None \notin Relays \cup Clients /\ Relays \cap Clients = {}
    BY Bounds DEF Sockets
  <1>6. \A f \in Fds : \/ fds'[f] = fds[f] /\ f # server
                       \/ fds'[f] = None /\ fds[f] \in Relays \ {0} /\ f = server
    BY <1>3, <1>4 DEF TypeInv, ProcessTyped
  <1>7. \A f \in Fds : \A d \in Clients : fds'[f] = d <=> fds[f] = d
    BY <1>5, <1>6
  <1>8. \A f \in Fds : fds'[f] \notin Relays \ {0}
    BY <1>5, <1>6 DEF Tidy
  <1>9. QED
    BY <1>1, <1>2, <1>7, <1>8 DEF Tidy

LEMMA TidyStep ==
    ASSUME TypeInv, Tidy, [Next]_vars
    PROVE  Tidy'
  <1> USE DEF TypeInv
  <1>1. ASSUME NEW c \in Clients,
               RecvRequest(c) \/ RecvNothing(c) \/ Refuse(c)
        PROVE  Tidy'
    <2>1. UNCHANGED <<alive, fds, server, sock, overlap>>
      BY <1>1 DEF RecvRequest, RecvNothing, Refuse, process, history
    <2>2. \E from, to \in {"recv", "refuse", "end", "socket"} : Goto(c, from, to)
      BY <1>1 DEF RecvRequest, RecvNothing, Refuse, Send
    <2>3. QED
      BY <2>1, <2>2, TidyGoto DEF Places
  <1>2. ASSUME NEW c \in Clients,
               Connect(c) \/ SendRequest(c) \/ CallRead(c) \/ ReadAnswer(c)
                 \/ ReadNothing(c) \/ Reply(c)
        PROVE  Tidy'
    <2>1. UNCHANGED <<alive, fds, server, sock, overlap>>
      BY <1>2 DEF Connect, SendRequest, CallRead, ReadAnswer, ReadNothing, Reply,
                  process, history
    <2>2. \E from, to \in {"connect", "send", "call", "read", "reply", "close"} :
              Goto(c, from, to)
      BY <1>2 DEF Connect, SendRequest, CallRead, ReadAnswer, ReadNothing, Reply, Send
    <2>3. QED
      BY <2>1, <2>2, TidyGoto DEF Places
  <1>3. ASSUME NEW c \in Clients, TornRead(c) PROVE Tidy'
    <2>1. UNCHANGED <<alive, fds, server, sock, overlap>>
      BY <1>3 DEF TornRead, process, history
    <2>2. \/ \E to \in {"refuse", "end"} : Goto(c, "recv", to)
          \/ \E to \in {"reply", "close"} : Goto(c, "read", to)
      BY <1>3 DEF TornRead
    <2>3. QED
      BY <2>1, <2>2, TidyGoto DEF Places
  <1>4. ASSUME NEW c \in Clients, Killed(c) PROVE Tidy'
    BY <1>4 DEF Killed, SendKills, Die, Tidy
  <1>5. CASE UNCHANGED <<process, thread, overlap>>
    <2>1. \A c \in Clients : (Busy(c)' <=> Busy(c)) /\ (Using(c)' <=> Using(c))
      BY <1>5 DEF Busy, Using, thread
    <2>2. QED
      BY <1>5, <2>1, TidyMoves DEF process, thread
  <1>6. \A c \in Clients : Ask(c) \/ GetAnswer(c) \/ Broken(c) \/ Leave(c)
                               => UNCHANGED <<process, thread, overlap>>
    BY DEF Ask, GetAnswer, Broken, Leave, history
  <1>7. (\E r \in Relays : ServerAnswers(r)) \/ ServerDies \/ ServerStarts \/ UNCHANGED vars
            => UNCHANGED <<process, thread, overlap>>
    BY DEF ServerAnswers, ServerDies, ServerStarts, vars, history
  <1>8. QED
    BY <1>1, <1>2, <1>3, <1>4, <1>5, <1>6, <1>7, TidyAccept, TidyEnd, TidySocket, TidyClose
    DEF Next, ThreadStep, Waiting

LEMMA TidyAlways == Spec => []Tidy
<1>1. Init => Tidy
  <2> SUFFICES ASSUME Init PROVE Tidy
    OBVIOUS
  <2>1. \A c \in Clients : ~Busy(c) /\ ~Using(c)
    BY DEF Init, Busy, Using
  <2>2. \A f \in Fds : fds[f] \in {0, None}
    BY DEF Init
  <2>3. None \notin Relays \cup Clients /\ 0 \notin Clients
    BY Bounds DEF Sockets
  <2>4. QED
    BY <2>1, <2>2, <2>3 DEF Tidy
<1>2. QED
  BY <1>1, TidyStep, TypeAlways, PTL DEF Spec

\* Until two relays overlap no descriptor leaks, whatever fails: each is that
\* of a client being served, of the relay under way, or of the constructor.
THEOREM AloneLeaksNothing == Spec => []AloneIsTidy
<1>1. TypeInv /\ Tidy => AloneIsTidy
  BY DEF Tidy, AloneIsTidy, Busy, Using
<1>2. QED
  BY <1>1, TypeAlways, TidyAlways, PTL

-----------------------------------------------------------------------------
(* Answers, as long as no relays have overlapped.                          *)

Query(c) == <<c, asked[c]>>
Req(c)   == [is |-> "request", of |-> Query(c)]
Ans(c)   == [is |-> "answer", of |-> Query(c)]

\* What the client may take for the answer to its last request.
Good(c, m)  == m = Ans(c) \/ (m = Garbage /\ faults)
Only(s, m)  == \A i \in DOMAIN s : s[i] = m

Asking  == {"socket", "connect", "send"}
Pending == Asking \cup {"call", "read", "reply"}

\* The client's side: one answer for each request but the last.
Side(c) ==
    /\ \A n \in DOMAIN got[c] :
        \/ got[c][n] = [is |-> "answer", of |-> <<c, n>>]
        \/ got[c][n] = Garbage /\ faults
    /\ phase[c] = "waiting" =>
        /\ asked[c] = Len(got[c]) + 1
        /\ out[c] = <<>> \/ (Len(out[c]) = 1 /\ Good(c, Head(out[c])))
    /\ phase[c] = "idle" => asked[c] = Len(got[c]) /\ out[c] = <<>>
    /\ peer[c] = IF phase[c] = "left" THEN "gone" ELSE "open"
    /\ phase[c] \in {"lost", "left"} => faults

\* The thread's side: the last request is in its stream, in its hand, or with
\* the server, and in one of these only.
Own(c) ==
    /\ ~torn[c] /\ phase[c] # "lost"
    /\ pc[c] \in {"refuse", "end", "ended"} => phase[c] = "left"
    /\ in[c] # <<>> => in[c] = <<Req(c)>> /\ pc[c] \in {"none", "recv", "close"}
    /\ in[c] # <<>> \/ pc[c] \in Pending =>
        phase[c] # "idle" /\ (phase[c] = "waiting" => out[c] = <<>>)
    /\ pc[c] \in Asking => msg[c] = Req(c)
    /\ pc[c] = "reply" => Good(c, msg[c])

\* The connection to the server carries that request and its answer alone.
Link(c) ==
    LET s == fds[server] IN
    /\ pc[c] = "connect" => \/ server = 0
                            \/ s =< made /\ peer[s] = "new" /\ in[s] = <<>> /\ out[s] = <<>>
    /\ pc[c] = "send" =>
        server # 0 /\ peer[s] # "new" /\ in[s] = <<>> /\ out[s] = <<>>
    /\ pc[c] \in {"call", "read"} =>
        server # 0 /\ peer[s] # "new" /\ Only(in[s], Ans(c)) /\ Only(out[s], Req(c))
    /\ pc[c] = "read" => rfd[c] = server

\* Sockets not yet made are new; a server that lives hangs up on nobody.
Sound(r) ==
    /\ r > made => peer[r] = "new" /\ in[r] = <<>> /\ out[r] = <<>>
    /\ \A i \in DOMAIN out[r] : out[r][i].is = "request"
    /\ peer[r] = "gone" => faults

AloneInv ==
    ~overlap =>
        /\ ~alive \/ ~serverUp => faults
        /\ \A c \in Clients : Side(c)
        /\ \A r \in Relays : Sound(r)
        /\ alive => \A c \in Clients : Own(c) /\ Link(c)

\* What is a client, a relay, a descriptor or none of these.
LEMMA Distinct == /\ Clients \cap Relays = {} /\ None \notin Clients /\ None \notin Relays
                  /\ 0 \notin Fds /\ Clients \subseteq Sockets /\ Relays \subseteq Sockets
  BY Bounds DEF Sockets, Fds

LEMMA Kinds ==
    ASSUME NEW c
    PROVE  /\ Req(c).is = "request" /\ Req(c).of = Query(c) /\ Req(c) # Garbage
           /\ Ans(c) # Garbage /\ Ans(c).is = "answer"
           /\ Ans(c) = [is |-> "answer", of |-> Req(c).of]
  BY DEF Req, Ans, Garbage

\* Which sockets the threads use.
LEMMA Reach ==
    ASSUME TypeInv, Tidy, alive, ~overlap, NEW c \in Clients
    PROVE  /\ Using(c) => SocketOf(sock[c]) = c /\ sock[c] \in Fds
           /\ server = 0 => SocketOf(server) = None
           /\ Busy(c) /\ server # 0 => /\ SocketOf(server) = fds[server]
                                       /\ server \in Fds /\ fds[server] \in Relays \ {0}
           /\ \A d \in Clients : Busy(c) /\ Busy(d) => c = d
  BY Distinct DEF Tidy, SocketOf

\* What does not change keeps its part of the invariant.
LEMMA SideSame ==
    ASSUME NEW c, Side(c), got'[c] = got[c], asked'[c] = asked[c], out'[c] = out[c],
           phase'[c] = phase[c], peer'[c] = peer[c], faults => faults'
    PROVE  Side(c)'
  BY DEF Side, Good, Ans, Query

LEMMA OwnSame ==
    ASSUME NEW c, Own(c), torn'[c] = torn[c], phase'[c] = phase[c], pc'[c] = pc[c],
           in'[c] = in[c], out'[c] = out[c], msg'[c] = msg[c], asked'[c] = asked[c],
           faults => faults'
    PROVE  Own(c)'
  BY DEF Own, Good, Ans, Req, Query

LEMMA LinkSame ==
    ASSUME NEW c, Link(c), pc'[c] = pc[c], rfd'[c] = rfd[c], asked'[c] = asked[c],
           server' = server, made' = made, fds'[server] = fds[server],
           peer'[fds[server]] = peer[fds[server]], in'[fds[server]] = in[fds[server]],
           out'[fds[server]] = out[fds[server]]
    PROVE  Link(c)'
  BY DEF Link, Only, Ans, Req, Query

LEMMA LinkIdle ==
    ASSUME NEW c, ~Busy(c)
    PROVE  Link(c)
  BY DEF Busy, Link

LEMMA SoundSame ==
    ASSUME NEW r, Sound(r), made' = made, peer'[r] = peer[r], in'[r] = in[r],
           out'[r] = out[r], faults => faults'
    PROVE  Sound(r)'
  BY DEF Sound

\* Steps of a thread before it relays.
LEMMA AloneReceive ==
    ASSUME TypeInv, Tidy, AloneInv, NEW c \in Clients, Accept(c) \/ RecvNothing(c),
           ~overlap, alive
    PROVE  AloneInv'
  <1>1. /\ UNCHANGED <<server, made, rfd, net, serverUp, client, history>>
        /\ alive' = alive
    BY DEF Accept, RecvNothing, process
  <1>2. /\ pc[c] \in {"none", "recv"} /\ pc'[c] \in {"recv", "refuse", "end"}
        /\ pc'[c] # "recv" => phase[c] = "left"
        /\ \A d \in Clients \ {c} : pc'[d] = pc[d] /\ msg'[d] = msg[d] /\ torn'[d] = torn[d]
        /\ torn'[c] \in {torn[c], FALSE}
        /\ in[c] = <<>> \/ pc'[c] = "recv"
    <2>1. CASE Accept(c)
      BY <2>1, GotoTyped DEF Accept, TypeInv, Places
    <2>2. CASE RecvNothing(c)
      <3>1. pc[c] = "recv"
        BY <2>2 DEF RecvNothing, Goto
      <3>2. SocketOf(sock[c]) = c /\ c # None /\ peer[c] \in {"open", "gone"}
            /\ (peer[c] = "gone" <=> phase[c] = "left")
        BY <3>1, Reach, Distinct DEF Using, AloneInv, Side
      <3>3. \E next \in {"refuse", "end"} : Goto(c, "recv", next)
        BY <2>2, <3>2 DEF RecvNothing
      <3>4. peer[c] = "gone" /\ in[c] = <<>>
        BY <2>2, <3>2 DEF RecvNothing
      <3>5. /\ pc'[c] \in {"refuse", "end"} /\ \A d \in Clients \ {c} : pc'[d] = pc[d]
        BY <3>3, GotoTyped DEF TypeInv, Places
      <3>6. /\ \A d \in Clients \ {c} : msg'[d] = msg[d] /\ torn'[d] = torn[d]
            /\ torn'[c] = FALSE
        BY <2>2 DEF RecvNothing, TypeInv, ThreadTyped
      <3>7. QED
        BY <3>1, <3>2, <3>4, <3>5, <3>6
    <2>3. QED
      BY <2>1, <2>2
  <1>3. ASSUME NEW d \in Clients PROVE Own(d)' /\ Link(d)'
    <2>1. Own(d) /\ Link(d)
      BY DEF AloneInv
    <2>2. CASE d = c
      <3>1. Link(c)'
        BY <1>2, LinkIdle DEF Busy, Link
      <3>2. Own(c)'
        BY <1>1, <1>2, <2>1, <2>2 DEF Own, Pending, Asking, net, client, history, Good, Req, Ans,
                                      Query
      <3>3. QED
        BY <2>2, <3>1, <3>2
    <2>3. CASE d # c
      <3>1. Own(d)'
        BY <1>1, <1>2, <2>1, <2>3, OwnSame DEF net, client, history
      <3>2. Link(d)'
        <4>1. CASE ~Busy(d)'
          BY <4>1 DEF Busy, Link
        <4>2. CASE Busy(d)'
          <5>1. Busy(d)
            BY <1>2, <2>3, <4>2 DEF Busy
          <5>2. server # 0 => fds'[server] = fds[server]
            <6>1. server # 0 => server \in Fds /\ fds[server] \in Relays
              BY <5>1, Reach
            <6>2. fds' = fds \/ (fds' = [fds EXCEPT ![Lowest] = c] /\ fds[Lowest] = None)
              BY LowestIsFree DEF Accept, RecvNothing, process
            <6>3. QED
              BY <6>1, <6>2, Distinct DEF TypeInv, ProcessTyped
          <5>3. QED
            BY <1>1, <1>2, <2>1, <2>3, <5>2 DEF Link, net, client, Only, Ans, Req, Query
        <4>3. QED
          BY <4>1, <4>2
      <3>3. QED
        BY <3>1, <3>2
    <2>4. QED
      BY <2>2, <2>3
  <1>4. \A d \in Clients : Side(d)'
    BY <1>1, SideSame DEF AloneInv, net, client, history
  <1>5. \A r \in Relays : Sound(r)'
    BY <1>1, SoundSame DEF AloneInv, net, client, history
  <1>6. QED
    BY <1>1, <1>3, <1>4, <1>5 DEF AloneInv, history

\* A step of one thread that keeps its own part keeps the others'.
LEMMA AloneThread ==
    ASSUME TypeInv, Tidy, AloneInv, ~overlap, alive, NEW c \in Clients,
           UNCHANGED <<alive, server, made, serverUp, client, faults, overlap>>,
           \A d \in Clients \ {c} :
                /\ pc'[d] = pc[d] /\ msg'[d] = msg[d] /\ torn'[d] = torn[d] /\ rfd'[d] = rfd[d]
                /\ in'[d] = in[d] /\ out'[d] = out[d] /\ peer'[d] = peer[d]
                /\ Busy(d) /\ server # 0 =>
                    /\ fds'[server] = fds[server] /\ peer'[fds[server]] = peer[fds[server]]
                    /\ in'[fds[server]] = in[fds[server]] /\ out'[fds[server]] = out[fds[server]],
           Own(c)', Link(c)', Side(c)', \A r \in Relays : Sound(r)'
    PROVE  AloneInv'
  <1>1. ASSUME NEW d \in Clients \ {c} PROVE Own(d)' /\ Link(d)' /\ Side(d)'
    <2>1. Own(d) /\ Link(d) /\ Side(d)
      BY DEF AloneInv
    <2>6. /\ asked'[d] = asked[d] /\ got'[d] = got[d] /\ phase'[d] = phase[d]
          /\ faults' = faults
      BY DEF client
    <2>7. /\ pc'[d] = pc[d] /\ msg'[d] = msg[d] /\ torn'[d] = torn[d] /\ rfd'[d] = rfd[d]
          /\ in'[d] = in[d] /\ out'[d] = out[d] /\ peer'[d] = peer[d]
      OBVIOUS
    <2>2. Own(d)' /\ Side(d)'
      <3>1. Own(d)'
        BY <2>1, <2>6, <2>7, OwnSame
      <3>2. Side(d)'
        BY <2>1, <2>6, <2>7, SideSame
      <3>3. QED
        BY <3>1, <3>2
    <2>3. CASE ~Busy(d)
      <3>1. Link(d)'
        BY <2>3, <2>7 DEF Busy, Link
      <3>2. QED
        BY <2>2, <3>1
    <2>4. CASE Busy(d)
      <3>1. Link(d)'
        BY <2>1, <2>4, <2>6, <2>7 DEF Link, Only, Ans, Req, Query
      <3>2. QED
        BY <2>2, <3>1
    <2>5. QED
      BY <2>3, <2>4
  <1>2. QED
    BY <1>1 DEF AloneInv

\* The request goes from the stream to the thread.
LEMMA AloneRequest ==
    ASSUME TypeInv, Tidy, AloneInv, NEW c \in Clients, RecvRequest(c), ~overlap, alive
    PROVE  AloneInv'
  <1>1. /\ UNCHANGED <<alive, fds, server, made, rfd, torn, peer, out, serverUp, client, history>>
        /\ pc[c] = "recv"
    BY DEF RecvRequest, process, Goto
  <1>2. SocketOf(sock[c]) = c /\ Own(c) /\ Link(c) /\ Side(c)
    BY <1>1, Reach DEF Using, AloneInv
  <1>3. /\ in[c] = <<Req(c)>> /\ Head(in[c]) = Req(c)
        /\ msg' = [msg EXCEPT ![c] = Head(in[c])] /\ in' = [in EXCEPT ![c] = Tail(@)]
    BY <1>2 DEF RecvRequest, Own
  <1>4. Goto(c, "recv", "socket")
    BY <1>2, <1>3, Kinds DEF RecvRequest
  <1>5. /\ msg'[c] = Req(c) /\ in'[c] = <<>> /\ pc'[c] = "socket"
        /\ \A d \in Clients \ {c} : pc'[d] = pc[d] /\ msg'[d] = msg[d]
        /\ \A s \in Sockets \ {c} : in'[s] = in[s]
    BY <1>3, <1>4, GotoTyped, Distinct DEF TypeInv, ThreadTyped, NetTyped, Places
  <1>6. Own(c)'
    BY <1>1, <1>2, <1>3, <1>5 DEF Own, client, history, Pending, Asking, Req, Query
  <1>7. Link(c)'
    BY <1>5 DEF Link
  <1>8. Side(c)'
    BY <1>1, <1>2, SideSame DEF client, history
  <1>9. \A r \in Relays : in'[r] = in[r]
    BY <1>5, Distinct
  <1>10. \A r \in Relays : Sound(r)'
    BY <1>1, <1>9, SoundSame DEF AloneInv, history
  <1>11. \A d \in Clients : Busy(d) /\ server # 0 => fds[server] \in Relays
    BY Reach
  <1>12. QED
    BY <1>1, <1>5, <1>6, <1>7, <1>8, <1>9, <1>10, <1>11, AloneThread, Distinct DEF client, history

LEMMA AloneRefuse ==
    ASSUME TypeInv, Tidy, AloneInv, NEW c \in Clients, Refuse(c), ~overlap, alive
    PROVE  AloneInv'
  <1>1. /\ UNCHANGED <<alive, fds, server, made, rfd, torn, peer, in, serverUp, client, history>>
        /\ pc[c] = "refuse" /\ pc'[c] \in {"recv", "end"}
        /\ \A d \in Clients \ {c} : pc'[d] = pc[d] /\ msg'[d] = msg[d]
    BY GotoTyped DEF Refuse, process, Send, TypeInv, ThreadTyped, Places
  <1>2. /\ SocketOf(sock[c]) = c /\ Own(c) /\ Link(c) /\ Side(c)
        /\ phase[c] = "left" /\ peer[c] = "gone"
    BY <1>1, Reach DEF Using, AloneInv, Own, Side
  <1>3. out' = out
    BY <1>2, Distinct DEF Refuse, Send
  <1>4. Own(c)' /\ Link(c)'
    BY <1>1, <1>2, <1>3 DEF Own, Link, client, history, Pending, Asking, Req, Query
  <1>5. Side(c)' /\ \A r \in Relays : Sound(r)'
    BY <1>1, <1>2, <1>3, SideSame, SoundSame DEF AloneInv, client, history
  <1>6. QED
    BY <1>1, <1>3, <1>4, <1>5, AloneThread DEF history

LEMMA AloneEnd ==
    ASSUME TypeInv, Tidy, AloneInv, NEW c \in Clients, End(c), ~overlap, alive
    PROVE  AloneInv'
  <1> DEFINE f == sock[c]
  <1>1. /\ UNCHANGED <<alive, server, made, rfd, msg, peer, out, serverUp, client, history>>
        /\ pc[c] = "end" /\ pc'[c] = "ended" /\ Close(f)
        /\ \A d \in Clients \ {c} : pc'[d] = pc[d]
    BY GotoTyped DEF End, TypeInv, Places
  <1>2. /\ SocketOf(f) = c /\ f \in Fds /\ fds[f] = c /\ Own(c) /\ Link(c) /\ Side(c)
        /\ phase[c] = "left"
    BY <1>1, Reach DEF Using, AloneInv, Own, SocketOf
  <1>3. /\ fds' = [fds EXCEPT ![f] = None] /\ in' = [in EXCEPT ![c] = <<>>]
        /\ torn' = [d \in Clients |-> torn[d] \/ (f # 0 /\ ReadFd(d) = f)]
    BY <1>1, <1>2, Distinct DEF Close
  <1>4. ASSUME NEW d \in Clients PROVE ReadFd(d) # f
    <2>1. CASE pc[d] = "recv"
      <3>1. fds[sock[d]] = d /\ d # c
        BY <1>1, <2>1, Reach DEF Using, SocketOf
      <3>2. QED
        BY <1>2, <2>1, <3>1 DEF ReadFd
    <2>2. CASE pc[d] = "read"
      <3>1. Link(d) /\ Busy(d)
        BY <2>2 DEF AloneInv, Busy
      <3>2. rfd[d] = server /\ (server = 0 \/ fds[server] \in Relays)
        BY <2>2, <3>1, Reach DEF Link
      <3>3. QED
        BY <1>2, <2>2, <3>2, Distinct DEF ReadFd
    <2>3. CASE pc[d] \notin {"recv", "read"}
      BY <1>2, <2>3, Distinct DEF ReadFd
    <2>4. QED
      BY <2>1, <2>2, <2>3
  <1>5. /\ \A d \in Clients : torn'[d] = torn[d]
        /\ in'[c] = <<>> /\ \A s \in Sockets \ {c} : in'[s] = in[s]
        /\ \A g \in Fds \ {f} : fds'[g] = fds[g]
    BY <1>3, <1>4, Distinct DEF TypeInv, ThreadTyped, NetTyped, ProcessTyped
  <1>6. Own(c)' /\ Link(c)'
    BY <1>1, <1>2, <1>5 DEF Own, Link, client, history, Pending, Asking, Req, Query
  <1>7. \A r \in Relays : in'[r] = in[r]
    BY <1>5, Distinct
  <1>8. Side(c)' /\ \A r \in Relays : Sound(r)'
    BY <1>1, <1>2, <1>7, SideSame, SoundSame DEF AloneInv, client, history
  <1>9. \A d \in Clients : Busy(d) /\ server # 0 =>
            server \in Fds /\ server # f /\ fds[server] \in Relays
    BY <1>2, Reach, Distinct
  <1>10. QED
    BY <1>1, <1>5, <1>6, <1>7, <1>8, <1>9, AloneThread, Distinct DEF client, history

\* Steps of the one thread that relays.
LEMMA AloneRelays ==
    ASSUME TypeInv, Tidy, AloneInv, ~overlap, alive, NEW c \in Clients, Busy(c)
    PROVE  /\ Own(c) /\ Link(c) /\ Side(c)
           /\ \A d \in Clients \ {c} : ~Busy(d)
           /\ SocketOf(sock[c]) = c
           /\ pc[c] # "close" => in[c] = <<>>
           /\ server = 0 => SocketOf(server) = None
           /\ server # 0 => /\ SocketOf(server) = fds[server] /\ fds[server] # None
                            /\ server \in Fds /\ fds[server] \in Relays \ {0}
                            /\ fds[server] \notin Clients /\ fds[server] \in Sockets
  <1>1. Own(c) /\ Link(c) /\ Side(c)
    BY DEF AloneInv
  <1>2. Using(c)
    BY DEF Using, Busy
  <1>3. pc[c] # "close" => in[c] = <<>>
    BY <1>1 DEF Own, Busy
  <1>4. QED
    BY <1>1, <1>2, <1>3, Reach, Distinct

LEMMA AloneConnect ==
    ASSUME TypeInv, Tidy, AloneInv, NEW c \in Clients, Connect(c), ~overlap, alive
    PROVE  AloneInv'
  <1> DEFINE s == fds[server]
  <1>1. /\ UNCHANGED <<process, sock, rfd, msg, torn, in, out, serverUp, client, history>>
        /\ pc[c] = "connect" /\ pc'[c] \in {"send", "close"}
        /\ \A d \in Clients \ {c} : pc'[d] = pc[d]
    BY GotoTyped DEF Connect, TypeInv, Places
  <1>2. Busy(c)
    BY <1>1 DEF Busy
  <1>3. /\ Own(c) /\ Link(c) /\ Side(c) /\ in[c] = <<>>
        /\ \A d \in Clients \ {c} : ~Busy(d)
    BY <1>1, <1>2, AloneRelays
  <1>4. \/ pc'[c] = "close" /\ peer' = peer
        \/ /\ pc'[c] = "send" /\ server # 0 /\ s \in Relays /\ s \notin Clients
           /\ peer' = [peer EXCEPT ![s] = "open"]
    <2>1. pc'[c] = "send" \/ pc'[c] = "close"
      BY <1>1
    <2>2. CASE SocketOf(server) # None /\ peer[SocketOf(server)] = "new" /\ serverUp
      <3>1. server # 0 /\ SocketOf(server) = s /\ s \in Relays /\ s \notin Clients
        BY <1>2, <2>2, AloneRelays
      <3>2. Goto(c, "connect", "send") /\ peer' = [peer EXCEPT ![s] = "open"]
        BY <2>2, <3>1 DEF Connect
      <3>3. pc'[c] = "send"
        BY <3>2, GotoTyped DEF TypeInv, Places
      <3>4. QED
        BY <3>1, <3>2, <3>3
    <2>3. CASE ~(SocketOf(server) # None /\ peer[SocketOf(server)] = "new" /\ serverUp)
      <3>1. Goto(c, "connect", "close") /\ peer' = peer
        BY <2>3 DEF Connect
      <3>2. QED
        BY <3>1, GotoTyped DEF TypeInv, Places
    <2>4. QED
      BY <2>2, <2>3
  <1>5. /\ \A d \in Clients : peer'[d] = peer[d]
        /\ \A r \in Relays : peer'[r] = peer[r] \/ (r = s /\ peer'[r] = "open" /\ pc'[c] = "send")
        /\ pc'[c] = "send" => peer'[s] = "open"
    BY <1>4, Distinct DEF TypeInv, NetTyped
  <1>6. Own(c)'
    BY <1>1, <1>3 DEF Own, client, history, Pending, Asking, Req, Query
  <1>7. Link(c)'
    <2>1. pc'[c] = "send" => server # 0 /\ in[s] = <<>> /\ out[s] = <<>> /\ s =< made
      BY <1>1, <1>3, <1>4 DEF Link
    <2>2. QED
      BY <1>1, <1>5, <2>1 DEF Link, process
  <1>8. Side(c)'
    BY <1>1, <1>3, <1>5, SideSame DEF client, history
  <1>9. ASSUME NEW r \in Relays PROVE Sound(r)'
    <2>1. Sound(r) /\ made' = made /\ in' = in /\ out' = out /\ faults' = faults
      BY <1>1 DEF AloneInv, process, history
    <2>2. CASE peer'[r] = peer[r]
      BY <2>1, <2>2, SoundSame
    <2>3. CASE r = s /\ peer'[r] = "open" /\ pc'[c] = "send"
      <3>1. s =< made
        BY <1>1, <1>3, <1>4, <2>3 DEF Link
      <3>2. ~(r > made)
        BY <2>3, <3>1, Bounds DEF TypeInv, ProcessTyped, Relays
      <3>3. QED
        BY <2>1, <2>3, <3>2 DEF Sound
    <2>4. QED
      BY <1>5, <2>2, <2>3
  <1>10. QED
    BY <1>1, <1>3, <1>5, <1>6, <1>7, <1>8, <1>9, AloneThread DEF process, history

LEMMA AloneSend ==
    ASSUME TypeInv, Tidy, AloneInv, NEW c \in Clients, SendRequest(c), ~overlap, alive
    PROVE  AloneInv'
  <1> DEFINE s == fds[server]
  <1>1. /\ UNCHANGED <<process, sock, rfd, torn, peer, in, serverUp, client, history>>
        /\ pc[c] = "send" /\ pc'[c] \in {"call", "close"}
        /\ \A d \in Clients \ {c} : pc'[d] = pc[d] /\ msg'[d] = msg[d]
    BY GotoTyped DEF SendRequest, Send, TypeInv, ThreadTyped, Places
  <1>2. Busy(c)
    BY <1>1 DEF Busy
  <1>3. /\ Own(c) /\ Link(c) /\ Side(c) /\ in[c] = <<>>
        /\ \A d \in Clients \ {c} : ~Busy(d)
    BY <1>1, <1>2, AloneRelays
  <1>4. /\ server # 0 /\ SocketOf(server) = s /\ s \in Relays /\ s \in Sockets /\ s \notin Clients
        /\ s # None /\ peer[s] # "new" /\ in[s] = <<>> /\ out[s] = <<>> /\ msg[c] = Req(c)
    BY <1>1, <1>2, <1>3, AloneRelays DEF Link, Own, Asking
  <1>5. \/ pc'[c] = "close" /\ out' = out
        \/ pc'[c] = "call" /\ (out' = out \/ out' = [out EXCEPT ![s] = <<Req(c)>>])
    <2>1. \/ Goto(c, "send", "close") /\ out' = out
          \/ Goto(c, "send", "call") /\ (out' = out \/ out' = [out EXCEPT ![s] = Append(@, msg[c])])
      BY <1>4 DEF SendRequest, Send
    <2>2. Append(out[s], msg[c]) = <<Req(c)>>
      BY <1>4
    <2>3. QED
      BY <2>1, <2>2, GotoTyped DEF TypeInv, Places
  <1>6. /\ \A d \in Clients : out'[d] = out[d]
        /\ \A r \in Relays : out'[r] = out[r] \/ (r = s /\ out'[r] = <<Req(c)>>)
    BY <1>4, <1>5, Distinct DEF TypeInv, NetTyped
  <1>7. Own(c)'
    BY <1>1, <1>3, <1>6 DEF Own, client, history, Pending, Asking, Req, Query
  <1>8. Link(c)'
    <2>1. Only(in[s], Ans(c)) /\ Only(out'[s], Req(c))
      BY <1>4, <1>6 DEF Only
    <2>2. Req(c)' = Req(c) /\ Ans(c)' = Ans(c) /\ server' = server /\ fds' = fds
      BY <1>1 DEF Req, Ans, Query, client, process
    <2>3. QED
      BY <1>1, <1>4, <2>1, <2>2 DEF Link, Only
  <1>9. Side(c)'
    BY <1>1, <1>3, <1>6, SideSame DEF client, history
  <1>10. ASSUME NEW r \in Relays PROVE Sound(r)'
    <2>1. Sound(r) /\ made' = made /\ in' = in /\ peer' = peer /\ faults' = faults
      BY <1>1 DEF AloneInv, process, history
    <2>2. CASE out'[r] = out[r]
      BY <2>1, <2>2, SoundSame
    <2>3. CASE r = s /\ out'[r] = <<Req(c)>>
      BY <1>4, <2>1, <2>3, Kinds DEF Sound
    <2>4. QED
      BY <1>6, <2>2, <2>3
  <1>11. QED
    BY <1>1, <1>3, <1>6, <1>7, <1>8, <1>9, <1>10, AloneThread DEF process, history

LEMMA AloneCall ==
    ASSUME TypeInv, Tidy, AloneInv, NEW c \in Clients, CallRead(c), ~overlap, alive
    PROVE  AloneInv'
  <1>1. /\ UNCHANGED <<process, sock, msg, torn, net, serverUp, client, history>>
        /\ pc[c] = "call" /\ pc'[c] = "read" /\ rfd'[c] = server
        /\ \A d \in Clients \ {c} : pc'[d] = pc[d] /\ rfd'[d] = rfd[d]
    BY GotoTyped DEF CallRead, TypeInv, ThreadTyped, Places
  <1>2. Busy(c)
    BY <1>1 DEF Busy
  <1>3. /\ Own(c) /\ Link(c) /\ Side(c) /\ in[c] = <<>>
        /\ \A d \in Clients \ {c} : ~Busy(d)
    BY <1>1, <1>2, AloneRelays
  <1>4. Own(c)'
    BY <1>1, <1>3 DEF Own, client, history, net, Pending, Asking, Req, Query
  <1>5. Link(c)'
    BY <1>1, <1>3 DEF Link, Only, Req, Ans, Query, client, process, net
  <1>6. Side(c)' /\ \A r \in Relays : Sound(r)'
    BY <1>1, <1>3, SideSame, SoundSame DEF AloneInv, client, history, net, process
  <1>7. QED
    BY <1>1, <1>3, <1>4, <1>5, <1>6, AloneThread DEF process, history, net

\* What the thread reads on its relay's socket.
LEMMA AloneReads ==
    ASSUME TypeInv, Tidy, AloneInv, NEW c \in Clients, ~overlap, alive, pc[c] = "read"
    PROVE  /\ Busy(c) /\ rfd[c] = server /\ server # 0
           /\ SocketOf(rfd[c]) = fds[server] /\ fds[server] \in Relays
           /\ fds[server] \in Sockets \ Clients /\ fds[server] # None
           /\ peer[fds[server]] # "new" /\ Only(in[fds[server]], Ans(c))
  <1>1. Busy(c)
    BY DEF Busy
  <1>2. QED
    BY <1>1, AloneRelays DEF Link

LEMMA AloneReadAnswer ==
    ASSUME TypeInv, Tidy, AloneInv, NEW c \in Clients, ReadAnswer(c), ~overlap, alive
    PROVE  AloneInv'
  <1> DEFINE s == fds[server]
  <1>1. /\ UNCHANGED <<process, sock, torn, peer, out, serverUp, client, history>>
        /\ pc[c] = "read"
        /\ \A d \in Clients \ {c} : msg'[d] = msg[d] /\ rfd'[d] = rfd[d]
    BY DEF ReadAnswer, Goto, TypeInv, ThreadTyped
  <1>2. /\ Own(c) /\ Link(c) /\ Side(c) /\ in[c] = <<>>
        /\ \A d \in Clients \ {c} : ~Busy(d)
    BY <1>1, AloneReads, AloneRelays
  <1>3. /\ SocketOf(rfd[c]) = s /\ s \in Relays /\ s \in Sockets /\ s \notin Clients
        /\ Only(in[s], Ans(c))
    BY <1>1, AloneReads
  <1>4. in[s] # <<>> /\ in[s] \in Seq(Messages)
    BY <1>3 DEF ReadAnswer, TypeInv, NetTyped
  <1>5. Head(in[s]) = Ans(c)
    BY <1>3, <1>4 DEF Only
  <1>6. /\ Goto(c, "read", "reply") /\ msg' = [msg EXCEPT ![c] = Ans(c)]
        /\ in' = [in EXCEPT ![s] = Tail(@)]
    BY <1>3, <1>5, Kinds DEF ReadAnswer
  <1>7. /\ pc'[c] = "reply" /\ msg'[c] = Ans(c)
        /\ \A d \in Clients \ {c} : pc'[d] = pc[d]
        /\ \A d \in Clients : in'[d] = in[d]
        /\ \A r \in Relays \ {s} : in'[r] = in[r]
    BY <1>3, <1>6, GotoTyped, Distinct DEF TypeInv, ThreadTyped, NetTyped, Places
  <1>8. Own(c)'
    BY <1>1, <1>2, <1>7 DEF Own, client, history, Pending, Asking, Good, Ans, Req, Query
  <1>9. Link(c)'
    BY <1>7 DEF Link
  <1>10. Side(c)'
    BY <1>1, <1>2, SideSame DEF client, history
  <1>11. ASSUME NEW r \in Relays PROVE Sound(r)'
    <2>1. /\ Sound(r) /\ made' = made /\ out' = out /\ peer' = peer /\ faults' = faults
      BY <1>1 DEF AloneInv, process, history
    <2>2. CASE r = s
      BY <1>4, <2>1, <2>2 DEF Sound
    <2>3. CASE r # s
      BY <1>7, <2>1, <2>3, SoundSame
    <2>4. QED
      BY <2>2, <2>3
  <1>12. QED
    BY <1>1, <1>2, <1>7, <1>8, <1>9, <1>10, <1>11, AloneThread DEF process, history

LEMMA AloneReadNothing ==
    ASSUME TypeInv, Tidy, AloneInv, NEW c \in Clients, ReadNothing(c), ~overlap, alive
    PROVE  AloneInv'
  <1>1. /\ UNCHANGED <<process, sock, net, serverUp, client, history>>
        /\ pc[c] = "read" /\ msg'[c] = Garbage /\ torn'[c] = FALSE
        /\ \A d \in Clients \ {c} : msg'[d] = msg[d] /\ rfd'[d] = rfd[d] /\ torn'[d] = torn[d]
    BY DEF ReadNothing, Goto, TypeInv, ThreadTyped
  <1>2. /\ Own(c) /\ Link(c) /\ Side(c) /\ in[c] = <<>>
        /\ \A d \in Clients \ {c} : ~Busy(d)
    BY <1>1, AloneReads, AloneRelays
  <1>3. /\ pc'[c] \in {"reply", "close"} /\ \A d \in Clients \ {c} : pc'[d] = pc[d]
    BY GotoTyped DEF ReadNothing, TypeInv, Places
  <1>4. faults
    <2>1. /\ SocketOf(rfd[c]) = fds[server] /\ fds[server] \in Relays /\ fds[server] # None
          /\ peer[fds[server]] # "new"
      BY <1>1, AloneReads
    <2>2. peer[fds[server]] = "gone"
      BY <2>1 DEF ReadNothing
    <2>3. QED
      BY <2>1, <2>2 DEF AloneInv, Sound
  <1>5. Own(c)'
    BY <1>1, <1>2, <1>3, <1>4 DEF Own, client, history, net, Pending, Asking, Good, Req, Query
  <1>6. Link(c)'
    BY <1>3 DEF Link
  <1>7. Side(c)' /\ \A r \in Relays : Sound(r)'
    BY <1>1, <1>2, SideSame, SoundSame DEF AloneInv, client, history, net, process
  <1>8. QED
    BY <1>1, <1>2, <1>3, <1>5, <1>6, <1>7, AloneThread DEF process, history, net

LEMMA AloneReply ==
    ASSUME TypeInv, Tidy, AloneInv, NEW c \in Clients, Reply(c), ~overlap, alive
    PROVE  AloneInv'
  <1>1. /\ UNCHANGED <<process, sock, rfd, torn, peer, in, serverUp, client, history>>
        /\ pc[c] = "reply" /\ pc'[c] = "close"
        /\ \A d \in Clients \ {c} : pc'[d] = pc[d] /\ msg'[d] = msg[d]
    BY GotoTyped DEF Reply, Send, TypeInv, ThreadTyped, Places
  <1>2. Busy(c)
    BY <1>1 DEF Busy
  <1>3. /\ Own(c) /\ Link(c) /\ Side(c) /\ in[c] = <<>> /\ SocketOf(sock[c]) = c
        /\ \A d \in Clients \ {c} : ~Busy(d)
    BY <1>1, <1>2, AloneRelays
  <1>4. \/ out' = out
        \/ phase[c] = "waiting" /\ out[c] = <<>> /\ out' = [out EXCEPT ![c] = <<msg[c]>>]
    <2>1. \/ out' = out
          \/ peer[c] = "open" /\ out' = [out EXCEPT ![c] = Append(@, msg[c])]
      BY <1>3, Distinct DEF Reply, Send
    <2>2. peer[c] = "open" => phase[c] = "waiting"
      BY <1>1, <1>3 DEF Side, Own, Pending, TypeInv, ClientTyped
    <2>3. phase[c] = "waiting" => out[c] = <<>>
      BY <1>1, <1>3 DEF Own, Pending
    <2>4. out[c] = <<>> => Append(out[c], msg[c]) = <<msg[c]>>
      OBVIOUS
    <2>5. QED
      BY <2>1, <2>2, <2>3, <2>4
  <1>5. /\ \A s \in Sockets \ {c} : out'[s] = out[s]
        /\ out'[c] = out[c] \/ (phase[c] = "waiting" /\ out'[c] = <<msg[c]>>)
    BY <1>4, Distinct DEF TypeInv, NetTyped
  <1>6. Own(c)'
    BY <1>1, <1>3 DEF Own, client, history, Pending, Asking, Good, Req, Query
  <1>7. Link(c)'
    BY <1>1 DEF Link
  <1>8. Side(c)'
    <2>1. CASE out'[c] = out[c]
      BY <1>1, <1>3, <2>1, SideSame DEF client, history
    <2>2. CASE phase[c] = "waiting" /\ out'[c] = <<msg[c]>>
      <3>1. Good(c, msg[c])
        BY <1>1, <1>3 DEF Own
      <3>2. Len(out'[c]) = 1 /\ Head(out'[c]) = msg[c]
        BY <2>2
      <3>3. Good(c, Head(out[c]))'
        BY <1>1, <3>1, <3>2 DEF Good, Ans, Query, client, history
      <3>4. QED
        BY <1>1, <1>3, <2>2, <3>2, <3>3 DEF Side, client, history
    <2>3. QED
      BY <1>5, <2>1, <2>2
  <1>9. \A r \in Relays : out'[r] = out[r]
    BY <1>5, Distinct
  <1>10. \A r \in Relays : Sound(r)'
    BY <1>1, <1>9, SoundSame DEF AloneInv, process, history
  <1>11. \A d \in Clients \ {c} : out'[d] = out[d]
    BY <1>5, Distinct
  <1>12. QED
    BY <1>1, <1>3, <1>6, <1>7, <1>8, <1>10, <1>11, AloneThread DEF process, history

LEMMA AloneCloses ==
    ASSUME TypeInv, Tidy, AloneInv, NEW c \in Clients, CloseServer(c), ~overlap, alive
    PROVE  AloneInv'
  <1>1. /\ UNCHANGED <<alive, server, made, sock, rfd, peer, out, serverUp, client, history>>
        /\ pc[c] = "close" /\ pc'[c] = "recv" /\ Close(server)
        /\ \A d \in Clients \ {c} : pc'[d] = pc[d] /\ msg'[d] = msg[d]
    BY GotoTyped DEF CloseServer, TypeInv, ThreadTyped, Places
  <1>2. Busy(c)
    BY <1>1 DEF Busy
  <1>3. /\ Own(c) /\ Link(c) /\ Side(c)
        /\ \A d \in Clients \ {c} : ~Busy(d)
    BY <1>1, <1>2, AloneRelays
  <1>4. \/ SocketOf(server) = None
        \/ server # 0 /\ fds[server] \in Relays /\ SocketOf(server) = fds[server]
    BY <1>2, AloneRelays
  <1>5. ASSUME NEW d \in Clients PROVE torn'[d] = torn[d]
    <2>1. server = 0 \/ ReadFd(d) # server
      <3>1. CASE pc[d] = "recv"
        <4>1. SocketOf(sock[d]) = d
          BY <1>1, <3>1, Reach DEF Using
        <4>2. ReadFd(d) = sock[d]
          BY <3>1 DEF ReadFd
        <4>3. QED
          BY <1>2, <4>1, <4>2, AloneRelays
      <3>2. CASE pc[d] = "read"
        BY <1>1, <1>3, <3>2 DEF Busy
      <3>3. CASE pc[d] \notin {"recv", "read"}
        BY <3>3 DEF ReadFd
      <3>4. QED
        BY <3>1, <3>2, <3>3
    <2>2. QED
      BY <1>1, <2>1 DEF Close, TypeInv, ThreadTyped
  <1>6. /\ \A d \in Clients : in'[d] = in[d]
        /\ \A r \in Relays : in'[r] = in[r] \/ in'[r] = <<>>
    BY <1>1, <1>4, Distinct DEF Close, TypeInv, NetTyped
  <1>7. Own(c)'
    BY <1>1, <1>3, <1>5, <1>6 DEF Own, client, history, Pending, Asking, Good, Req, Query
  <1>8. Link(c)'
    BY <1>1 DEF Link
  <1>9. Side(c)'
    BY <1>1, <1>3, SideSame DEF client, history
  <1>10. \A r \in Relays : Sound(r)'
    BY <1>1, <1>6 DEF AloneInv, Sound, history
  <1>11. QED
    BY <1>1, <1>3, <1>5, <1>6, <1>7, <1>8, <1>9, <1>10, AloneThread DEF history

\* What socket() does to the thread that starts a relay, and to no other.
LEMMA AloneSocket ==
    ASSUME TypeInv, Tidy, AloneInv, NEW c \in Clients, NewSocket(c) \/ NoSocket(c),
           ~overlap, alive
    PROVE  AloneInv'
  <1>1. /\ UNCHANGED <<alive, rfd, msg, torn, net, serverUp, client>>
        /\ pc[c] = "socket" /\ pc'[c] = "connect"
        /\ \A d \in Clients \ {c} : pc'[d] = pc[d]
        /\ faults' = faults \/ faults' = TRUE
        /\ overlap' = (overlap \/ \E d \in Clients \ {c} : Relaying(d))
    BY GotoTyped DEF NewSocket, NoSocket, TypeInv, Places
  <1>2. CASE overlap'
    BY <1>2 DEF AloneInv
  <1>3. CASE ~overlap'
    <2>1. \A d \in Clients \ {c} : ~Busy(d)
      BY <1>1, <1>3 DEF Relaying, Busy
    <2>2. made' \in {made, made + 1}
      BY DEF NewSocket, NoSocket
    <2>3. faults => faults'
      BY <1>1
    <2>4. ASSUME NEW d \in Clients PROVE Side(d)'
      BY <1>1, <2>3, SideSame DEF AloneInv, client, net
    <2>5. ASSUME NEW d \in Clients PROVE Own(d)'
      <3>1. Own(d)
        BY DEF AloneInv
      <3>2. CASE d = c
        BY <1>1, <2>3, <3>1, <3>2 DEF Own, client, net, Pending, Asking, Good, Ans, Req, Query
      <3>3. CASE d # c
        BY <1>1, <2>3, <3>1, <3>3, OwnSame DEF client, net
      <3>4. QED
        BY <3>2, <3>3
    <2>6. ASSUME NEW d \in Clients PROVE Link(d)'
      <3>1. CASE d # c
        BY <1>1, <2>1, <3>1 DEF Link, Busy
      <3>2. CASE d = c /\ NoSocket(c)
        BY <1>1, <3>2 DEF Link, NoSocket
      <3>3. CASE d = c /\ NewSocket(c)
        <4>1. Lowest \in Fds /\ server' = Lowest /\ made' = made + 1
              /\ fds' = [fds EXCEPT ![Lowest] = made + 1]
          BY <3>3, LowestIsFree DEF NewSocket
        <4>2. fds'[server'] = made + 1
          BY <4>1 DEF TypeInv, ProcessTyped
        <4>3. made + 1 \in Relays /\ made + 1 > made /\ made + 1 =< made'
          BY <3>3, <4>1, Bounds DEF NewSocket, TypeInv, ProcessTyped, Relays
        <4>4. Sound(made + 1)
          BY <4>3 DEF AloneInv
        <4>5. peer[made + 1] = "new" /\ in[made + 1] = <<>> /\ out[made + 1] = <<>>
          BY <4>3, <4>4 DEF Sound
        <4>6. QED
          BY <1>1, <3>3, <4>2, <4>3, <4>5 DEF Link, net
      <3>4. QED
        BY <3>1, <3>2, <3>3
    <2>7. ASSUME NEW r \in Relays PROVE Sound(r)'
      <3>1. r > made' => r > made
        BY <2>2, Bounds DEF TypeInv, ProcessTyped, Relays
      <3>2. QED
        BY <1>1, <2>3, <3>1 DEF AloneInv, Sound, net
    <2>8. QED
      BY <1>1, <2>3, <2>4, <2>5, <2>6, <2>7 DEF AloneInv
  <1>4. QED
    BY <1>2, <1>3

\* Nobody else reads where a thread reads, so nothing is torn.
LEMMA AloneNotTorn ==
    ASSUME TypeInv, Tidy, AloneInv, NEW c \in Clients, TornRead(c), ~overlap, alive
    PROVE  FALSE
  <1> DEFINE s == SocketOf(ReadFd(c))
  <1>1. ~torn[c]
    BY DEF AloneInv, Own
  <1>2. PICK d \in Clients \ {c} : ReadFd(d) # 0 /\ SocketOf(ReadFd(d)) = s
    BY <1>1 DEF TornRead
  <1>3. ReadFd(c) # 0
    BY DEF TornRead
  <1>4. ASSUME NEW e \in Clients, ReadFd(e) # 0
        PROVE  \/ pc[e] = "recv" /\ SocketOf(ReadFd(e)) = e
               \/ Busy(e) /\ SocketOf(ReadFd(e)) \in Relays
    <2>1. CASE pc[e] = "recv"
      BY <2>1, Reach DEF Using, ReadFd
    <2>2. CASE pc[e] = "read"
      <3>1. ReadFd(e) = rfd[e]
        BY <2>2 DEF ReadFd
      <3>2. QED
        BY <2>2, <3>1, AloneReads
    <2>3. QED
      BY <1>4, <2>1, <2>2 DEF ReadFd
  <1>5. QED
    BY <1>2, <1>3, <1>4, Reach, Distinct

\* SIGPIPE comes only where something has failed.
LEMMA AloneKilled ==
    ASSUME TypeInv, Tidy, AloneInv, NEW c \in Clients, Killed(c), ~overlap, alive
    PROVE  AloneInv'
  <1>1. faults
    <2>1. CASE SendKills(c, "refuse", sock[c])
      BY <2>1 DEF SendKills, AloneInv, Own, Side
    <2>2. CASE SendKills(c, "send", server)
      <3>1. pc[c] = "send" /\ SocketOf(server) # None /\ peer[SocketOf(server)] # "open"
        BY <2>2 DEF SendKills
      <3>2. Busy(c)
        BY <3>1 DEF Busy
      <3>3. SocketOf(server) \in Relays /\ SocketOf(server) \in Sockets
            /\ peer[SocketOf(server)] # "new"
        BY <3>1, <3>2, AloneRelays DEF Link
      <3>4. peer[SocketOf(server)] = "gone"
        BY <3>1, <3>3 DEF TypeInv, NetTyped
      <3>5. QED
        BY <3>3, <3>4 DEF AloneInv, Sound
    <2>3. CASE SendKills(c, "reply", sock[c])
      <3>1. pc[c] = "reply" /\ peer[SocketOf(sock[c])] # "open"
        BY <2>3 DEF SendKills
      <3>2. SocketOf(sock[c]) = c
        BY <3>1, Reach DEF Using
      <3>3. QED
        BY <3>1, <3>2 DEF AloneInv, Side
    <2>4. QED
      BY <2>1, <2>2, <2>3 DEF Killed
  <1>2. Die
    BY DEF Killed, SendKills
  <1>3. /\ alive' = FALSE /\ UNCHANGED <<made, peer, out, serverUp, client, history>>
        /\ \A r \in Relays : in'[r] = <<>>
    BY <1>2, Distinct DEF Die
  <1>4. \A d \in Clients : Side(d)'
    BY <1>3, SideSame DEF AloneInv, client, history
  <1>5. \A r \in Relays : Sound(r)'
    BY <1>3 DEF AloneInv, Sound, history
  <1>6. QED
    BY <1>1, <1>3, <1>4, <1>5 DEF AloneInv, history

\* The server's side.
LEMMA AloneAnswers ==
    ASSUME TypeInv, Tidy, AloneInv, NEW r \in Relays, ServerAnswers(r), ~overlap
    PROVE  AloneInv'
  <1>1. /\ UNCHANGED <<process, thread, serverUp, client, events, faults, overlap>>
        /\ out[r] # <<>> /\ peer[r] = "open"
        /\ r \in Sockets /\ r \notin Clients /\ out[r] \in Seq(Messages)
    BY Distinct DEF ServerAnswers, TypeInv, NetTyped
  <1>2. Sound(r) /\ Head(out[r]).is = "request"
    BY <1>1 DEF AloneInv, Sound
  <1>3. /\ peer' = [peer EXCEPT ![r] = "open"]
        /\ out' = [out EXCEPT ![r] = Tail(@)]
        /\ \/ in' = in
           \/ in' = [in EXCEPT ![r] = Append(@, [is |-> "answer", of |-> Head(out[r]).of])]
    BY <1>2 DEF ServerAnswers
  <1>4. /\ peer' = peer
        /\ \A s \in Sockets \ {r} : out'[s] = out[s] /\ in'[s] = in[s]
        /\ out'[r] = Tail(out[r])
        /\ \/ in'[r] = in[r]
           \/ in'[r] = Append(in[r], [is |-> "answer", of |-> Head(out[r]).of])
    BY <1>1, <1>3 DEF TypeInv, NetTyped
  <1>5. ASSUME NEW d \in Clients PROVE Side(d)'
    BY <1>1, <1>4, SideSame, Distinct DEF AloneInv, client
  <1>6. ASSUME NEW q \in Relays PROVE Sound(q)'
    <2>1. Sound(q) /\ made' = made /\ faults' = faults /\ peer' = peer
      BY <1>1, <1>4 DEF AloneInv, process
    <2>2. CASE q # r
      BY <1>4, <2>1, <2>2, SoundSame, Distinct
    <2>3. CASE q = r
      <3>1. \A i \in DOMAIN Tail(out[r]) : Tail(out[r])[i].is = "request"
        <4>1. \A i \in DOMAIN Tail(out[r]) :
                i + 1 \in DOMAIN out[r] /\ Tail(out[r])[i] = out[r][i + 1]
          BY <1>1
        <4>2. QED
          BY <1>2, <4>1 DEF Sound
      <3>2. QED
        BY <1>1, <1>4, <2>1, <2>3, <3>1 DEF Sound
    <2>4. QED
      BY <2>2, <2>3
  <1>7. ASSUME alive, NEW d \in Clients PROVE Own(d)'
    BY <1>1, <1>4, <1>7, OwnSame, Distinct DEF AloneInv, client, thread
  <1>8. ASSUME alive, NEW d \in Clients PROVE Link(d)'
    <2>1. Link(d)
      BY <1>8 DEF AloneInv
    <2>2. /\ pc' = pc /\ rfd' = rfd /\ asked' = asked /\ server' = server /\ made' = made
          /\ fds' = fds /\ peer' = peer
      BY <1>1, <1>4 DEF process, thread, client
    <2>3. CASE ~Busy(d)
      BY <2>2, <2>3 DEF Busy, Link
    <2>4. CASE Busy(d) /\ server = 0
      BY <2>1, <2>2, <2>4 DEF Link
    <2>5. CASE Busy(d) /\ server # 0 /\ fds[server] # r
      <3>1. fds[server] \in Sockets
        BY <1>8, <2>5, AloneRelays
      <3>2. QED
        BY <1>4, <2>1, <2>2, <2>5, <3>1, LinkSame
    <2>6. CASE Busy(d) /\ server # 0 /\ fds[server] = r
      <3>1. pc[d] \notin {"connect", "send"}
        BY <1>1, <2>1, <2>6 DEF Link
      <3>2. CASE pc[d] \in {"call", "read"}
        <4>1. /\ Only(in[r], Ans(d)) /\ Only(out[r], Req(d))
              /\ pc[d] = "read" => rfd[d] = server
          BY <2>1, <2>6, <3>2 DEF Link
        <4>2. Head(out[r]) = Req(d)
          BY <1>1, <4>1 DEF Only
        <4>3. in'[r] = in[r] \/ in'[r] = Append(in[r], Ans(d))
          BY <1>4, <4>2, Kinds
        <4>4. in[r] \in Seq(Messages)
          BY <1>1 DEF TypeInv, NetTyped
        <4>5. Only(in'[r], Ans(d))
          BY <4>1, <4>3, <4>4 DEF Only
        <4>6. Only(out'[r], Req(d))
          BY <1>1, <1>4, <4>1 DEF Only
        <4>7. Req(d)' = Req(d) /\ Ans(d)' = Ans(d)
          BY <2>2 DEF Req, Ans, Query
        <4>8. QED
          BY <1>1, <2>2, <2>6, <3>2, <4>1, <4>5, <4>6, <4>7 DEF Link, Only
      <3>3. CASE pc[d] \in {"reply", "close"}
        BY <2>2, <3>3 DEF Link
      <3>4. QED
        BY <2>6, <3>1, <3>2, <3>3 DEF Busy
    <2>7. QED
      BY <2>3, <2>4, <2>5, <2>6
  <1>9. QED
    BY <1>1, <1>5, <1>6, <1>7, <1>8 DEF AloneInv, process

LEMMA AloneServer ==
    ASSUME TypeInv, Tidy, AloneInv, ServerDies \/ ServerStarts, ~overlap
    PROVE  AloneInv'
  <1>1. CASE ServerDies
    <2>1. /\ UNCHANGED <<process, thread, in, client, overlap>> /\ faults' = TRUE
          /\ \A d \in Clients : peer'[d] = peer[d] /\ out'[d] = out[d]
          /\ \A r \in Relays : /\ out'[r] = <<>>
                               /\ peer[r] = "new" <=> peer'[r] = "new"
      BY <1>1, Distinct DEF ServerDies, Fault
    <2>2. \A d \in Clients : Side(d)'
      BY <2>1, SideSame DEF AloneInv, client
    <2>3. \A r \in Relays : Sound(r)'
      BY <2>1 DEF AloneInv, Sound, process
    <2>4. ASSUME alive, NEW d \in Clients PROVE Own(d)'
      BY <2>1, <2>4, OwnSame DEF AloneInv, client, thread
    <2>5. ASSUME alive, NEW d \in Clients PROVE Link(d)'
      <3>1. Link(d)
        BY <2>5 DEF AloneInv
      <3>2. /\ pc' = pc /\ rfd' = rfd /\ asked' = asked /\ server' = server /\ made' = made
            /\ fds' = fds /\ in' = in
        BY <2>1 DEF process, thread, client
      <3>3. CASE ~Busy(d)
        BY <3>2, <3>3 DEF Busy, Link
      <3>4. CASE Busy(d) /\ server = 0
        BY <3>1, <3>2, <3>4 DEF Link
      <3>5. CASE Busy(d) /\ server # 0
        <4>1. fds[server] \in Relays
          BY <2>5, <3>5, AloneRelays
        <4>2. out'[fds[server]] = <<>>
          BY <2>1, <4>1
        <4>3. peer[fds[server]] = "new" <=> peer'[fds[server]] = "new"
          BY <2>1, <4>1
        <4>4. Req(d)' = Req(d) /\ Ans(d)' = Ans(d)
          BY <3>2 DEF Req, Ans, Query
        <4>5. QED
          BY <3>1, <3>2, <4>2, <4>3, <4>4 DEF Link, Only
      <3>6. QED
        BY <3>3, <3>4, <3>5
    <2>6. QED
      BY <2>1, <2>2, <2>3, <2>4, <2>5 DEF AloneInv, process
  <1>2. CASE ServerStarts
    <2>1. UNCHANGED <<process, thread, net, client, history>>
      BY <1>2 DEF ServerStarts
    <2>2. faults
      BY <1>2 DEF ServerStarts, AloneInv
    <2>3. \A d \in Clients : Side(d)'
      BY <2>1, SideSame DEF AloneInv, net, client, history
    <2>4. \A r \in Relays : Sound(r)'
      BY <2>1, SoundSame DEF AloneInv, net, process, history
    <2>5. ASSUME alive, NEW d \in Clients PROVE Own(d)' /\ Link(d)'
      BY <2>1, <2>5, OwnSame, LinkSame DEF AloneInv, process, thread, net, client, history
    <2>6. QED
      BY <2>1, <2>2, <2>3, <2>4, <2>5 DEF AloneInv, process, history
  <1>3. QED
    BY <1>1, <1>2

\* A step of one client that keeps its own part keeps the others'.
LEMMA AloneClient ==
    ASSUME TypeInv, Tidy, AloneInv, ~overlap, NEW c \in Clients,
           UNCHANGED <<process, thread, serverUp, overlap>>, faults => faults',
           \A d \in Clients \ {c} :
                /\ in'[d] = in[d] /\ out'[d] = out[d] /\ peer'[d] = peer[d]
                /\ asked'[d] = asked[d] /\ got'[d] = got[d] /\ phase'[d] = phase[d],
           \A r \in Relays : in'[r] = in[r] /\ out'[r] = out[r] /\ peer'[r] = peer[r],
           Side(c)', alive => Own(c)' /\ Link(c)'
    PROVE  AloneInv'
  <1>1. ASSUME NEW d \in Clients \ {c} PROVE Side(d)' /\ (alive => Own(d)' /\ Link(d)')
    <2>1. Side(d) /\ (alive => Own(d) /\ Link(d))
      BY DEF AloneInv
    <2>2. /\ in'[d] = in[d] /\ out'[d] = out[d] /\ peer'[d] = peer[d]
          /\ asked'[d] = asked[d] /\ got'[d] = got[d] /\ phase'[d] = phase[d]
      OBVIOUS
    <2>3. /\ pc' = pc /\ rfd' = rfd /\ msg' = msg /\ torn' = torn
          /\ server' = server /\ fds' = fds /\ made' = made
      BY DEF process, thread
    <2>4. Side(d)' /\ (alive => Own(d)')
      <3>1. Side(d)'
        BY <2>1, <2>2, SideSame
      <3>2. alive => Own(d)'
        BY <2>1, <2>2, <2>3, OwnSame
      <3>3. QED
        BY <3>1, <3>2
    <2>5. ASSUME alive PROVE Link(d)'
      <3>1. CASE ~Busy(d)
        BY <2>3, <3>1 DEF Busy, Link
      <3>2. CASE Busy(d) /\ server = 0
        BY <2>1, <2>2, <2>3, <2>5, <3>2 DEF Link
      <3>3. CASE Busy(d) /\ server # 0
        <4>1. fds[server] \in Relays
          BY <2>5, <3>3, AloneRelays
        <4>2. QED
          BY <2>1, <2>2, <2>3, <2>5, <4>1, LinkSame
      <3>4. QED
        BY <3>1, <3>2, <3>3
    <2>6. QED
      BY <2>4, <2>5
  <1>2. \A r \in Relays : Sound(r)'
    BY SoundSame DEF AloneInv, process
  <1>3. alive' = alive
    BY DEF process
  <1>4. QED
    BY <1>1, <1>2, <1>3 DEF AloneInv

\* The clients.
LEMMA AloneAsk ==
    ASSUME TypeInv, Tidy, AloneInv, NEW c \in Clients, Ask(c), ~overlap
    PROVE  AloneInv'
  <1>1. /\ UNCHANGED <<process, thread, peer, out, serverUp, got, served, faults, overlap>>
        /\ phase[c] = "idle" /\ phase'[c] = "waiting" /\ asked'[c] = asked[c] + 1
        /\ \A d \in Clients \ {c} : phase'[d] = phase[d] /\ asked'[d] = asked[d]
    BY DEF Ask, TypeInv, ClientTyped
  <1>2. Side(c) /\ asked[c] = Len(got[c]) /\ out[c] = <<>>
    BY <1>1 DEF AloneInv, Side
  <1>3. Req(c)' = [is |-> "request", of |-> <<c, asked[c] + 1>>]
    BY <1>1 DEF Req, Query
  <1>4. in' = in \/ in' = [in EXCEPT ![c] = Append(@, Req(c)')]
    BY <1>3 DEF Ask
  <1>5. /\ \A s \in Sockets \ {c} : in'[s] = in[s]
        /\ in'[c] = in[c] \/ in'[c] = Append(in[c], Req(c)')
    BY <1>4, Distinct DEF TypeInv, NetTyped
  <1>6. Side(c)'
    BY <1>1, <1>2 DEF Side
  <1>7. ASSUME alive PROVE Own(c)' /\ Link(c)'
    <2>1. Own(c) /\ in[c] = <<>> /\ pc[c] \in {"none", "recv", "close"}
      <3>1. Own(c)
        BY <1>7 DEF AloneInv
      <3>2. in[c] = <<>> /\ pc[c] \notin Pending /\ pc[c] \notin {"refuse", "end", "ended"}
        BY <1>1, <3>1 DEF Own
      <3>3. pc[c] \in Places
        BY DEF TypeInv, ThreadTyped
      <3>4. QED
        BY <3>1, <3>2, <3>3 DEF Places, Pending, Asking
    <2>2. in'[c] = <<>> \/ in'[c] = <<Req(c)'>>
      <3>1. in[c] = <<>> => Append(in[c], Req(c)') = <<Req(c)'>>
        OBVIOUS
      <3>2. QED
        BY <1>5, <2>1, <3>1
    <2>3. Own(c)'
      BY <1>1, <1>2, <2>1, <2>2 DEF Own, thread, Pending, Asking
    <2>4. Link(c)'
      BY <1>1, <2>1 DEF Link, thread
    <2>5. QED
      BY <2>3, <2>4
  <1>8. \A d \in Clients \ {c} : /\ in'[d] = in[d] /\ out'[d] = out[d] /\ peer'[d] = peer[d]
                                 /\ asked'[d] = asked[d] /\ got'[d] = got[d] /\ phase'[d] = phase[d]
    BY <1>1, <1>5, Distinct
  <1>9. \A r \in Relays : in'[r] = in[r] /\ out'[r] = out[r] /\ peer'[r] = peer[r]
    BY <1>1, <1>5, Distinct
  <1>10. QED
    BY <1>1, <1>6, <1>7, <1>8, <1>9, AloneClient

LEMMA AloneGets ==
    ASSUME TypeInv, Tidy, AloneInv, NEW c \in Clients, GetAnswer(c), ~overlap
    PROVE  AloneInv'
  <1>1. /\ UNCHANGED <<process, thread, peer, in, serverUp, asked, history>>
        /\ phase[c] = "waiting" /\ phase'[c] = "idle" /\ out[c] # <<>>
        /\ got'[c] = Append(got[c], Head(out[c])) /\ out'[c] = Tail(out[c])
        /\ \A d \in Clients \ {c} : phase'[d] = phase[d] /\ got'[d] = got[d]
        /\ \A s \in Sockets \ {c} : out'[s] = out[s]
    BY Distinct DEF GetAnswer, TypeInv, ClientTyped, NetTyped
  <1>2. /\ Side(c) /\ asked[c] = Len(got[c]) + 1 /\ Len(out[c]) = 1 /\ Good(c, Head(out[c]))
        /\ got[c] \in Seq(Messages) /\ out[c] \in Seq(Messages)
    BY <1>1, Distinct DEF AloneInv, Side, TypeInv, ClientTyped, NetTyped
  <1>3. Side(c)'
    <2>1. out'[c] = <<>> /\ Len(got'[c]) = asked[c]
      <3>1. Len(Append(got[c], Head(out[c]))) = Len(got[c]) + 1
        BY <1>1, <1>2, StreamTyped
      <3>2. ASSUME NEW q \in Seq(Messages), Len(q) = 1 PROVE Tail(q) = <<>>
        <4>1. q # <<>>
          BY <3>2, EmptySeq
        <4>2. Tail(q) \in Seq(Messages) /\ Len(Tail(q)) = Len(q) - 1
          BY <4>1, HeadTailProperties
        <4>3. Len(Tail(q)) = 0
          BY <3>2, <4>2
        <4>4. QED
          BY <4>2, <4>3, EmptySeq
      <3>3. Tail(out[c]) = <<>>
        BY <1>2, <3>2
      <3>4. QED
        BY <1>1, <1>2, <3>1, <3>3
    <2>2. ASSUME NEW n \in DOMAIN got'[c]
          PROVE  \/ got'[c][n] = [is |-> "answer", of |-> <<c, n>>]
                 \/ got'[c][n] = Garbage /\ faults
      <3>1. CASE n \in DOMAIN got[c]
        <4>1. got'[c][n] = got[c][n]
          BY <1>1, <1>2, <3>1
        <4>2. QED
          BY <1>2, <3>1, <4>1 DEF Side
      <3>2. CASE n \notin DOMAIN got[c]
        <4>1. n = asked[c] /\ got'[c][n] = Head(out[c])
          BY <1>1, <1>2, <3>2
        <4>2. QED
          BY <1>2, <4>1 DEF Good, Ans, Query
      <3>3. QED
        BY <3>1, <3>2
    <2>3. asked'[c] = asked[c] /\ peer' = peer /\ faults' = faults
      BY <1>1 DEF history
    <2>4. peer[c] = "open"
      BY <1>1, <1>2 DEF Side
    <2>5. QED
      BY <1>1, <2>1, <2>2, <2>3, <2>4 DEF Side
  <1>4. ASSUME alive PROVE Own(c)' /\ Link(c)'
    <2>1. Own(c) /\ in[c] = <<>> /\ pc[c] \notin Pending /\ pc[c] \notin {"refuse", "end", "ended"}
      BY <1>1, <1>4 DEF AloneInv, Own
    <2>2. QED
      BY <1>1, <2>1 DEF Own, Link, thread, Pending, Asking
  <1>5. /\ \A d \in Clients \ {c} : out'[d] = out[d]
        /\ \A r \in Relays : out'[r] = out[r]
    BY <1>1, Distinct
  <1>6. QED
    BY <1>1, <1>3, <1>4, <1>5, AloneClient DEF history

LEMMA AloneGoes ==
    ASSUME TypeInv, Tidy, AloneInv, NEW c \in Clients, Broken(c) \/ Leave(c), ~overlap
    PROVE  AloneInv'
  <1>1. CASE Broken(c)
    <2>1. /\ UNCHANGED <<process, thread, net, serverUp, asked, got, history>>
          /\ phase[c] = "waiting" /\ phase'[c] = "lost" /\ pc[c] # "none" /\ ~Held(c)
          /\ \A d \in Clients \ {c} : phase'[d] = phase[d]
      BY <1>1 DEF Broken, TypeInv, ClientTyped
    <2>2. ~alive
      <3>1. SUFFICES ASSUME alive PROVE FALSE
        OBVIOUS
      <3>2. pc[c] \notin {"none", "ended"}
        BY <2>1, <3>1 DEF AloneInv, Own
      <3>3. SocketOf(sock[c]) = c /\ sock[c] \in Fds
        BY <3>1, <3>2, Reach DEF Using
      <3>4. QED
        BY <2>1, <3>3 DEF Held, SocketOf
    <2>3. faults
      BY <2>2 DEF AloneInv
    <2>4. Side(c)'
      BY <2>1, <2>3 DEF AloneInv, Side, net, history
    <2>5. QED
      BY <2>1, <2>2, <2>4, AloneClient DEF net, history
  <1>2. CASE Leave(c)
    <2>1. /\ UNCHANGED <<process, thread, in, serverUp, asked, got, served, overlap>>
          /\ faults' = TRUE /\ phase'[c] = "left" /\ peer'[c] = "gone"
          /\ \A d \in Clients \ {c} : phase'[d] = phase[d]
          /\ \A s \in Sockets \ {c} : peer'[s] = peer[s] /\ out'[s] = out[s]
      BY <1>2, Distinct DEF Leave, Fault, TypeInv, ClientTyped, NetTyped
    <2>2. Side(c)'
      BY <2>1 DEF AloneInv, Side
    <2>3. ASSUME alive PROVE Own(c)'
      BY <2>1, <2>3 DEF AloneInv, Own, thread, Good, Ans, Req, Query
    <2>4. ASSUME alive PROVE Link(c)'
      <3>1. Link(c)
        BY <2>4 DEF AloneInv
      <3>2. CASE Busy(c) /\ server # 0
        <4>1. fds[server] \in Sockets \ {c}
          BY <2>4, <3>2, AloneRelays
        <4>2. QED
          BY <2>1, <3>1, <4>1, LinkSame DEF process, thread
      <3>3. CASE ~Busy(c) \/ server = 0
        BY <2>1, <3>1, <3>3 DEF Busy, Link, process, thread
      <3>4. QED
        BY <3>2, <3>3
    <2>5. /\ \A d \in Clients \ {c} : peer'[d] = peer[d] /\ out'[d] = out[d]
          /\ \A r \in Relays : peer'[r] = peer[r] /\ out'[r] = out[r]
      BY <2>1, Distinct
    <2>6. QED
      BY <2>1, <2>2, <2>3, <2>4, <2>5, AloneClient
  <1>3. QED
    BY <1>1, <1>2

LEMMA AloneStep ==
    ASSUME TypeInv, Tidy, AloneInv, [Next]_vars
    PROVE  AloneInv'
  <1>1. CASE overlap
    <2>1. ASSUME NEW c \in Clients,
                 ThreadStep(c) \/ Ask(c) \/ GetAnswer(c) \/ Broken(c) \/ Leave(c)
          PROVE  overlap'
      BY <1>1, <2>1 DEF ThreadStep, Accept, RecvRequest, RecvNothing, Refuse, End, NewSocket,
          NoSocket, Connect, SendRequest, CallRead, ReadAnswer, ReadNothing, TornRead, Reply,
          CloseServer, Killed, SendKills, Die, Ask, GetAnswer, Broken, Leave, history
    <2>2. ASSUME (\E r \in Relays : ServerAnswers(r)) \/ ServerDies \/ ServerStarts
                    \/ Waiting \/ UNCHANGED vars
          PROVE  overlap'
      BY <1>1, <2>2 DEF ServerAnswers, ServerDies, ServerStarts, Waiting, vars, history
    <2>3. QED
      BY <2>1, <2>2 DEF Next, AloneInv
  <1>2. CASE ~overlap
    <2>1. ASSUME NEW c \in Clients, ThreadStep(c) PROVE AloneInv'
      <3>1. alive
        BY <2>1 DEF ThreadStep, Accept, RecvRequest, RecvNothing, Refuse, Send, End, NewSocket,
            NoSocket, Connect, SendRequest, CallRead, ReadAnswer, ReadNothing, TornRead, Reply,
            CloseServer, Killed, SendKills, Goto
      <3>2. QED
        BY <1>2, <2>1, <3>1, AloneReceive, AloneRequest, AloneRefuse, AloneEnd, AloneSocket,
           AloneConnect, AloneSend, AloneCall, AloneReadAnswer, AloneReadNothing, AloneNotTorn,
           AloneReply, AloneCloses, AloneKilled DEF ThreadStep
    <2>2. ASSUME NEW c \in Clients, Ask(c) \/ GetAnswer(c) \/ Broken(c) \/ Leave(c)
          PROVE  AloneInv'
      BY <1>2, <2>2, AloneAsk, AloneGets, AloneGoes
    <2>3. ASSUME (\E r \in Relays : ServerAnswers(r)) \/ ServerDies \/ ServerStarts
          PROVE  AloneInv'
      BY <1>2, <2>3, AloneAnswers, AloneServer
    <2>4. ASSUME UNCHANGED vars PROVE AloneInv'
      <3>1. UNCHANGED <<process, thread, net, serverUp, client, history>>
        BY <2>4 DEF vars
      <3>2. \A d \in Clients : Side(d)'
        BY <1>2, <3>1, SideSame DEF AloneInv, net, client, history
      <3>3. \A r \in Relays : Sound(r)'
        BY <1>2, <3>1, SoundSame DEF AloneInv, net, process, history
      <3>4. ASSUME alive, NEW d \in Clients PROVE Own(d)' /\ Link(d)'
        BY <1>2, <3>1, <3>4, OwnSame, LinkSame
           DEF AloneInv, process, thread, net, client, history
      <3>5. QED
        BY <1>2, <3>1, <3>2, <3>3, <3>4 DEF AloneInv, process, history
    <2>5. QED
      BY <2>1, <2>2, <2>3, <2>4 DEF Next, Waiting
  <1>3. QED
    BY <1>1, <1>2 DEF TypeInv, RestTyped

LEMMA AloneAlways == Spec => []AloneInv
<1>1. Init => AloneInv
  <2> SUFFICES ASSUME Init PROVE AloneInv
    OBVIOUS
  <2>1. ASSUME NEW c \in Clients PROVE Side(c) /\ Own(c) /\ Link(c)
    BY Distinct DEF Init, Side, Own, Link, Pending, Asking
  <2>2. ASSUME NEW r \in Relays PROVE Sound(r)
    BY Distinct DEF Init, Sound
  <2>3. QED
    BY <2>1, <2>2 DEF Init, AloneInv
<1>2. QED
  BY <1>1, AloneStep, TypeAlways, TidyAlways, PTL DEF Spec

\* Until two relays overlap each client is given the server's answers to its
\* own requests, in their order, or what a fault made of one; and without a
\* fault the backend neither dies nor drops anybody.
THEOREM AloneGetsItsOwn == Spec => []AloneIsRight
<1>1. TypeInv /\ AloneInv => AloneIsRight
  <2> SUFFICES ASSUME TypeInv, AloneInv, ~overlap
               PROVE  /\ \A c \in Clients : \A n \in DOMAIN got[c] :
                            \/ got[c][n] = [is |-> "answer", of |-> <<c, n>>]
                            \/ got[c][n] = Garbage /\ faults
                      /\ ~faults => alive /\ \A c \in Clients : phase[c] # "lost"
    BY DEF AloneIsRight
  <2>1. QED
    BY DEF AloneInv, Side
<1>2. QED
  BY <1>1, TypeAlways, AloneAlways, PTL

-----------------------------------------------------------------------------
(* Copies of messages: where they are is a store of streams.               *)

Spots == ({"in", "out"} \X Sockets) \cup ({"got", "msg"} \X Clients)

InAt(s)  == <<"in", s>>
OutAt(s) == <<"out", s>>
GotAt(c) == <<"got", c>>
MsgAt(c) == <<"msg", c>>
Hand(m)  == <<m>>

StoreOf(i, o, g, m) == [p \in Spots |-> IF p[1] = "in" THEN i[p[2]]
                                        ELSE IF p[1] = "out" THEN o[p[2]]
                                        ELSE IF p[1] = "got" THEN g[p[2]] ELSE Hand(m[p[2]])]
Store == StoreOf(in, out, got, msg)
Stores == [Spots -> Seq(Messages)]

\* A message is in one place only.
Once(S) ==
    \A p, q \in Spots : \A i \in DOMAIN S[p], j \in DOMAIN S[q] :
        S[p][i] = S[q][j] /\ S[p][i] # Garbage => p = q /\ i = j

\* An answer is to a request that the server has handled; it has handled no
\* request that is still under way, and none that was not asked.
Fit(m, done, number) ==
    m # Garbage => /\ m.is = "answer" <=> m.of \in done
                   /\ m.of[2] =< number[m.of[1]]
Fits(S, done, number) ==
    \A p \in Spots : \A i \in DOMAIN S[p] : Fit(S[p][i], done, number)

OnceInv ==
    /\ Once(Store) /\ Fits(Store, served, asked)
    /\ \A q \in served : q[2] =< asked[q[1]]

\* How a stream changes: nothing is added; its head is taken; m is added, as
\* its n-th.
Less(t, s)       == \A i \in DOMAIN t : t[i] = Garbage \/ (i \in DOMAIN s /\ t[i] = s[i])
After(t, s)      == \A i \in DOMAIN t : t[i] = Garbage \/ (i + 1 \in DOMAIN s /\ t[i] = s[i + 1])
Plus(t, s, n, m) == \A i \in DOMAIN t :
    t[i] = Garbage \/ (i \in DOMAIN s /\ t[i] = s[i]) \/ (i = n /\ t[i] = m)

LEMMA HandTyped ==
    \A m \in Messages : Hand(m) \in Seq(Messages) /\ Hand(m) # <<>> /\ Hand(m)[1] = m
  BY DEF Hand

\* How the streams of the specification change.
LEMMA StreamMoves ==
    /\ \A s \in Seq(Messages) : Less(s, s) /\ Less(<<>>, s)
    /\ \A s \in Seq(Messages) : Less(Hand(Garbage), s) /\ After(Hand(Garbage), s)
    /\ \A s \in Seq(Messages) : Less(Append(s, Garbage), s)
    /\ \A s \in Seq(Messages) : s # <<>> => After(Tail(s), s)
    /\ \A s \in Seq(Messages) : s # <<>> => Less(<<Garbage>> \o Tail(s), s)
    /\ \A s \in Seq(Messages), m \in Messages : Plus(Append(s, m), s, Len(s) + 1, m)
    /\ \A s \in Seq(Messages), m \in Messages : Plus(Hand(m), s, 1, m)
    /\ \A t, s, n, m : Less(t, s) => Plus(t, s, n, m)
<1>1. \A s \in Seq(Messages) : Less(s, s) /\ Less(<<>>, s)
  BY DEF Less
<1>2. \A s \in Seq(Messages) : Less(Hand(Garbage), s) /\ After(Hand(Garbage), s)
  BY DEF Less, After, Hand
<1>3. \A s \in Seq(Messages) : Less(Append(s, Garbage), s)
  BY MessageTyped DEF Less
<1>4. \A s \in Seq(Messages) : s # <<>> => After(Tail(s), s)
  BY DEF After
<1>5. ASSUME NEW s \in Seq(Messages), s # <<>>
      PROVE  Less(<<Garbage>> \o Tail(s), s)
  <2>1. Tail(s) \in Seq(Messages) /\ Len(Tail(s)) = Len(s) - 1
        /\ \A i \in 1 .. Len(Tail(s)) : Tail(s)[i] = s[i + 1]
    BY <1>5, HeadTailProperties
  <2>2. <<Garbage>> \in Seq(Messages) /\ Len(<<Garbage>>) = 1
    BY MessageTyped
  <2>3. \A i \in DOMAIN (<<Garbage>> \o Tail(s)) :
            i = 1 \/ (i - 1 \in 1 .. Len(Tail(s)) /\ (<<Garbage>> \o Tail(s))[i] = Tail(s)[i - 1])
    BY <2>1, <2>2
  <2>4. (<<Garbage>> \o Tail(s))[1] = Garbage
    BY <2>1, <2>2
  <2>5. QED
    BY <2>1, <2>3, <2>4 DEF Less
<1>6. \A s \in Seq(Messages), m \in Messages : Plus(Append(s, m), s, Len(s) + 1, m)
  BY DEF Plus
<1>7. \A s \in Seq(Messages), m \in Messages : Plus(Hand(m), s, 1, m)
  BY DEF Plus, Hand
<1>8. \A t, s, n, m : Less(t, s) => Plus(t, s, n, m)
  BY DEF Less, Plus
<1>9. QED
  BY <1>1, <1>2, <1>3, <1>4, <1>5, <1>6, <1>7, <1>8

\* The places, and which are the same.
LEMMA SpotsAre ==
    ASSUME NEW p \in Spots
    PROVE  \/ \E s \in Sockets : p = InAt(s) \/ p = OutAt(s)
           \/ \E c \in Clients : p = GotAt(c) \/ p = MsgAt(c)
  BY DEF Spots, InAt, OutAt, GotAt, MsgAt

LEMMA SpotsDiffer ==
    ASSUME NEW s, NEW t
    PROVE  /\ InAt(s) = InAt(t) => s = t
           /\ OutAt(s) = OutAt(t) => s = t
           /\ GotAt(s) = GotAt(t) => s = t
           /\ MsgAt(s) = MsgAt(t) => s = t
           /\ InAt(s) # OutAt(t) /\ InAt(s) # GotAt(t) /\ InAt(s) # MsgAt(t)
           /\ OutAt(s) # GotAt(t) /\ OutAt(s) # MsgAt(t) /\ GotAt(s) # MsgAt(t)
  BY DEF InAt, OutAt, GotAt, MsgAt

\* What a store holds, place by place.
StoredAt(S, i, o, g, m) ==
    /\ S \in Stores
    /\ \A s \in Sockets : /\ InAt(s) \in Spots /\ S[InAt(s)] = i[s]
                          /\ OutAt(s) \in Spots /\ S[OutAt(s)] = o[s]
    /\ \A c \in Clients : /\ GotAt(c) \in Spots /\ S[GotAt(c)] = g[c]
                          /\ MsgAt(c) \in Spots /\ S[MsgAt(c)] = Hand(m[c])

LEMMA StoreAt ==
    ASSUME NEW i \in [Sockets -> Seq(Messages)], NEW o \in [Sockets -> Seq(Messages)],
           NEW g \in [Clients -> Seq(Messages)], NEW m \in [Clients -> Messages]
    PROVE  StoredAt(StoreOf(i, o, g, m), i, o, g, m)
<1> DEFINE S == StoreOf(i, o, g, m)
<1>1. ASSUME NEW s \in Sockets
      PROVE  /\ InAt(s) \in Spots /\ S[InAt(s)] = i[s]
             /\ OutAt(s) \in Spots /\ S[OutAt(s)] = o[s]
  <2>1. InAt(s) \in Spots /\ OutAt(s) \in Spots
    BY DEF Spots, InAt, OutAt, GotAt, MsgAt
  <2>2. QED
    BY <2>1 DEF StoreOf, InAt, OutAt, GotAt, MsgAt
<1>2. ASSUME NEW c \in Clients
      PROVE  /\ GotAt(c) \in Spots /\ S[GotAt(c)] = g[c]
             /\ MsgAt(c) \in Spots /\ S[MsgAt(c)] = Hand(m[c])
  <2>1. GotAt(c) \in Spots /\ MsgAt(c) \in Spots
    BY DEF Spots, InAt, OutAt, GotAt, MsgAt
  <2>2. QED
    BY <2>1 DEF StoreOf, InAt, OutAt, GotAt, MsgAt
<1>3. S \in Stores
  <2>1. \A c \in Clients : Hand(m[c]) \in Seq(Messages)
    BY HandTyped
  <2>2. ASSUME NEW p \in Spots PROVE S[p] \in Seq(Messages)
    <3> HIDE DEF S
    <3>1. CASE \E s \in Sockets : p = InAt(s) \/ p = OutAt(s)
      BY <1>1, <3>1
    <3>2. CASE \E c \in Clients : p = GotAt(c) \/ p = MsgAt(c)
      BY <1>2, <2>1, <3>2
    <3>3. QED
      BY <3>1, <3>2, SpotsAre
  <2>3. S = [p \in Spots |-> S[p]]
    BY DEF StoreOf
  <2>4. QED
    BY <2>2, <2>3 DEF Stores
<1>4. QED
  BY <1>1, <1>2, <1>3 DEF StoredAt

\* A store to which nothing is added.
LEMMA DroppedOnce ==
    ASSUME NEW S \in Stores, NEW T \in Stores, \A p \in Spots : Less(T[p], S[p]),
           NEW done, NEW number, Once(S), Fits(S, done, number)
    PROVE  Once(T) /\ Fits(T, done, number)
<1>1. ASSUME NEW p \in Spots, NEW i \in DOMAIN T[p], T[p][i] # Garbage
      PROVE  i \in DOMAIN S[p] /\ T[p][i] = S[p][i]
  BY <1>1 DEF Less
<1>2. Once(T)
  BY <1>1 DEF Once
<1>3. Fits(T, done, number)
  <2> SUFFICES ASSUME NEW p \in Spots, NEW i \in DOMAIN T[p] PROVE Fit(T[p][i], done, number)
    BY DEF Fits
  <2>1. Fit(Garbage, done, number)
    BY DEF Fit
  <2>2. QED
    BY <1>1, <2>1 DEF Fits
<1>4. QED
  BY <1>2, <1>3

\* A store in which one message moves.
LEMMA MovedOnce ==
    ASSUME NEW S \in Stores, NEW T \in Stores, NEW src \in Spots, NEW dst \in Spots, src # dst,
           S[src] # <<>>, NEW n, After(T[src], S[src]), Plus(T[dst], S[dst], n, S[src][1]),
           \A p \in Spots \ {src, dst} : Less(T[p], S[p]),
           NEW done, NEW number, Once(S), Fits(S, done, number)
    PROVE  Once(T) /\ Fits(T, done, number)
<1> DEFINE m == S[src][1]
<1>1. /\ 1 \in DOMAIN S[src]
      /\ \A p \in Spots : DOMAIN S[p] \subseteq Nat /\ DOMAIN T[p] \subseteq Nat \ {0}
  BY EmptySeq DEF Stores
<1>2. ASSUME NEW p \in Spots, NEW i \in DOMAIN T[p], T[p][i] # Garbage
      PROVE  \/ p = dst /\ i = n /\ T[p][i] = m
             \/ p # src /\ i \in DOMAIN S[p] /\ T[p][i] = S[p][i] /\ T[p][i] # m
             \/ p = src /\ i + 1 \in DOMAIN S[p] /\ T[p][i] = S[p][i + 1] /\ T[p][i] # m
  <2>1. CASE p = src
    <3>1. i + 1 \in DOMAIN S[p] /\ T[p][i] = S[p][i + 1]
      BY <1>2, <2>1 DEF After
    <3>2. i + 1 # 1
      BY <1>1
    <3>3. QED
      BY <1>1, <1>2, <2>1, <3>1, <3>2 DEF Once
  <2>2. CASE p # src
    <3>1. \/ p = dst /\ i = n /\ T[p][i] = m
          \/ i \in DOMAIN S[p] /\ T[p][i] = S[p][i]
      BY <1>2, <2>2 DEF Less, Plus
    <3>2. QED
      BY <1>1, <1>2, <2>2, <3>1 DEF Once
  <2>3. QED
    BY <2>1, <2>2
<1>3. Once(T)
  <2> SUFFICES ASSUME NEW p \in Spots, NEW q \in Spots,
                      NEW i \in DOMAIN T[p], NEW j \in DOMAIN T[q],
                      T[p][i] = T[q][j], T[p][i] # Garbage
               PROVE  p = q /\ i = j
    BY DEF Once
  <2>1. CASE T[p][i] = m
    BY <1>2, <2>1
  <2>2. CASE T[p][i] # m
    <3> DEFINE x == IF p = src THEN i + 1 ELSE i
               y == IF q = src THEN j + 1 ELSE j
    <3>1. x \in DOMAIN S[p] /\ T[p][i] = S[p][x]
      BY <1>2, <2>2
    <3>2. y \in DOMAIN S[q] /\ T[q][j] = S[q][y]
      BY <1>2, <2>2
    <3>3. p = q /\ x = y
      <4>1. S[p][x] = S[q][y] /\ S[p][x] # Garbage
        BY <3>1, <3>2
      <4> HIDE DEF x, y
      <4>2. QED
        BY <3>1, <3>2, <4>1 DEF Once
    <3>4. i \in Nat /\ j \in Nat
      BY <1>1
    <3>5. QED
      BY <3>3, <3>4
  <2>3. QED
    BY <2>1, <2>2
<1>4. Fits(T, done, number)
  <2> SUFFICES ASSUME NEW p \in Spots, NEW i \in DOMAIN T[p], T[p][i] # Garbage
               PROVE  \E q \in Spots : \E j \in DOMAIN S[q] : T[p][i] = S[q][j]
    BY DEF Fits, Fit
  <2>1. QED
    BY <1>1, <1>2
<1>5. QED
  BY <1>3, <1>4

LEMMA StreamsTyped ==
    ASSUME TypeInv
    PROVE  /\ in \in [Sockets -> Seq(Messages)] /\ out \in [Sockets -> Seq(Messages)]
           /\ got \in [Clients -> Seq(Messages)] /\ msg \in [Clients -> Messages]
  BY DEF TypeInv, ThreadTyped, NetTyped, ClientTyped

LEMMA StoreNow ==
    ASSUME TypeInv
    PROVE  StoredAt(Store, in, out, got, msg)
  BY StreamsTyped, StoreAt DEF Store

LEMMA StoreNext ==
    ASSUME TypeInv'
    PROVE  StoredAt(Store', in', out', got', msg')
<1>1. /\ in' \in [Sockets -> Seq(Messages)] /\ out' \in [Sockets -> Seq(Messages)]
      /\ got' \in [Clients -> Seq(Messages)] /\ msg' \in [Clients -> Messages]
  BY DEF TypeInv, ThreadTyped, NetTyped, ClientTyped
<1>2. QED
  BY <1>1, StoreAt DEF Store

\* A step that adds no message.
LEMMA DroppedStep ==
    ASSUME TypeInv, TypeInv', OnceInv, served' = served, asked' = asked,
           \A s \in Sockets : Less(in'[s], in[s]) /\ Less(out'[s], out[s]),
           \A c \in Clients : Less(got'[c], got[c]) /\ msg'[c] \in {msg[c], Garbage}
    PROVE  OnceInv'
<1>1. ASSUME NEW p \in Spots PROVE Less(Store'[p], Store[p])
  <2>1. ASSUME NEW s \in Sockets, p = InAt(s) \/ p = OutAt(s)
        PROVE  Less(Store'[p], Store[p])
    BY <2>1, StoreNow, StoreNext DEF StoredAt
  <2>2. ASSUME NEW c \in Clients, p = GotAt(c) \/ p = MsgAt(c)
        PROVE  Less(Store'[p], Store[p])
    <3>1. Less(Hand(msg'[c]), Hand(msg[c]))
      BY StreamsTyped, HandTyped, StreamMoves
    <3>2. QED
      BY <2>2, <3>1, StoreNow, StoreNext DEF StoredAt
  <2>3. QED
    BY <2>1, <2>2, SpotsAre
<1>2. Store \in Stores /\ Store' \in Stores /\ Once(Store) /\ Fits(Store, served, asked)
  BY StoreNow, StoreNext DEF OnceInv, StoredAt
<1>3. Once(Store') /\ Fits(Store', served, asked)
  BY <1>1, <1>2, DroppedOnce
<1>4. QED
  BY <1>3 DEF OnceInv, Once, Fits

\* A step that takes the first message of src, and may add it to dst.
LEMMA MovedStep ==
    ASSUME TypeInv, TypeInv', OnceInv, served' = served, asked' = asked,
           NEW src \in Spots, NEW dst \in Spots, src # dst, Store[src] # <<>>, NEW n,
           After(Store'[src], Store[src]), Plus(Store'[dst], Store[dst], n, Store[src][1]),
           \A p \in Spots \ {src, dst} : Store'[p] = Store[p]
    PROVE  OnceInv'
<1>1. \A p \in Spots \ {src, dst} : Less(Store'[p], Store[p])
  BY DEF Less
<1>2. Store \in Stores /\ Store' \in Stores /\ Once(Store) /\ Fits(Store, served, asked)
  BY StoreNow, StoreNext DEF OnceInv, StoredAt
<1>3. Once(Store') /\ Fits(Store', served, asked)
  BY <1>1, <1>2, MovedOnce
<1>4. QED
  BY <1>3 DEF OnceInv, Once, Fits

\* What is not touched stays where it is.
LEMMA StoreSame ==
    ASSUME TypeInv, TypeInv', NEW p \in Spots,
           \A s \in Sockets : /\ p = InAt(s) => in'[s] = in[s]
                              /\ p = OutAt(s) => out'[s] = out[s],
           \A c \in Clients : /\ p = GotAt(c) => got'[c] = got[c]
                              /\ p = MsgAt(c) => msg'[c] = msg[c]
    PROVE  Store'[p] = Store[p]
<1>1. ASSUME NEW s \in Sockets, p = InAt(s) \/ p = OutAt(s) PROVE Store'[p] = Store[p]
  BY <1>1, StoreNow, StoreNext DEF StoredAt
<1>2. ASSUME NEW c \in Clients, p = GotAt(c) \/ p = MsgAt(c) PROVE Store'[p] = Store[p]
  BY <1>2, StoreNow, StoreNext DEF StoredAt
<1>3. QED
  BY <1>1, <1>2, SpotsAre

\* A message taken from a stream, put into one, or both.
LEMMA TakenOnce ==
    ASSUME TypeInv, TypeInv', OnceInv, NEW s \in Sockets, NEW c \in Clients, in[s] # <<>>,
           in' = [in EXCEPT ![s] = Tail(@)], msg' = [msg EXCEPT ![c] = Head(in[s])],
           UNCHANGED <<out, got, served, asked>>
    PROVE  OnceInv'
<1> DEFINE src == InAt(s)
           dst == MsgAt(c)
<1>1. /\ in[s] \in Seq(Messages) /\ in'[s] = Tail(in[s]) /\ msg'[c] = Head(in[s])
      /\ Head(in[s]) = in[s][1] /\ Head(in[s]) \in Messages /\ Hand(msg[c]) \in Seq(Messages)
      /\ \A t \in Sockets : t # s => in'[t] = in[t]
      /\ \A d \in Clients : d # c => msg'[d] = msg[d]
  BY StreamsTyped, HandTyped
<1>2. /\ src \in Spots /\ Store[src] = in[s] /\ Store'[src] = Tail(in[s])
      /\ dst \in Spots /\ Store[dst] = Hand(msg[c]) /\ Store'[dst] = Hand(Head(in[s]))
  BY <1>1, StoreNow, StoreNext DEF StoredAt
<1>3. After(Store'[src], Store[src]) /\ Plus(Store'[dst], Store[dst], 1, Store[src][1])
  BY <1>1, <1>2, StreamMoves
<1>4. ASSUME NEW p \in Spots \ {src, dst} PROVE Store'[p] = Store[p]
  BY <1>1, StoreSame
<1>5. src # dst
  BY SpotsDiffer
<1>6. QED
  BY <1>2, <1>3, <1>4, <1>5, MovedStep

LEMMA SentOnce ==
    ASSUME TypeInv, TypeInv', OnceInv, NEW s \in Sockets, NEW c \in Clients,
           out' = [out EXCEPT ![s] = Append(@, msg[c])], msg' = [msg EXCEPT ![c] = Garbage],
           UNCHANGED <<in, got, served, asked>>
    PROVE  OnceInv'
<1> DEFINE src == MsgAt(c)
           dst == OutAt(s)
<1>1. /\ out[s] \in Seq(Messages) /\ out'[s] = Append(out[s], msg[c]) /\ msg'[c] = Garbage
      /\ msg[c] \in Messages /\ Hand(msg[c]) \in Seq(Messages)
      /\ Hand(msg[c])[1] = msg[c] /\ Hand(msg[c]) # <<>>
      /\ \A t \in Sockets : t # s => out'[t] = out[t]
      /\ \A d \in Clients : d # c => msg'[d] = msg[d]
  BY StreamsTyped, HandTyped
<1>2. /\ src \in Spots /\ Store[src] = Hand(msg[c]) /\ Store'[src] = Hand(Garbage)
      /\ dst \in Spots /\ Store[dst] = out[s] /\ Store'[dst] = Append(out[s], msg[c])
  BY <1>1, StoreNow, StoreNext DEF StoredAt
<1>3. /\ After(Store'[src], Store[src])
      /\ Plus(Store'[dst], Store[dst], Len(out[s]) + 1, Store[src][1])
  BY <1>1, <1>2, StreamMoves
<1>4. ASSUME NEW p \in Spots \ {src, dst} PROVE Store'[p] = Store[p]
  BY <1>1, StoreSame
<1>5. src # dst
  BY SpotsDiffer
<1>6. QED
  BY <1>1, <1>2, <1>3, <1>4, <1>5, MovedStep

LEMMA GotOnce ==
    ASSUME TypeInv, TypeInv', OnceInv, NEW c \in Clients, out[c] # <<>>,
           out' = [out EXCEPT ![c] = Tail(@)], got' = [got EXCEPT ![c] = Append(@, Head(out[c]))],
           UNCHANGED <<in, msg, served, asked>>
    PROVE  OnceInv'
<1> DEFINE src == OutAt(c)
           dst == GotAt(c)
<1>1. /\ out[c] \in Seq(Messages) /\ out'[c] = Tail(out[c])
      /\ got[c] \in Seq(Messages) /\ got'[c] = Append(got[c], Head(out[c]))
      /\ Head(out[c]) = out[c][1] /\ Head(out[c]) \in Messages
      /\ \A s \in Sockets : s # c => out'[s] = out[s]
      /\ \A d \in Clients : d # c => got'[d] = got[d]
  BY StreamsTyped, Distinct
<1>2. /\ src \in Spots /\ Store[src] = out[c] /\ Store'[src] = Tail(out[c])
      /\ dst \in Spots /\ Store[dst] = got[c] /\ Store'[dst] = Append(got[c], Head(out[c]))
  BY <1>1, StoreNow, StoreNext, Distinct DEF StoredAt
<1>3. /\ After(Store'[src], Store[src])
      /\ Plus(Store'[dst], Store[dst], Len(got[c]) + 1, Store[src][1])
  BY <1>1, <1>2, StreamMoves
<1>4. ASSUME NEW p \in Spots \ {src, dst} PROVE Store'[p] = Store[p]
  BY <1>1, StoreSame
<1>5. src # dst
  BY SpotsDiffer
<1>6. QED
  BY <1>1, <1>2, <1>3, <1>4, <1>5, MovedStep

\* What is read in pieces is gone, or left as garbage.
LEMMA TornOnce ==
    ASSUME TypeInv, TypeInv', OnceInv, NEW c \in Clients, TornRead(c)
    PROVE  OnceInv'
<1> DEFINE s == SocketOf(ReadFd(c))
<1>1. UNCHANGED <<out, got, served, asked>> /\ msg' = [msg EXCEPT ![c] = Garbage]
  BY DEF TornRead, client, history
<1>2. \/ in' = in
      \/ /\ s # None /\ in[s] # <<>>
         /\ \/ in' = [in EXCEPT ![s] = <<>> \o Tail(@)]
            \/ in' = [in EXCEPT ![s] = <<Garbage>> \o Tail(@)]
  BY DEF TornRead
<1>3. \A d \in Clients : msg'[d] \in {msg[d], Garbage}
  BY <1>1, StreamsTyped
<1>4. CASE \A t \in Sockets : Less(in'[t], in[t])
  <2>1. \A t \in Sockets : Less(out'[t], out[t])
    BY <1>1, StreamsTyped, StreamMoves
  <2>2. \A d \in Clients : Less(got'[d], got[d])
    BY <1>1, StreamsTyped, StreamMoves
  <2>3. QED
    BY <1>1, <1>3, <1>4, <2>1, <2>2, DroppedStep
<1>5. CASE in' = in
  BY <1>4, <1>5, StreamsTyped, StreamMoves
<1>6. CASE s # None /\ in[s] # <<>> /\ in' = [in EXCEPT ![s] = <<Garbage>> \o Tail(@)]
  <2>1. s \in Sockets
    BY <1>6, SocketTyped DEF TypeInv
  <2>2. \A t \in Sockets : in[t] \in Seq(Messages) /\ (t # s => in'[t] = in[t])
    BY <1>6, StreamsTyped
  <2>3. in'[s] = <<Garbage>> \o Tail(in[s])
    BY <1>6, <2>1, StreamsTyped
  <2>4. \A t \in Sockets : Less(in'[t], in[t])
    BY <1>6, <2>1, <2>2, <2>3, StreamMoves
  <2>5. QED
    BY <1>4, <2>4
<1>7. CASE s # None /\ in[s] # <<>> /\ in' = [in EXCEPT ![s] = <<>> \o Tail(@)]
  <2> DEFINE src == InAt(s)
             dst == MsgAt(c)
  <2>1. s \in Sockets
    BY <1>7, SocketTyped DEF TypeInv
  <2>2. /\ in[s] \in Seq(Messages) /\ Tail(in[s]) \in Seq(Messages)
        /\ in'[s] = <<>> \o Tail(in[s])
        /\ \A t \in Sockets : t # s => in'[t] = in[t]
    BY <1>7, <2>1, StreamsTyped, StreamTyped
  <2>3. in'[s] = Tail(in[s])
    BY <2>2, ConcatEmptySeq
  <2>4. /\ msg'[c] = Garbage /\ Hand(msg[c]) \in Seq(Messages)
        /\ \A d \in Clients : d # c => msg'[d] = msg[d]
    BY <1>1, StreamsTyped, HandTyped
  <2>5. /\ src \in Spots /\ Store[src] = in[s] /\ Store'[src] = Tail(in[s])
        /\ dst \in Spots /\ Store[dst] = Hand(msg[c]) /\ Store'[dst] = Hand(Garbage)
    BY <2>1, <2>3, <2>4, StoreNow, StoreNext DEF StoredAt
  <2>6. After(Store'[src], Store[src]) /\ Plus(Store'[dst], Store[dst], 1, Store[src][1])
    BY <1>7, <2>2, <2>4, <2>5, StreamMoves
  <2>7. ASSUME NEW p \in Spots \ {src, dst} PROVE Store'[p] = Store[p]
    BY <1>1, <2>2, <2>4, StoreSame
  <2>8. src # dst
    BY SpotsDiffer
  <2>9. QED
    BY <1>1, <1>7, <2>5, <2>6, <2>7, <2>8, MovedStep
<1>8. QED
  BY <1>2, <1>5, <1>6, <1>7

\* A message is its kind and what it is about.
LEMMA MessageIs ==
    ASSUME NEW x \in Messages, NEW y \in Messages, x # Garbage, y # Garbage,
           x.of = y.of, x.is = y.is
    PROVE  x = y
  BY DEF Messages

\* A request becomes its answer.
IsAnswer(a, m) == m.is = "request" /\ a.is = "answer" /\ a.of = m.of

LEMMA AnsweredOnce ==
    ASSUME NEW S \in Stores, NEW T \in Stores, NEW src \in Spots, NEW dst \in Spots, src # dst,
           S[src] # <<>>, S[src][1] \in Messages, NEW a \in Messages, IsAnswer(a, S[src][1]), NEW n,
           After(T[src], S[src]), Plus(T[dst], S[dst], n, a),
           \A p \in Spots \ {src, dst} : Less(T[p], S[p]),
           NEW done, NEW number, Once(S), Fits(S, done, number)
    PROVE  Once(T) /\ Fits(T, done \cup {a.of}, number)
<1> DEFINE m == S[src][1]
           At(p, i) == IF p = src THEN i + 1 ELSE i
<1>1. m.is = "request" /\ a.is = "answer" /\ a.of = m.of
  BY DEF IsAnswer
<1>2. /\ 1 \in DOMAIN S[src] /\ m # Garbage /\ a # Garbage
      /\ \A p \in Spots : DOMAIN S[p] \subseteq Nat /\ DOMAIN T[p] \subseteq Nat \ {0}
  BY <1>1, EmptySeq, MessageTyped DEF Stores
<1>3. Fit(m, done, number)
  BY <1>2 DEF Fits
<1>4. ASSUME NEW p \in Spots, NEW x \in DOMAIN S[p], S[p][x] # Garbage, p # src \/ x # 1
      PROVE  S[p][x].of # a.of
  <2> DEFINE y == S[p][x]
  <2>1. y \in Messages /\ y.is \in {"request", "answer"}
    BY <1>4, MessageTyped DEF Stores
  <2>2. y # m
    BY <1>2, <1>4 DEF Once
  <2>3. Fit(y, done, number)
    BY DEF Fits
  <2> HIDE DEF y, m
  <2>4. CASE y.is = "request"
    <3>1. m \in Messages /\ m.is = "request" /\ m.of = a.of
      BY <1>1 DEF m
    <3>2. QED
      BY <1>2, <1>4, <2>1, <2>2, <2>4, <3>1, MessageIs DEF y
  <2>5. CASE y.is = "answer"
    <3>1. y.of \in done
      BY <1>4, <2>3, <2>5 DEF Fit, y
    <3>2. m.of \notin done
      BY <1>2, <1>3, <1>1 DEF Fit, m
    <3>3. QED
      BY <1>1, <3>1, <3>2 DEF y, m
  <2>6. QED
    BY <2>1, <2>4, <2>5
<1>5. ASSUME NEW p \in Spots, NEW i \in DOMAIN T[p], T[p][i] # Garbage
      PROVE  \/ p = dst /\ i = n /\ T[p][i] = a
             \/ At(p, i) \in DOMAIN S[p] /\ T[p][i] = S[p][At(p, i)] /\ T[p][i].of # a.of
  <2>1. CASE p = src
    <3>1. i + 1 \in DOMAIN S[p] /\ T[p][i] = S[p][i + 1]
      BY <1>5, <2>1 DEF After
    <3>2. i + 1 # 1
      BY <1>2
    <3>3. QED
      BY <1>4, <1>5, <2>1, <3>1, <3>2
  <2>2. CASE p # src
    <3>1. \/ p = dst /\ i = n /\ T[p][i] = a
          \/ i \in DOMAIN S[p] /\ T[p][i] = S[p][i]
      BY <1>5, <2>2 DEF Less, Plus
    <3>2. QED
      BY <1>4, <1>5, <2>2, <3>1
  <2>3. QED
    BY <2>1, <2>2
<1>6. Once(T)
  <2> SUFFICES ASSUME NEW p \in Spots, NEW q \in Spots,
                      NEW i \in DOMAIN T[p], NEW j \in DOMAIN T[q],
                      T[p][i] = T[q][j], T[p][i] # Garbage
               PROVE  p = q /\ i = j
    BY DEF Once
  <2> HIDE DEF At
  <2>1. CASE T[p][i] = a
    BY <1>5, <2>1
  <2>2. CASE T[p][i] # a
    <3>1. /\ At(p, i) \in DOMAIN S[p] /\ T[p][i] = S[p][At(p, i)]
          /\ At(q, j) \in DOMAIN S[q] /\ T[q][j] = S[q][At(q, j)]
      BY <1>5, <2>2
    <3>2. p = q /\ At(p, i) = At(q, j)
      <4> DEFINE x == At(p, i)
                 y == At(q, j)
      <4>1. x \in DOMAIN S[p] /\ y \in DOMAIN S[q] /\ S[p][x] = S[q][y] /\ S[p][x] # Garbage
        BY <3>1
      <4> HIDE DEF x, y
      <4>2. p = q /\ x = y
        BY <4>1 DEF Once
      <4>3. QED
        BY <4>2 DEF x, y
    <3>3. i \in Nat /\ j \in Nat
      BY <1>2
    <3>4. QED
      BY <3>2, <3>3 DEF At
  <2>3. QED
    BY <2>1, <2>2
<1>7. Fits(T, done \cup {a.of}, number)
  <2> SUFFICES ASSUME NEW p \in Spots, NEW i \in DOMAIN T[p]
               PROVE  Fit(T[p][i], done \cup {a.of}, number)
    BY DEF Fits
  <2> HIDE DEF At
  <2>1. CASE T[p][i] = Garbage
    BY <2>1 DEF Fit
  <2>2. CASE T[p][i] = a
    BY <1>2, <1>3, <1>1, <2>2 DEF Fit
  <2>3. CASE T[p][i] # Garbage /\ T[p][i] # a
    <3>1. Fit(T[p][i], done, number) /\ T[p][i].of # a.of
      BY <1>5, <2>3 DEF Fits
    <3>2. QED
      BY <3>1 DEF Fit
  <2>4. QED
    BY <2>1, <2>2, <2>3
<1>8. QED
  BY <1>6, <1>7

\* A new request has a number of its own.
IsNew(a, done, number, new) ==
    /\ a.is = "request" /\ a.of \notin done
    /\ number[a.of[1]] < a.of[2] /\ a.of[2] =< new[a.of[1]]

LEMMA AddedOnce ==
    ASSUME NEW S \in Stores, NEW T \in Stores, NEW dst \in Spots, NEW a \in Messages,
           NEW n, Plus(T[dst], S[dst], n, a),
           \A p \in Spots \ {dst} : Less(T[p], S[p]),
           NEW done, NEW number \in [Clients -> Nat], NEW new \in [Clients -> Nat],
           \A c \in Clients : number[c] =< new[c],
           IsNew(a, done, number, new), Once(S), Fits(S, done, number)
    PROVE  Once(T) /\ Fits(T, done, new)
<1>1. /\ a # Garbage /\ a.of \in Queries /\ a.is = "request" /\ a.of \notin done
      /\ number[a.of[1]] < a.of[2] /\ a.of[2] =< new[a.of[1]]
  BY MessageTyped DEF IsNew
<1>2. ASSUME NEW p \in Spots, NEW x \in DOMAIN S[p]
      PROVE  S[p][x] # a /\ Fit(S[p][x], done, new)
  <2> DEFINE y == S[p][x]
  <2>1. y \in Messages /\ (y # Garbage => y.of \in Queries)
    BY MessageTyped DEF Stores
  <2>2. Fit(y, done, number)
    BY DEF Fits
  <2> HIDE DEF y
  <2>3. CASE y = Garbage
    BY <1>1, <2>3 DEF Fit, y
  <2>4. CASE y # Garbage
    <3>1. y.of[1] \in Clients /\ y.of[2] \in Nat
      BY <2>1, <2>4 DEF Queries
    <3>2. y.of[2] =< number[y.of[1]] /\ (y.is = "answer" <=> y.of \in done)
      BY <2>2, <2>4 DEF Fit
    <3>3. y.of[2] =< new[y.of[1]]
      BY <3>1, <3>2
    <3>4. y # a
      <4>1. a.of[1] \in Clients /\ a.of[2] \in Nat
        BY <1>1 DEF Queries
      <4>2. QED
        BY <1>1, <3>1, <3>2, <4>1
    <3>5. QED
      BY <3>2, <3>3, <3>4 DEF Fit, y
  <2>5. QED
    BY <2>3, <2>4
<1>3. ASSUME NEW p \in Spots, NEW i \in DOMAIN T[p], T[p][i] # Garbage
      PROVE  \/ p = dst /\ i = n /\ T[p][i] = a
             \/ i \in DOMAIN S[p] /\ T[p][i] = S[p][i] /\ T[p][i] # a
  <2>1. \/ p = dst /\ i = n /\ T[p][i] = a
        \/ i \in DOMAIN S[p] /\ T[p][i] = S[p][i]
    BY <1>3 DEF Less, Plus
  <2>2. QED
    BY <1>2, <2>1
<1>4. Once(T)
  <2> SUFFICES ASSUME NEW p \in Spots, NEW q \in Spots,
                      NEW i \in DOMAIN T[p], NEW j \in DOMAIN T[q],
                      T[p][i] = T[q][j], T[p][i] # Garbage
               PROVE  p = q /\ i = j
    BY DEF Once
  <2>1. CASE T[p][i] = a
    <3>1. p = dst /\ i = n
      BY <1>3, <2>1
    <3>2. T[q][j] = a /\ T[q][j] # Garbage
      BY <2>1
    <3>3. q = dst /\ j = n
      BY <1>3, <3>2
    <3>4. QED
      BY <3>1, <3>3
  <2>2. CASE T[p][i] # a
    <3>1. /\ i \in DOMAIN S[p] /\ T[p][i] = S[p][i]
          /\ j \in DOMAIN S[q] /\ T[q][j] = S[q][j]
      BY <1>3, <2>2
    <3>2. S[p][i] = S[q][j] /\ S[p][i] # Garbage
      BY <3>1
    <3>3. QED
      BY <3>1, <3>2 DEF Once
  <2>3. QED
    BY <2>1, <2>2
<1>5. Fits(T, done, new)
  <2> SUFFICES ASSUME NEW p \in Spots, NEW i \in DOMAIN T[p] PROVE Fit(T[p][i], done, new)
    BY DEF Fits
  <2>1. CASE T[p][i] = Garbage
    BY <2>1 DEF Fit
  <2>2. CASE T[p][i] = a
    BY <1>1, <2>2 DEF Fit
  <2>3. CASE T[p][i] # Garbage /\ T[p][i] # a
    BY <1>2, <1>3, <2>3
  <2>4. QED
    BY <2>1, <2>2, <2>3
<1>6. QED
  BY <1>4, <1>5

\* The steps that make messages: the server's, and a client's request.
LEMMA AnswersOnce ==
    ASSUME TypeInv, TypeInv', OnceInv, NEW r \in Relays, ServerAnswers(r)
    PROVE  OnceInv'
<1> DEFINE src == OutAt(r)
           dst == InAt(r)
           m   == Head(out[r])
           n   == Len(in[r]) + 1
           a   == [is |-> "answer", of |-> m.of]
<1>1. /\ r \in Sockets /\ out[r] # <<>> /\ out[r] \in Seq(Messages) /\ in[r] \in Seq(Messages)
      /\ UNCHANGED <<msg, got, asked>>
      /\ out'[r] = Tail(out[r]) /\ \A s \in Sockets : s # r => out'[s] = out[s]
  BY StreamsTyped, Distinct DEF ServerAnswers, thread, client
<1>2. m \in Messages /\ m = out[r][1]
  BY <1>1
<1>3. /\ src \in Spots /\ Store[src] = out[r] /\ Store'[src] = Tail(out[r])
      /\ dst \in Spots /\ Store[dst] = in[r] /\ Store'[dst] = in'[r]
      /\ Store \in Stores /\ Store' \in Stores
  BY <1>1, StoreNow, StoreNext DEF StoredAt
<1>4. src # dst /\ After(Store'[src], Store[src])
  BY <1>1, <1>3, SpotsDiffer, StreamMoves
<1>5. CASE m.is = "request"
  <2>1. /\ served' = served \cup {m.of}
        /\ in' = in \/ in' = [in EXCEPT ![r] = Append(@, a)]
    BY <1>5 DEF ServerAnswers
  <2>2. m.of \in Queries /\ a \in Messages
    BY <1>2, <1>5, MessageTyped
  <2>3. /\ in'[r] = in[r] \/ in'[r] = Append(in[r], a)
        /\ \A s \in Sockets : s # r => in'[s] = in[s]
    BY <1>1, <2>1, StreamsTyped
  <2>4. Plus(Store'[dst], Store[dst], n, a)
    BY <1>1, <1>3, <2>2, <2>3, StreamMoves
  <2>5. ASSUME NEW p \in Spots \ {src, dst} PROVE Less(Store'[p], Store[p])
    <3>1. Store'[p] = Store[p]
      BY <1>1, <2>3, StoreSame
    <3>2. QED
      BY <3>1 DEF Less
  <2>6. Once(Store') /\ Fits(Store', served \cup {a.of}, asked)
    <3>1. Once(Store) /\ Fits(Store, served, asked)
      BY DEF OnceInv
    <3>2. Store[src] # <<>> /\ Store[src][1] = m
      BY <1>1, <1>2, <1>3
    <3>3. Store[src][1] \in Messages /\ IsAnswer(a, Store[src][1])
      BY <1>2, <1>5, <3>2 DEF IsAnswer
    <3>4. \A p \in Spots \ {src, dst} : Less(Store'[p], Store[p])
      BY <2>5
    <3> HIDE DEF a, m, src, dst, n
    <3>5. QED
      BY <1>3, <1>4, <2>2, <2>4, <3>1, <3>2, <3>3, <3>4, AnsweredOnce
  <2>7. m.of[2] =< asked[m.of[1]]
    <3>1. 1 \in DOMAIN Store[src] /\ Store[src][1] = m /\ m # Garbage
      BY <1>1, <1>2, <1>3, <1>5, EmptySeq, MessageTyped
    <3>2. Fit(m, served, asked)
      BY <1>3, <3>1 DEF OnceInv, Fits
    <3>3. QED
      BY <3>1, <3>2 DEF Fit
  <2>8. \A q \in served' : q[2] =< asked'[q[1]]
    BY <1>1, <2>1, <2>7 DEF OnceInv
  <2>9. QED
    BY <1>1, <2>1, <2>6, <2>8 DEF OnceInv, Once, Fits
<1>6. CASE m.is # "request"
  <2>1. /\ served' = served
        /\ in' = in \/ in' = [in EXCEPT ![r] = Append(@, Garbage)]
    BY <1>6 DEF ServerAnswers
  <2>2. /\ in'[r] = in[r] \/ in'[r] = Append(in[r], Garbage)
        /\ \A s \in Sockets : s # r => in'[s] = in[s]
    BY <1>1, <2>1, StreamsTyped
  <2>3. Plus(Store'[dst], Store[dst], n, Store[src][1])
    BY <1>1, <1>3, <2>2, StreamMoves
  <2>4. ASSUME NEW p \in Spots \ {src, dst} PROVE Store'[p] = Store[p]
    BY <1>1, <2>2, StoreSame
  <2>5. QED
    BY <1>1, <1>3, <1>4, <2>1, <2>3, <2>4, MovedStep
<1>7. QED
  BY <1>5, <1>6

LEMMA AsksOnce ==
    ASSUME TypeInv, TypeInv', OnceInv, NEW c \in Clients, Ask(c)
    PROVE  OnceInv'
<1> DEFINE dst == InAt(c)
           q   == <<c, asked[c] + 1>>
           a   == [is |-> "request", of |-> q]
           n   == Len(in[c]) + 1
<1>1. /\ UNCHANGED <<msg, out, got, served>> /\ c \in Sockets /\ in[c] \in Seq(Messages)
      /\ asked' = [asked EXCEPT ![c] = @ + 1]
      /\ in' = in \/ in' = [in EXCEPT ![c] = Append(@, a)]
  BY StreamsTyped, Distinct DEF Ask, thread
<1>2. /\ asked \in [Clients -> Nat] /\ asked' \in [Clients -> Nat]
      /\ asked[c] + 1 =< MaxEvents /\ \A d \in Clients : asked[d] =< asked'[d]
      /\ asked'[c] = asked[c] + 1
  <2>1. asked \in [Clients -> Nat] /\ asked[c] =< events /\ events < MaxEvents /\ events \in Nat
    BY DEF Ask, TypeInv, ClientTyped
  <2>2. QED
    BY <1>1, <2>1, Bounds
<1>3. q \in Queries /\ a \in Messages /\ a.is = "request" /\ a.of = q
  <2>1. q \in Queries
    BY <1>2, Bounds DEF Queries
  <2>2. QED
    BY <2>1, MessageTyped
<1>4. q \notin served /\ q[1] = c /\ q[2] = asked[c] + 1
  <2>1. q \in served => asked[c] + 1 =< asked[c]
    BY DEF OnceInv
  <2>2. QED
    BY <1>2, <2>1
<1>5. /\ in'[c] = in[c] \/ in'[c] = Append(in[c], a)
      /\ \A s \in Sockets : s # c => in'[s] = in[s]
  BY <1>1, StreamsTyped
<1>6. /\ dst \in Spots /\ Store[dst] = in[c] /\ Store'[dst] = in'[c]
      /\ Store \in Stores /\ Store' \in Stores
  BY <1>1, StoreNow, StoreNext DEF StoredAt
<1>7. Plus(Store'[dst], Store[dst], n, a)
  BY <1>1, <1>3, <1>5, <1>6, StreamMoves
<1>8. ASSUME NEW p \in Spots \ {dst} PROVE Less(Store'[p], Store[p])
  <2>1. Store'[p] = Store[p]
    BY <1>1, <1>5, StoreSame
  <2>2. QED
    BY <2>1 DEF Less
<1>9. Once(Store') /\ Fits(Store', served, asked')
  <2>1. Once(Store) /\ Fits(Store, served, asked)
    BY DEF OnceInv
  <2>2. IsNew(a, served, asked, asked')
    BY <1>2, <1>3, <1>4 DEF IsNew
  <2>3. \A p \in Spots \ {dst} : Less(Store'[p], Store[p])
    BY <1>8
  <2>4. /\ asked \in [Clients -> Nat] /\ asked' \in [Clients -> Nat]
        /\ \A d \in Clients : asked[d] =< asked'[d]
    BY <1>2
  <2>5. a \in Messages /\ dst \in Spots /\ Store \in Stores /\ Store' \in Stores
    BY <1>3, <1>6
  <2> HIDE DEF a, q, dst, n
  <2>6. QED
    BY <1>7, <2>1, <2>2, <2>3, <2>4, <2>5, AddedOnce
<1>10. \A x \in served : x[2] =< asked'[x[1]]
  <2>1. ASSUME NEW x \in served PROVE x[2] =< asked'[x[1]]
    <3>1. x[1] \in Clients /\ x[2] \in Nat
      BY DEF TypeInv, RestTyped, Queries
    <3>2. x[2] =< asked[x[1]]
      BY DEF OnceInv
    <3>3. QED
      BY <1>2, <3>1, <3>2
  <2>2. QED
    BY <2>1
<1>11. QED
  BY <1>1, <1>9, <1>10 DEF OnceInv, Once, Fits

\* Steps that move no message.
LEMMA CalmStep ==
    ASSUME TypeInv, TypeInv', OnceInv, UNCHANGED <<got, asked, served>>,
           \A s \in Sockets : /\ in'[s] \in {in[s], <<>>}
                              /\ out'[s] \in {out[s], <<>>, Append(out[s], Garbage)},
           \A c \in Clients : msg'[c] \in {msg[c], Garbage}
    PROVE  OnceInv'
<1>1. \A s \in Sockets : Less(in'[s], in[s]) /\ Less(out'[s], out[s])
  <2>1. ASSUME NEW s \in Sockets PROVE Less(in'[s], in[s]) /\ Less(out'[s], out[s])
    <3>1. in[s] \in Seq(Messages) /\ out[s] \in Seq(Messages)
      BY StreamsTyped
    <3>2. in'[s] \in {in[s], <<>>} /\ out'[s] \in {out[s], <<>>, Append(out[s], Garbage)}
      OBVIOUS
    <3>3. QED
      BY <3>1, <3>2, StreamMoves
  <2>2. QED
    BY <2>1
<1>2. \A c \in Clients : Less(got'[c], got[c])
  BY StreamsTyped, StreamMoves
<1>3. QED
  BY <1>1, <1>2, DroppedStep

LEMMA SendOnce ==
    ASSUME TypeInv, TypeInv', OnceInv, NEW c \in Clients, NEW from, NEW f, NEW m, NEW sent,
           NEW failed, Send(c, from, f, m, sent, failed), m \in {msg[c], Garbage},
           UNCHANGED <<in, got, asked, served>>
    PROVE  OnceInv'
<1> DEFINE s == SocketOf(f)
<1>1. \/ out' = out /\ msg' = msg
      \/ out' = out /\ msg' = [msg EXCEPT ![c] = Garbage]
      \/ /\ s \in Sockets /\ out' = [out EXCEPT ![s] = Append(@, m)]
         /\ msg' = [msg EXCEPT ![c] = Garbage]
  BY SocketTyped DEF Send, TypeInv
<1>2. CASE out' = out
  BY <1>1, <1>2, StreamsTyped, CalmStep
<1>3. CASE s \in Sockets /\ out' = [out EXCEPT ![s] = Append(@, m)]
           /\ msg' = [msg EXCEPT ![c] = Garbage]
  <2>1. CASE m = msg[c]
    BY <1>3, <2>1, SentOnce
  <2>2. CASE m = Garbage
    <3>1. \A t \in Sockets : out'[t] \in {out[t], <<>>, Append(out[t], Garbage)}
      BY <1>3, <2>2, StreamsTyped
    <3>2. \A d \in Clients : msg'[d] \in {msg[d], Garbage}
      BY <1>3, StreamsTyped
    <3>3. QED
      BY <3>1, <3>2, CalmStep
  <2>3. QED
    BY <2>1, <2>2
<1>4. QED
  BY <1>1, <1>2, <1>3

LEMMA CloseOnce ==
    ASSUME TypeInv, TypeInv', OnceInv, NEW f, Close(f),
           UNCHANGED <<out, got, asked, served>>, \A c \in Clients : msg'[c] \in {msg[c], Garbage}
    PROVE  OnceInv'
<1>1. \A s \in Sockets : in'[s] \in {in[s], <<>>}
  BY SocketTyped, StreamsTyped DEF Close, TypeInv
<1>2. QED
  BY <1>1, CalmStep

\* The steps of a thread.
LEMMA ThreadOnce ==
    ASSUME TypeInv, TypeInv', OnceInv, NEW c \in Clients, ThreadStep(c)
    PROVE  OnceInv'
<1>1. CASE Accept(c) \/ RecvNothing(c) \/ NewSocket(c) \/ NoSocket(c) \/ Connect(c) \/ CallRead(c)
           \/ ReadNothing(c)
  <2>1. UNCHANGED <<in, out, got, asked, served>>
    BY <1>1 DEF Accept, RecvNothing, NewSocket, NoSocket, Connect, CallRead, ReadNothing,
                net, client, history
  <2>2. \A d \in Clients : msg'[d] \in {msg[d], Garbage}
    BY <1>1, StreamsTyped DEF Accept, RecvNothing, NewSocket, NoSocket, Connect, CallRead,
                              ReadNothing
  <2>3. QED
    BY <2>1, <2>2, CalmStep
<1>2. CASE RecvRequest(c)
  <2>1. SocketOf(sock[c]) \in Sockets
    BY <1>2, SocketTyped DEF RecvRequest, TypeInv
  <2>2. QED
    BY <1>2, <2>1, TakenOnce DEF RecvRequest, client, history
<1>3. CASE ReadAnswer(c)
  <2>1. SocketOf(rfd[c]) \in Sockets
    BY <1>3, SocketTyped DEF ReadAnswer, TypeInv
  <2>2. QED
    BY <1>3, <2>1, TakenOnce DEF ReadAnswer, client, history
<1>4. CASE Refuse(c) \/ SendRequest(c) \/ Reply(c)
  <2>1. UNCHANGED <<in, got, asked, served>>
    BY <1>4 DEF Refuse, SendRequest, Reply, client, history
  <2>2. QED
    BY <1>4, <2>1, SendOnce DEF Refuse, SendRequest, Reply
<1>5. CASE End(c)
  BY <1>5, CloseOnce DEF End, client, history
<1>6. CASE CloseServer(c)
  <2>1. \A d \in Clients : msg'[d] \in {msg[d], Garbage}
    BY <1>6, StreamsTyped DEF CloseServer
  <2>2. QED
    BY <1>6, <2>1, CloseOnce DEF CloseServer, client, history
<1>7. CASE Killed(c)
  <2>1. Die
    BY <1>7 DEF Killed, SendKills
  <2>2. QED
    BY <2>1, CalmStep DEF Die, client, history
<1>8. QED
  BY <1>1, <1>2, <1>3, <1>4, <1>5, <1>6, <1>7, TornOnce DEF ThreadStep

LEMMA OnceStep ==
    ASSUME TypeInv, TypeInv', OnceInv, [Next]_vars
    PROVE  OnceInv'
<1>1. ASSUME NEW c \in Clients, GetAnswer(c) PROVE OnceInv'
  BY <1>1, GotOnce DEF GetAnswer, thread, history
<1>2. ASSUME NEW c \in Clients, Broken(c) \/ Leave(c) PROVE OnceInv'
  <2>1. UNCHANGED <<in, got, asked, served, msg>>
    BY <1>2 DEF Broken, Leave, net, thread, history
  <2>2. \A s \in Sockets : out'[s] \in {out[s], <<>>}
    BY <1>2, StreamsTyped DEF Broken, Leave, net
  <2>3. QED
    BY <2>1, <2>2, CalmStep
<1>3. ASSUME ServerDies \/ ServerStarts \/ Waiting \/ UNCHANGED vars PROVE OnceInv'
  <2>1. UNCHANGED <<in, got, asked, served, msg>>
    BY <1>3 DEF ServerDies, ServerStarts, Waiting, vars, net, thread, client, history
  <2>2. \A s \in Sockets : out'[s] \in {out[s], <<>>}
    BY <1>3, StreamsTyped DEF ServerDies, ServerStarts, Waiting, vars, net
  <2>3. QED
    BY <2>1, <2>2, CalmStep
<1>4. QED
  BY <1>1, <1>2, <1>3, ThreadOnce, AnswersOnce, AsksOnce DEF Next

LEMMA OnceAlways == Spec => []OnceInv
<1>1. Init /\ TypeInv => OnceInv
  <2> SUFFICES ASSUME Init, TypeInv PROVE OnceInv
    OBVIOUS
  <2>1. ASSUME NEW p \in Spots, NEW i \in DOMAIN Store[p] PROVE Store[p][i] = Garbage
    <3>1. ASSUME NEW s \in Sockets, p = InAt(s) \/ p = OutAt(s) PROVE Store[p] = <<>>
      BY <3>1, StoreNow DEF StoredAt, Init
    <3>2. ASSUME NEW c \in Clients, p = GotAt(c) \/ p = MsgAt(c)
          PROVE  Store[p] = <<>> \/ Store[p] = Hand(Garbage)
      BY <3>2, StoreNow DEF StoredAt, Init
    <3>3. Store[p] = <<>> \/ Store[p] = Hand(Garbage)
      BY <3>1, <3>2, SpotsAre
    <3>4. QED
      BY <3>3 DEF Hand
  <2>2. Once(Store)
    BY <2>1 DEF Once
  <2>3. Fits(Store, served, asked)
    BY <2>1 DEF Fits, Fit
  <2>4. QED
    BY <2>2, <2>3 DEF OnceInv, Init
<1>2. TypeInv /\ TypeInv' /\ OnceInv /\ [Next]_vars => OnceInv'
  BY OnceStep
<1>3. QED
  BY <1>1, <1>2, TypeAlways, PTL DEF Spec

\* However relays overlap, there is one copy of each message: the server
\* handles no request twice, and no two clients are given the same answer.
THEOREM RelayGivesOnce == Spec => []NothingTwice
<1>1. TypeInv /\ OnceInv => NothingTwice
  <2> DEFINE copies == UNION ({Copies("in", s, in[s]) : s \in Sockets}
                            \cup {Copies("out", s, out[s]) : s \in Sockets}
                            \cup {Copies("got", c, got[c]) : c \in Clients}
                            \cup {Copies("msg", c, <<msg[c]>>) : c \in Clients})
  <2> SUFFICES ASSUME TypeInv, OnceInv
               PROVE  /\ \A x, y \in copies : x[4] = y[4] => x = y
                      /\ \A x \in copies : (x[4].is = "answer") <=> (x[4].of \in served)
    BY DEF NothingTwice
  <2>1. ASSUME NEW x \in copies
        PROVE  \E p \in Spots : \E i \in DOMAIN Store[p] :
                  x = <<p[1], p[2], i, Store[p][i]>> /\ Store[p][i] # Garbage
    <3>1. ASSUME NEW t, NEW s, NEW stream, x \in Copies(t, s, stream),
                 <<t, s>> \in Spots, Store[<<t, s>>] = stream
          PROVE  \E p \in Spots : \E i \in DOMAIN Store[p] :
                    x = <<p[1], p[2], i, Store[p][i]>> /\ Store[p][i] # Garbage
      <4>1. PICK i \in DOMAIN stream : x = <<t, s, i, stream[i]>> /\ stream[i] # Garbage
        BY <3>1 DEF Copies
      <4> DEFINE p == <<t, s>>
      <4>2. p \in Spots /\ p[1] = t /\ p[2] = s
        BY <3>1
      <4>3. QED
        BY <3>1, <4>1, <4>2
    <3>2. ASSUME NEW s \in Sockets, x \in Copies("in", s, in[s])
          PROVE  \E p \in Spots : \E i \in DOMAIN Store[p] :
                    x = <<p[1], p[2], i, Store[p][i]>> /\ Store[p][i] # Garbage
      BY <3>1, <3>2, StoreNow DEF StoredAt, InAt
    <3>3. ASSUME NEW s \in Sockets, x \in Copies("out", s, out[s])
          PROVE  \E p \in Spots : \E i \in DOMAIN Store[p] :
                    x = <<p[1], p[2], i, Store[p][i]>> /\ Store[p][i] # Garbage
      BY <3>1, <3>3, StoreNow DEF StoredAt, OutAt
    <3>4. ASSUME NEW c \in Clients, x \in Copies("got", c, got[c])
          PROVE  \E p \in Spots : \E i \in DOMAIN Store[p] :
                    x = <<p[1], p[2], i, Store[p][i]>> /\ Store[p][i] # Garbage
      BY <3>1, <3>4, StoreNow DEF StoredAt, GotAt
    <3>5. ASSUME NEW c \in Clients, x \in Copies("msg", c, <<msg[c]>>)
          PROVE  \E p \in Spots : \E i \in DOMAIN Store[p] :
                    x = <<p[1], p[2], i, Store[p][i]>> /\ Store[p][i] # Garbage
      BY <3>1, <3>5, StoreNow DEF StoredAt, MsgAt, Hand
    <3>6. QED
      BY <3>2, <3>3, <3>4, <3>5
  <2> HIDE DEF copies
  <2>2. ASSUME NEW x \in copies, NEW y \in copies, x[4] = y[4] PROVE x = y
    <3>1. PICK p \in Spots : \E i \in DOMAIN Store[p] :
            x = <<p[1], p[2], i, Store[p][i]>> /\ Store[p][i] # Garbage
      BY <2>1
    <3>2. PICK i \in DOMAIN Store[p] :
            x = <<p[1], p[2], i, Store[p][i]>> /\ Store[p][i] # Garbage
      BY <3>1
    <3>3. PICK q \in Spots : \E j \in DOMAIN Store[q] :
            y = <<q[1], q[2], j, Store[q][j]>> /\ Store[q][j] # Garbage
      BY <2>1
    <3>4. PICK j \in DOMAIN Store[q] :
            y = <<q[1], q[2], j, Store[q][j]>> /\ Store[q][j] # Garbage
      BY <3>3
    <3>5. Store[p][i] = Store[q][j]
      BY <2>2, <3>2, <3>4
    <3>6. p = q /\ i = j
      BY <3>2, <3>5 DEF OnceInv, Once
    <3>7. QED
      BY <3>2, <3>4, <3>6
  <2>3. ASSUME NEW x \in copies PROVE (x[4].is = "answer") <=> (x[4].of \in served)
    <3>1. PICK p \in Spots : \E i \in DOMAIN Store[p] :
            x = <<p[1], p[2], i, Store[p][i]>> /\ Store[p][i] # Garbage
      BY <2>1
    <3>2. PICK i \in DOMAIN Store[p] :
            x = <<p[1], p[2], i, Store[p][i]>> /\ Store[p][i] # Garbage
      BY <3>1
    <3>3. x[4] = Store[p][i]
      BY <3>2
    <3>4. Fit(x[4], served, asked) /\ x[4] # Garbage
      BY <3>2, <3>3 DEF OnceInv, Fits
    <3>5. QED
      BY <3>4 DEF Fit
  <2>4. QED
    BY <2>2, <2>3
<1>2. QED
  BY <1>1, TypeAlways, OnceAlways, PTL

-----------------------------------------------------------------------------
(* The relay is the remote call of RemoteCall, until relays overlap.         *)

Waits(c) == Len(got[c]) < asked[c]

\* Client c's request is with the server, by socket r, and with nobody else.
WithServer(c, r, m) ==
    /\ m = Req(c) /\ Waits(c)
    /\ phase[c] = "waiting" => out[c] = <<>>
    /\ alive => pc[c] \in {"call", "read"} /\ fds[server] = r

\* A request that is under way is the last one of a client that still waits.
CallInv ==
    ~overlap =>
        /\ alive => \A c \in Clients : in[c] # <<>> \/ pc[c] \in Pending => Waits(c)
        /\ \A r \in Relays : peer[r] = "gone" => out[r] = <<>>
        /\ \A r \in Relays : \A i \in DOMAIN out[r] :
                \E c \in Clients : WithServer(c, r, out[r][i])

\* What the copies say of messages in streams.
LEMMA FitNow ==
    ASSUME TypeInv, OnceInv
    PROVE  /\ \A s \in Sockets : \A i \in DOMAIN in[s] : Fit(in[s][i], served, asked)
           /\ \A s \in Sockets : \A i \in DOMAIN out[s] : Fit(out[s][i], served, asked)
  <1>1. ASSUME NEW s \in Sockets
        PROVE  /\ InAt(s) \in Spots /\ Store[InAt(s)] = in[s]
               /\ OutAt(s) \in Spots /\ Store[OutAt(s)] = out[s]
    BY StoreNow DEF StoredAt, InAt, OutAt, Spots
  <1>2. QED
    BY <1>1 DEF OnceInv, Fits

\* Where no thread awaits the server's answer, nothing is with the server.
LEMMA NothingSent ==
    ASSUME CallInv, ~overlap, alive, \A d \in Clients : pc[d] \notin {"call", "read"}
    PROVE  \A r \in Relays : \A i \in DOMAIN out[r] : FALSE
  BY DEF CallInv, WithServer

\* A step that leaves the clients' sides and what is with the server alone.
LEMMA CallSame ==
    ASSUME CallInv, ~overlap, UNCHANGED <<got, asked, phase>>,
           alive' => alive,
           \A c \in Clients : out'[c] = out[c],
           \A r \in Relays : out'[r] = out[r] /\ (peer'[r] = "gone" => peer[r] = "gone"),
           alive' => \A c \in Clients :
                /\ in'[c] # <<>> \/ pc'[c] \in Pending => in[c] # <<>> \/ pc[c] \in Pending
                /\ pc[c] \in {"call", "read"} =>
                        pc'[c] \in {"call", "read"} /\ fds'[server'] = fds[server]
    PROVE  CallInv'
  <1>1. \A c \in Clients : (Waits(c)' <=> Waits(c)) /\ Req(c)' = Req(c)
    BY DEF Waits, Req, Query
  <1>2. ASSUME NEW r \in Relays, NEW i \in DOMAIN out[r]
        PROVE  \E c \in Clients : WithServer(c, r, out[r][i])'
    <2>1. PICK c \in Clients : WithServer(c, r, out[r][i])
      BY DEF CallInv
    <2>2. out'[r] = out[r] /\ out'[c] = out[c] /\ phase' = phase
      OBVIOUS
    <2>3. WithServer(c, r, out[r][i])'
      BY <1>1, <2>1, <2>2 DEF WithServer
    <2>4. QED
      BY <2>3
  <1>3. QED
    BY <1>1, <1>2 DEF CallInv

\* A thread that has not yet a socket for its relay disturbs none that has.
LEMMA CallBefore ==
    ASSUME TypeInv, Tidy, AloneInv, CallInv, ~overlap, alive, NEW c \in Clients,
           Accept(c) \/ RecvRequest(c) \/ RecvNothing(c) \/ Refuse(c) \/ End(c)
    PROVE  CallInv'
  <1>1. /\ UNCHANGED <<server, peer, client>> /\ alive' = alive
        /\ pc[c] \notin {"call", "read"}
        /\ \A d \in Clients \ {c} : pc'[d] = pc[d]
    BY GotoTyped DEF Accept, RecvRequest, RecvNothing, Refuse, Send, End, Goto, TypeInv,
                     ThreadTyped, Places, process, net
  <1>2. out' = out
    <2>1. CASE Refuse(c)
      <3>1. pc[c] = "refuse" /\ Own(c) /\ Side(c)
        BY <2>1 DEF AloneInv, Refuse, Send, Goto
      <3>2. SocketOf(sock[c]) = c /\ peer[c] = "gone"
        BY <3>1, Reach DEF Using, Own, Side
      <3>3. QED
        BY <2>1, <3>2, Distinct DEF Refuse, Send
    <2>2. CASE ~Refuse(c)
      BY <2>2 DEF Accept, RecvRequest, RecvNothing, End, net
    <2>3. QED
      BY <2>1, <2>2
  <1>3. /\ in'[c] # <<>> \/ pc'[c] \in Pending => in[c] # <<>>
        /\ \A d \in Clients \ {c} : in'[d] = in[d]
    <2>1. CASE RecvRequest(c)
      <3>1. SocketOf(sock[c]) = c /\ in[c] # <<>> /\ in' = [in EXCEPT ![c] = Tail(@)]
        BY <2>1, Reach DEF RecvRequest, Goto, Using
      <3>2. QED
        BY <3>1
    <2>2. CASE Accept(c) \/ RecvNothing(c) \/ Refuse(c)
      <3>1. in' = in
        BY <2>2 DEF Accept, RecvNothing, Refuse, net
      <3>2. \E from, to \in {"none", "recv", "refuse", "end"} : Goto(c, from, to)
        BY <2>2 DEF Accept, RecvNothing, Refuse, Send
      <3>3. pc'[c] \in {"none", "recv", "refuse", "end"}
        BY <3>2, GotoTyped DEF TypeInv, Places
      <3>4. QED
        BY <3>1, <3>3 DEF Pending, Asking
    <2>3. CASE End(c)
      <3>1. pc[c] = "end" /\ pc'[c] = "ended" /\ Close(sock[c])
        BY <2>3, GotoTyped DEF End, TypeInv, Places
      <3>2. SocketOf(sock[c]) = c
        BY <3>1, Reach DEF Using
      <3>3. in' = [in EXCEPT ![c] = <<>>]
        BY <3>1, <3>2, Distinct DEF Close
      <3>4. QED
        BY <3>1, <3>3, Distinct DEF Pending, Asking, TypeInv, NetTyped
    <2>4. QED
      BY <2>1, <2>2, <2>3
  <1>4. ASSUME NEW d \in Clients, pc[d] \in {"call", "read"}
        PROVE  fds'[server] = fds[server]
    <2>1. Busy(d) /\ Link(d) /\ server # 0
      BY <1>4 DEF Busy, AloneInv, Link
    <2>2. server \in Fds /\ fds[server] \in Relays
      BY <2>1, Reach
    <2>3. CASE Accept(c)
      BY <2>2, <2>3, LowestIsFree, Distinct DEF Accept, TypeInv, ProcessTyped
    <2>4. CASE End(c)
      <3>1. pc[c] = "end" /\ Close(sock[c])
        BY <2>4 DEF End, Goto
      <3>2. sock[c] \in Fds /\ fds[sock[c]] = c
        BY <3>1, Reach, Distinct DEF Using, SocketOf
      <3>3. QED
        BY <2>2, <3>1, <3>2, Distinct DEF Close, TypeInv, ProcessTyped
    <2>5. CASE RecvRequest(c) \/ RecvNothing(c) \/ Refuse(c)
      BY <2>5 DEF RecvRequest, RecvNothing, Refuse, process
    <2>6. QED
      BY <2>3, <2>4, <2>5
  <1>5. QED
    BY <1>1, <1>2, <1>3, <1>4, CallSame DEF client

\* The steps of the relay itself.
LEMMA CallSends ==
    ASSUME TypeInv, Tidy, AloneInv, CallInv, ~overlap, alive, NEW c \in Clients, SendRequest(c)
    PROVE  CallInv'
  <1> DEFINE s == fds[server]
  <1>1. /\ UNCHANGED <<process, peer, in, client>>
        /\ pc[c] = "send" /\ pc'[c] \in {"call", "close"}
        /\ \A d \in Clients \ {c} : pc'[d] = pc[d]
    BY GotoTyped DEF SendRequest, Send, TypeInv, Places
  <1>2. Busy(c)
    BY <1>1 DEF Busy
  <1>3. /\ Own(c) /\ Link(c) /\ \A d \in Clients \ {c} : ~Busy(d)
        /\ server # 0 => SocketOf(server) = s /\ s \in Relays /\ s \in Sockets /\ s # None
    BY <1>2, AloneRelays
  <1>4. server # 0 /\ peer[s] # "new" /\ out[s] = <<>> /\ msg[c] = Req(c)
        /\ (phase[c] = "waiting" => out[c] = <<>>)
    BY <1>1, <1>3 DEF Link, Own, Asking, Pending
  <1>5. \A d \in Clients : pc[d] \notin {"call", "read"}
    BY <1>1, <1>3 DEF Busy
  <1>6. \A r \in Relays : \A i \in DOMAIN out[r] : FALSE
    BY <1>5, NothingSent
  <1>7. \/ out' = out
        \/ /\ pc'[c] = "call" /\ peer[s] = "open"
           /\ out' = [out EXCEPT ![s] = <<Req(c)>>]
    <2>1. \/ out' = out
          \/ /\ Goto(c, "send", "call") /\ peer[s] = "open"
             /\ out' = [out EXCEPT ![s] = Append(@, msg[c])]
      BY <1>3, <1>4 DEF SendRequest, Send
    <2>2. Append(out[s], msg[c]) = <<Req(c)>>
      BY <1>4
    <2>3. QED
      BY <2>1, <2>2, GotoTyped DEF TypeInv, Places
  <1>8. Waits(c)
    BY <1>1 DEF CallInv, Pending, Asking
  <1>9. \A d \in Clients : (Waits(d)' <=> Waits(d)) /\ Req(d)' = Req(d)
    BY <1>1 DEF Waits, Req, Query, client
  <1>10. \A d \in Clients : in'[d] # <<>> \/ pc'[d] \in Pending =>
            in[d] # <<>> \/ pc[d] \in Pending
    BY <1>1 DEF Pending, Asking
  <1>11. CASE out' = out
    BY <1>1, <1>6, <1>9, <1>10, <1>11 DEF CallInv, process
  <1>12. CASE pc'[c] = "call" /\ peer[s] = "open" /\ out' = [out EXCEPT ![s] = <<Req(c)>>]
    <2>1. /\ \A r \in Relays \ {s} : out'[r] = out[r]
          /\ out'[s] = <<Req(c)>> /\ out'[c] = out[c]
      BY <1>3, <1>4, <1>12, Distinct DEF TypeInv, NetTyped
    <2>2. WithServer(c, s, Req(c))'
      BY <1>1, <1>4, <1>8, <1>9, <1>12, <2>1 DEF WithServer, process, client
    <2>3. ASSUME NEW r \in Relays, NEW i \in DOMAIN out'[r]
          PROVE  \E d \in Clients : WithServer(d, r, out[r][i])'
      <3>1. r = s
        BY <1>6, <2>1, <2>3
      <3>2. out'[r][i] = Req(c)'
        BY <1>9, <2>1, <2>3, <3>1
      <3>3. fds'[server'] = s
        BY <1>1 DEF process
      <3>4. WithServer(c, r, out[r][i])'
        BY <2>2, <3>1, <3>2, <3>3 DEF WithServer
      <3>5. QED
        BY <3>4
    <2>4. \A r \in Relays : peer'[r] = "gone" => out'[r] = <<>>
      BY <1>1, <1>12, <2>1 DEF CallInv
    <2>5. QED
      BY <1>1, <1>9, <1>10, <2>3, <2>4 DEF CallInv, process
  <1>13. QED
    BY <1>7, <1>11, <1>12

\* Who has read its relay's socket has left nothing with the server.
LEMMA CallReads ==
    ASSUME TypeInv, Tidy, AloneInv, OnceInv, CallInv, ~overlap, alive, NEW c \in Clients,
           ReadAnswer(c) \/ ReadNothing(c)
    PROVE  \A r \in Relays : \A i \in DOMAIN out[r] : FALSE
  <1> DEFINE s == fds[server]
  <1>1. /\ pc[c] = "read" /\ SocketOf(rfd[c]) = s /\ s \in Relays /\ s \in Sockets /\ s # None
        /\ peer[s] # "new" /\ Only(in[s], Ans(c)) /\ Busy(c)
    BY AloneReads DEF ReadAnswer, ReadNothing, Goto
  <1>2. SUFFICES ASSUME NEW r \in Relays, NEW i \in DOMAIN out[r] PROVE FALSE
    OBVIOUS
  <1>3. PICK d \in Clients : WithServer(d, r, out[r][i])
    BY DEF CallInv
  <1>4. d = c /\ r = s
    BY <1>1, <1>3, Reach DEF WithServer, Busy
  <1>5. CASE ReadAnswer(c)
    <2>1. in[s] # <<>> /\ in[s] \in Seq(Messages)
      BY <1>1, <1>5 DEF ReadAnswer, TypeInv, NetTyped
    <2>2. 1 \in DOMAIN in[s] /\ in[s][1] = Ans(c)
      BY <1>1, <2>1 DEF Only
    <2>3. Fit(Ans(c), served, asked)
      BY <1>1, <2>2, FitNow
    <2>4. Query(c) \in served
      BY <2>3, Kinds DEF Fit, Ans
    <2>5. out[s][i] = Req(c) /\ i \in DOMAIN out[s]
      BY <1>3, <1>4 DEF WithServer
    <2>6. Query(c) \notin served
      BY <1>1, <2>5, FitNow, Kinds DEF Fit, Req
    <2>7. QED
      BY <2>4, <2>6
  <1>6. CASE ReadNothing(c)
    <2>1. peer[s] = "gone"
      BY <1>1, <1>6 DEF ReadNothing
    <2>2. QED
      BY <1>2, <1>4, <2>1 DEF CallInv
  <1>7. QED
    BY <1>5, <1>6

LEMMA CallRelays ==
    ASSUME TypeInv, Tidy, AloneInv, OnceInv, CallInv, ~overlap', ~overlap, alive,
           NEW c \in Clients,
           NewSocket(c) \/ NoSocket(c) \/ Connect(c) \/ CallRead(c) \/ ReadAnswer(c)
             \/ ReadNothing(c) \/ Reply(c) \/ CloseServer(c)
    PROVE  CallInv'
  <1>1. /\ UNCHANGED <<alive, client>>
        /\ \A d \in Clients \ {c} : pc'[d] = pc[d]
    <2>1. UNCHANGED <<alive, client>>
      BY DEF NewSocket, NoSocket, Connect, CallRead, ReadAnswer, ReadNothing, Reply,
             CloseServer, process
    <2>2. \E from, to \in Places : Goto(c, from, to)
      BY DEF NewSocket, NoSocket, Connect, CallRead, ReadAnswer, ReadNothing, Reply,
             Send, CloseServer, Places
    <2>3. QED
      BY <2>1, <2>2, GotoTyped DEF TypeInv
  <1>2. \A d \in Clients : in'[d] # <<>> \/ pc'[d] \in Pending =>
            in[d] # <<>> \/ pc[d] \in Pending
    <2>1. pc'[c] \in Pending => pc[c] \in Pending
      BY GotoTyped DEF NewSocket, NoSocket, Connect, CallRead, ReadAnswer, ReadNothing, Reply,
                       Send, CloseServer, TypeInv, Places, Pending, Asking
    <2>2. \/ in' = in
          \/ \E s \in Sockets : in' = [in EXCEPT ![s] = Tail(@)] /\ in[s] # <<>>
          \/ \E s \in Sockets : in' = [in EXCEPT ![s] = <<>>]
      BY SocketTyped DEF NewSocket, NoSocket, Connect, CallRead, ReadAnswer, ReadNothing, Reply,
                         CloseServer, Close, TypeInv, net
    <2>3. \A d \in Clients : in'[d] # <<>> => in[d] # <<>>
      BY <2>2, Distinct DEF TypeInv, NetTyped
    <2>4. QED
      BY <1>1, <2>1, <2>3
  <1>3. \A r \in Relays : out'[r] = out[r] /\ (peer'[r] = "gone" => peer[r] = "gone")
    <2>1. CASE Connect(c)
      BY <2>1 DEF Connect, TypeInv, NetTyped
    <2>2. CASE Reply(c)
      <3>1. pc[c] = "reply" /\ SocketOf(sock[c]) = c
        BY <2>2, Reach DEF Reply, Send, Goto, Using
      <3>2. out' = out \/ out' = [out EXCEPT ![c] = Append(@, msg[c])]
        BY <2>2, <3>1 DEF Reply, Send
      <3>3. peer' = peer
        BY <2>2 DEF Reply
      <3>4. QED
        BY <3>2, <3>3, Distinct DEF TypeInv, NetTyped
    <2>3. CASE ~Connect(c) /\ ~Reply(c)
      BY <2>3 DEF NewSocket, NoSocket, CallRead, ReadAnswer, ReadNothing, CloseServer, net
    <2>4. QED
      BY <2>1, <2>2, <2>3
  <1>4. CASE CallRead(c)
    <2>1. /\ UNCHANGED <<net, process>> /\ pc'[c] = "read"
      BY <1>4, GotoTyped DEF CallRead, TypeInv, Places
    <2>2. QED
      BY <1>1, <1>2, <2>1, CallSame DEF net, process, client
  <1>5. CASE ~CallRead(c)
    <2>1. \A r \in Relays : \A i \in DOMAIN out[r] : FALSE
      <3>1. CASE ReadAnswer(c) \/ ReadNothing(c)
        BY <3>1, CallReads
      <3>2. CASE NewSocket(c) \/ NoSocket(c)
        <4>1. pc[c] = "socket" /\ \A d \in Clients \ {c} : ~Relaying(d)
          BY <3>2 DEF NewSocket, NoSocket, Goto
        <4>2. \A d \in Clients : pc[d] \notin {"call", "read"}
          BY <4>1 DEF Relaying
        <4>3. QED
          BY <4>2, NothingSent
      <3>3. CASE Connect(c) \/ Reply(c) \/ CloseServer(c)
        <4>1. pc[c] \in {"connect", "reply", "close"}
          BY <3>3 DEF Connect, Reply, Send, CloseServer, Goto
        <4>2. Busy(c)
          BY <4>1 DEF Busy
        <4>3. \A d \in Clients : pc[d] \notin {"call", "read"}
          BY <4>1, <4>2, Reach DEF Busy
        <4>4. QED
          BY <4>3, NothingSent
      <3>4. QED
        BY <1>5, <3>1, <3>2, <3>3
    <2>2. \A d \in Clients : Waits(d)' <=> Waits(d)
      BY <1>1 DEF Waits, client
    <2>3. QED
      BY <1>1, <1>2, <1>3, <2>1, <2>2 DEF CallInv
  <1>6. QED
    BY <1>4, <1>5

LEMMA CallDies ==
    ASSUME CallInv, ~overlap, Die
    PROVE  CallInv'
  <1>1. alive' = FALSE /\ UNCHANGED <<peer, out, client>>
    BY DEF Die
  <1>2. QED
    BY <1>1, CallSame DEF client

\* The server's side.
LEMMA CallAnswers ==
    ASSUME TypeInv, AloneInv, CallInv, ~overlap, NEW r \in Relays, ServerAnswers(r)
    PROVE  CallInv'
  <1>1. /\ UNCHANGED <<process, thread, client>>
        /\ out[r] # <<>> /\ peer[r] = "open" /\ out[r] \in Seq(Messages)
        /\ r \in Sockets /\ r \notin Clients
    BY Distinct DEF ServerAnswers, TypeInv, NetTyped
  <1>2. Head(out[r]).is = "request"
    BY <1>1 DEF AloneInv, Sound
  <1>3. /\ peer' = [peer EXCEPT ![r] = "open"]
        /\ out' = [out EXCEPT ![r] = Tail(@)]
        /\ \A s \in Sockets \ {r} : in'[s] = in[s]
    BY <1>1, <1>2 DEF ServerAnswers, TypeInv, NetTyped
  <1>4. /\ peer' = peer /\ out'[r] = Tail(out[r])
        /\ \A s \in Sockets \ {r} : out'[s] = out[s] /\ in'[s] = in[s]
    BY <1>1, <1>3 DEF TypeInv, NetTyped
  <1>5. \A c \in Clients : /\ in'[c] = in[c] /\ out'[c] = out[c]
                           /\ Waits(c)' <=> Waits(c)
                           /\ Req(c)' = Req(c)
    BY <1>1, <1>4, Distinct DEF Waits, Req, Query, client
  <1>6. ASSUME NEW q \in Relays, NEW i \in DOMAIN out'[q]
        PROVE  \E c \in Clients : WithServer(c, q, out[q][i])'
    <2>1. \E j \in DOMAIN out[q] : out'[q][i] = out[q][j]
      <3>1. CASE q # r
        BY <1>4, <1>6, <3>1, Distinct
      <3>2. CASE q = r
        <4>1. out[r] \in Seq(Messages) /\ out[r] # <<>> /\ i \in DOMAIN Tail(out[r])
          BY <1>1, <1>4, <1>6, <3>2
        <4>2. i + 1 \in DOMAIN out[r] /\ Tail(out[r])[i] = out[r][i + 1]
          BY ONLY <4>1
        <4>3. QED
          BY <1>4, <3>2, <4>2
      <3>3. QED
        BY <3>1, <3>2
    <2>2. PICK j \in DOMAIN out[q] : out'[q][i] = out[q][j]
      BY <2>1
    <2>3. PICK c \in Clients : WithServer(c, q, out[q][j])
      BY DEF CallInv
    <2>4. WithServer(c, q, out[q][i])'
      BY <1>1, <1>5, <2>2, <2>3 DEF WithServer, process, thread, client
    <2>5. QED
      BY <2>4
  <1>7. \A q \in Relays : peer'[q] = "gone" => out'[q] = <<>>
    BY <1>1, <1>4, Distinct DEF CallInv
  <1>8. alive' => \A c \in Clients : in'[c] # <<>> \/ pc'[c] \in Pending => Waits(c)'
    BY <1>1, <1>5 DEF CallInv, process, thread
  <1>9. QED
    BY <1>6, <1>7, <1>8 DEF CallInv

LEMMA CallServerDies ==
    ASSUME TypeInv, CallInv, ~overlap, ServerDies
    PROVE  CallInv'
  <1>1. /\ UNCHANGED <<process, thread, in, client>>
        /\ \A r \in Relays : out'[r] = <<>>
    BY Distinct DEF ServerDies
  <1>2. \A c \in Clients : Waits(c)' <=> Waits(c)
    BY <1>1 DEF Waits, client
  <1>3. QED
    BY <1>1, <1>2 DEF CallInv, process, thread

\* The clients.
LEMMA CallAsk ==
    ASSUME TypeInv, AloneInv, CallInv, ~overlap, NEW c \in Clients, Ask(c)
    PROVE  CallInv' /\ Call!Ask(c)
  <1>1. /\ UNCHANGED <<process, thread, peer, out, got, served, faults, overlap>>
        /\ phase[c] = "idle" /\ asked' = [asked EXCEPT ![c] = @ + 1]
        /\ \A d \in Clients \ {c} : phase'[d] = phase[d] /\ asked'[d] = asked[d]
        /\ asked'[c] = asked[c] + 1
    BY DEF Ask, TypeInv, ClientTyped
  <1>2. asked[c] = Len(got[c]) /\ asked[c] \in Nat /\ ~Waits(c) /\ Waits(c)'
    BY <1>1 DEF AloneInv, Side, TypeInv, ClientTyped, Waits
  <1>3. \A d \in Clients \ {c} : in'[d] = in[d]
    BY DEF Ask
  <1>4. \A d \in Clients \ {c} : (Waits(d)' <=> Waits(d)) /\ Req(d)' = Req(d)
    BY <1>1 DEF Waits, Req, Query
  <1>5. ASSUME NEW r \in Relays, NEW i \in DOMAIN out'[r]
        PROVE  \E d \in Clients : WithServer(d, r, out[r][i])'
    <2>1. out' = out
      BY <1>1
    <2>2. PICK d \in Clients : WithServer(d, r, out[r][i])
      BY <1>5, <2>1 DEF CallInv
    <2>3. d # c
      BY <1>2, <2>2 DEF WithServer
    <2>4. WithServer(d, r, out[r][i])'
      BY <1>1, <1>4, <2>1, <2>2, <2>3 DEF WithServer, process, thread
    <2>5. QED
      BY <2>4
  <1>6. CallInv'
    BY <1>1, <1>2, <1>3, <1>4, <1>5 DEF CallInv, process, thread
  <1>7. Call!Ask(c)
    BY <1>1, <1>2 DEF Call!Ask, Call!Open, Waits
  <1>8. QED
    BY <1>6, <1>7

LEMMA CallGets ==
    ASSUME TypeInv, AloneInv, OnceInv, CallInv, ~overlap, NEW c \in Clients, GetAnswer(c)
    PROVE  CallInv' /\ (Call!Return(c) \/ Call!GiveUp(c))
  <1>1. /\ UNCHANGED <<process, thread, peer, in, asked, history>>
        /\ phase[c] = "waiting" /\ out[c] # <<>>
        /\ got' = [got EXCEPT ![c] = Append(@, Head(out[c]))]
        /\ \A d \in Clients \ {c} : phase'[d] = phase[d] /\ got'[d] = got[d]
        /\ \A s \in Sockets \ {c} : out'[s] = out[s]
    BY Distinct DEF GetAnswer, TypeInv, ClientTyped, NetTyped
  <1>2. /\ asked[c] = Len(got[c]) + 1 /\ Good(c, Head(out[c]))
        /\ out[c] \in Seq(Messages) /\ asked[c] \in Nat /\ got[c] \in Seq(Messages)
    BY <1>1, Distinct DEF AloneInv, Side, TypeInv, ClientTyped, NetTyped
  <1>3. alive => in[c] = <<>> /\ pc[c] \notin Pending
    BY <1>1 DEF AloneInv, Own
  <1>4. \A d \in Clients \ {c} : (Waits(d)' <=> Waits(d)) /\ Req(d)' = Req(d)
    BY <1>1 DEF Waits, Req, Query
  <1>5. ASSUME NEW r \in Relays, NEW i \in DOMAIN out'[r]
        PROVE  \E d \in Clients : WithServer(d, r, out[r][i])'
    <2>1. out'[r] = out[r]
      BY <1>1, Distinct
    <2>2. PICK d \in Clients : WithServer(d, r, out[r][i])
      BY <1>5, <2>1 DEF CallInv
    <2>3. d # c
      BY <1>1, <2>2 DEF WithServer
    <2>4. out'[d] = out[d]
      BY <1>1, <2>3, Distinct
    <2>5. WithServer(d, r, out[r][i])'
      BY <1>1, <1>4, <2>1, <2>2, <2>3, <2>4 DEF WithServer, process, thread
    <2>6. QED
      BY <2>5
  <1>6. CallInv'
    <2>1. \A r \in Relays : peer'[r] = "gone" => out'[r] = <<>>
      BY <1>1, Distinct DEF CallInv
    <2>2. alive' => \A d \in Clients : in'[d] # <<>> \/ pc'[d] \in Pending => Waits(d)'
      BY <1>1, <1>3, <1>4 DEF CallInv, process, thread
    <2>3. QED
      BY <1>5, <2>1, <2>2 DEF CallInv
  <1>7. Call!Open(c)
    BY <1>2, LenProperties DEF Call!Open
  <1>8. CASE Head(out[c]) = Ans(c)
    <2>1. 1 \in DOMAIN out[c] /\ out[c][1] = Ans(c)
      BY <1>1, <1>2, <1>8
    <2>2. Fit(Ans(c), served, asked)
      BY <2>1, FitNow, Distinct
    <2>3. Query(c) \in served
      BY <2>2, Kinds DEF Fit, Ans
    <2>4. Call!LastCall(c) = Query(c)
      BY DEF Call!LastCall, Query
    <2>5. Call!Return(c)
      BY <1>1, <1>7, <1>8, <2>3, <2>4 DEF Call!Return, Ans, history
    <2>6. QED
      BY <1>6, <2>5
  <1>9. CASE Head(out[c]) = Garbage /\ faults
    <2>1. Call!GiveUp(c)
      BY <1>1, <1>7, <1>9 DEF Call!GiveUp, history
    <2>2. QED
      BY <1>6, <2>1
  <1>10. QED
    BY <1>2, <1>8, <1>9 DEF Good

LEMMA CallGoes ==
    ASSUME TypeInv, CallInv, ~overlap, NEW c \in Clients, Broken(c) \/ Leave(c)
    PROVE  CallInv'
  <1>1. /\ UNCHANGED <<process, thread, in, asked, got>>
        /\ phase'[c] # "waiting" /\ \A d \in Clients \ {c} : phase'[d] = phase[d]
        /\ \A s \in Sockets \ {c} : peer'[s] = peer[s] /\ out'[s] = out[s]
    BY DEF Broken, Leave, net, TypeInv, ClientTyped, NetTyped
  <1>2. \A d \in Clients : (Waits(d)' <=> Waits(d)) /\ Req(d)' = Req(d)
    BY <1>1 DEF Waits, Req, Query
  <1>3. ASSUME NEW r \in Relays, NEW i \in DOMAIN out'[r]
        PROVE  \E d \in Clients : WithServer(d, r, out[r][i])'
    <2>1. out'[r] = out[r]
      BY <1>1, Distinct
    <2>2. PICK d \in Clients : WithServer(d, r, out[r][i])
      BY <1>3, <2>1 DEF CallInv
    <2>3. phase'[d] = "waiting" => phase[d] = "waiting" /\ out'[d] = out[d]
      BY <1>1, Distinct
    <2>4. WithServer(d, r, out[r][i])'
      BY <1>1, <1>2, <2>1, <2>2, <2>3 DEF WithServer, process, thread
    <2>5. QED
      BY <2>4
  <1>4. \A r \in Relays : peer'[r] = "gone" => out'[r] = <<>>
    BY <1>1, Distinct DEF CallInv
  <1>5. alive' => \A d \in Clients : in'[d] # <<>> \/ pc'[d] \in Pending => Waits(d)'
    BY <1>1, <1>2 DEF CallInv, process, thread
  <1>6. QED
    BY <1>3, <1>4, <1>5 DEF CallInv

\* Once relays have overlapped they have.
LEMMA OverlapStays ==
    ASSUME [Next]_vars, overlap
    PROVE  overlap'
  <1>1. ASSUME NEW c \in Clients,
               ThreadStep(c) \/ Ask(c) \/ GetAnswer(c) \/ Broken(c) \/ Leave(c)
        PROVE  overlap'
    BY <1>1 DEF ThreadStep, Accept, RecvRequest, RecvNothing, Refuse, End, NewSocket,
        NoSocket, Connect, SendRequest, CallRead, ReadAnswer, ReadNothing, TornRead, Reply,
        CloseServer, Killed, SendKills, Die, Ask, GetAnswer, Broken, Leave, history
  <1>2. ASSUME (\E r \in Relays : ServerAnswers(r)) \/ ServerDies \/ ServerStarts
                  \/ Waiting \/ UNCHANGED vars
        PROVE  overlap'
    BY <1>2 DEF ServerAnswers, ServerDies, ServerStarts, Waiting, vars, history
  <1>3. QED
    BY <1>1, <1>2 DEF Next

\* Each step is one of the remote call's, or none.
LEMMA CallStep ==
    ASSUME TypeInv, Tidy, AloneInv, OnceInv, CallInv, [Next]_vars
    PROVE  CallInv' /\ [Call!CallNext]_(Call!callVars)
  <1>1. CASE overlap'
    BY <1>1 DEF CallInv, Call!CallNext, Call!Overlap
  <1>2. CASE ~overlap'
    <2> USE <1>2
    <2>0. ~overlap
      BY OverlapStays
    <2>1. ASSUME UNCHANGED <<served, asked, got>>, faults' = faults \/ faults' = TRUE
          PROVE  [Call!CallNext]_(Call!callVars)
      BY <2>0, <2>1 DEF Call!CallNext, Call!Break, Call!callVars
    <2>2. ASSUME NEW c \in Clients, ThreadStep(c)
          PROVE  CallInv' /\ [Call!CallNext]_(Call!callVars)
      <3>1. alive
        BY <2>2 DEF ThreadStep, Accept, RecvRequest, RecvNothing, Refuse, Send, End, NewSocket,
            NoSocket, Connect, SendRequest, CallRead, ReadAnswer, ReadNothing, TornRead, Reply,
            CloseServer, Killed, SendKills, Goto
      <3>2. CallInv'
        BY <2>0, <2>2, <3>1, CallBefore, CallSends, CallRelays, CallDies, AloneNotTorn
           DEF ThreadStep, Killed, SendKills
      <3>3. UNCHANGED <<served, asked, got>> /\ (faults' = faults \/ faults' = TRUE)
        BY <2>2 DEF ThreadStep, Accept, RecvRequest, RecvNothing, Refuse, End, NewSocket,
            NoSocket, Connect, SendRequest, CallRead, ReadAnswer, ReadNothing, TornRead, Reply,
            CloseServer, Killed, SendKills, Die, client, history
      <3>4. QED
        BY <2>1, <3>2, <3>3
    <2>3. ASSUME NEW c \in Clients, Ask(c) \/ GetAnswer(c)
          PROVE  CallInv' /\ [Call!CallNext]_(Call!callVars)
      BY <2>0, <2>3, CallAsk, CallGets DEF Call!CallNext
    <2>4. ASSUME NEW c \in Clients, Broken(c) \/ Leave(c)
          PROVE  CallInv' /\ [Call!CallNext]_(Call!callVars)
      <3>1. UNCHANGED <<served, asked, got>> /\ (faults' = faults \/ faults' = TRUE)
        BY <2>4 DEF Broken, Leave, Fault, history
      <3>2. QED
        BY <2>0, <2>1, <2>4, <3>1, CallGoes
    <2>5. ASSUME NEW r \in Relays, ServerAnswers(r)
          PROVE  CallInv' /\ [Call!CallNext]_(Call!callVars)
      <3>1. out[r] # <<>> /\ out[r] \in Seq(Messages) /\ r \in Sockets
        BY <2>5, Distinct DEF ServerAnswers, TypeInv, NetTyped
      <3>2. 1 \in DOMAIN out[r] /\ Head(out[r]) = out[r][1]
        BY <3>1
      <3>3. PICK c \in Clients : WithServer(c, r, Head(out[r]))
        BY <2>0, <3>2 DEF CallInv
      <3>4. Head(out[r]) = Req(c) /\ Waits(c)
        BY <3>3 DEF WithServer
      <3>5. Query(c) \notin served
        BY <3>1, <3>2, <3>4, FitNow, Kinds DEF Fit, Req
      <3>6. served' = served \cup {Query(c)} /\ UNCHANGED <<asked, got, faults, overlap>>
        BY <2>5, <3>4, Kinds DEF ServerAnswers, client
      <3>7. Call!Execute(c)
        BY <3>4, <3>5, <3>6 DEF Call!Execute, Call!Open, Call!LastCall, Waits, Query
      <3>8. QED
        BY <2>0, <2>5, <3>7, CallAnswers DEF Call!CallNext
    <2>6. CASE ServerDies
      <3>1. UNCHANGED <<served, asked, got>> /\ faults' = TRUE
        BY <2>6 DEF ServerDies, Fault, client
      <3>2. QED
        BY <2>0, <2>1, <2>6, <3>1, CallServerDies
    <2>7. CASE ServerStarts \/ UNCHANGED vars
      <3>1. UNCHANGED <<process, thread, net, client, history>>
        BY <2>7 DEF ServerStarts, vars
      <3>2. CallInv'
        BY <2>0, <3>1, CallSame DEF process, thread, net, client
      <3>3. QED
        BY <2>1, <3>1, <3>2 DEF client, history
    <2>8. QED
      BY <2>2, <2>3, <2>4, <2>5, <2>6, <2>7 DEF Next, Waiting
  <1>3. QED
    BY <1>1, <1>2

\* Until two relays overlap the chain of backend and server implements the remote
\* call: it takes a request up only while its client waits, and gives one answer
\* to it, after that, to that client, in the order of its requests.
THEOREM RelayIsRemoteCall == Spec => ImplementsCalls
<1>1. Init => CallInv /\ Call!CallInit
  <2> SUFFICES ASSUME Init PROVE CallInv /\ Call!CallInit
    OBVIOUS
  <2>1. /\ \A c \in Clients : in[c] = <<>> /\ pc[c] \notin Pending
        /\ \A r \in Relays : out[r] = <<>>
    BY Distinct DEF Init, Pending, Asking
  <2>2. \A r \in Relays : \A i \in DOMAIN out[r] : FALSE
    BY <2>1
  <2>3. CallInv
    BY <2>1, <2>2 DEF CallInv
  <2>4. Call!CallInit
    BY DEF Init, Call!CallInit
  <2>5. QED
    BY <2>3, <2>4
<1>2. TypeInv /\ Tidy /\ AloneInv /\ OnceInv /\ CallInv /\ [Next]_vars
        => CallInv' /\ [Call!CallNext]_(Call!callVars)
  BY CallStep
<1>3. QED
  BY <1>1, <1>2, TypeAlways, TidyAlways, AloneAlways, OnceAlways, PTL
  DEF Spec, ImplementsCalls, Call!CallSpec
=============================================================================
