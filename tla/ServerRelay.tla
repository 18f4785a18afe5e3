---------------------------- MODULE ServerRelay -----------------------------
(***************************************************************************)
(* How a request for the blacklist server travels: the client sends it to  *)
(* the backend, where each connection has a thread (clientHandler); the    *)
(* thread opens a connection to the server (handleServerRequest), passes   *)
(* the request on, and passes back the answer.  The descriptor of that     *)
(* connection is kept in _ServerSocket, which all threads share and read   *)
(* again at each step, so threads that relay at once connect, write to,    *)
(* read from and close each other's sockets; and a descriptor closed twice *)
(* may by then be somebody else's.                                         *)
(*                                                                         *)
(* Messages are small and written by one send: they arrive whole, in       *)
(* order.  They are read by three calls of recv, whose end of stream       *)
(* passes for success: what two readers of one socket, or a reader of a    *)
(* closed one, make of it is garbage.  Garbage throws (an impossible       *)
(* length, JSON that does not parse) or is a message of no known code.     *)
(***************************************************************************)
EXTENDS Naturals, Sequences

CONSTANTS
    Clients,   \* connections of clients, each with its thread
    None,
    MaxFd,     \* the descriptors a process may have
    MaxEvents  \* bound: requests and faults, all together

ASSUME BoundsAssumption ==
    /\ MaxFd \in Nat \ {0} /\ MaxEvents \in Nat
    /\ None \notin Clients \cup (0 .. MaxEvents)
    /\ Clients \cap (0 .. MaxEvents) = {}

Fds     == 1 .. MaxFd       \* 0 stands for -1, what a failing socket() returns
Relays  == 0 .. MaxEvents   \* 0 is the socket the constructor makes
Sockets == Clients \cup Relays
Queries == Clients \X (1 .. MaxEvents)
Garbage == [is |-> "garbage", of |-> None]
Messages == [is : {"request", "answer"}, of : Queries] \cup {Garbage}

VARIABLES
    alive,    \* does the backend run
    fds,      \* its descriptors: the socket of each, or None
    server,   \* _ServerSocket
    made,     \* counts the sockets made for relays
    pc,       \* where each client's thread is
    sock,     \* clientSocket
    rfd,      \* the descriptor getAllTheSocket was called with
    msg,      \* clientRequest, then serverResponse
    torn,     \* getAllTheSocket has bytes of more than one message
    peer,     \* the other end of each socket: "new" (none yet), "open", "gone"
    in,       \* what the backend has still to read from each socket
    out,      \* what it has written to it, and the other end has not read
    serverUp,
    asked,    \* counts each client's requests
    got,      \* what it took for the answers
    phase,    \* of the client: "idle", "waiting", "lost" (a broken connection), "left"
    served,   \* history: the requests the server has handled
    events,   \* counts the requests and the faults
    faults,   \* history: has anything failed
    overlap   \* history: have two threads ever relayed at once

process == <<alive, fds, server, made>>
thread  == <<pc, sock, rfd, msg, torn>>
net     == <<peer, in, out>>
client  == <<asked, got, phase>>
history == <<served, events, faults, overlap>>
vars == <<process, thread, net, serverUp, client, history>>

Init ==
    /\ alive = TRUE
    /\ fds = [f \in Fds |-> IF f = 1 THEN 0 ELSE None]
    /\ server = 1
    /\ made = 0
    /\ pc = [c \in Clients |-> "none"]
    /\ sock = [c \in Clients |-> 0]
    /\ rfd = [c \in Clients |-> 0]
    /\ msg = [c \in Clients |-> Garbage]
    /\ torn = [c \in Clients |-> FALSE]
    /\ peer = [s \in Sockets |-> IF s \in Clients THEN "open" ELSE "new"]
    /\ in = [s \in Sockets |-> <<>>]
    /\ out = [s \in Sockets |-> <<>>]
    /\ serverUp = TRUE
    /\ asked = [c \in Clients |-> 0]
    /\ got = [c \in Clients |-> <<>>]
    /\ phase = [c \in Clients |-> "idle"]
    /\ served = {} /\ events = 0 /\ faults = FALSE /\ overlap = FALSE

Goto(c, from, to) == alive /\ pc[c] = from /\ pc' = [pc EXCEPT ![c] = to]

\* A death of the server, a departure of a client.
Fault ==
    /\ events < MaxEvents /\ events' = events + 1
    /\ faults' = TRUE

-----------------------------------------------------------------------------
(* Descriptors and sockets.                                                *)

SocketOf(f) == IF f \in Fds THEN fds[f] ELSE None
Held(s)     == \E f \in Fds : fds[f] = s

\* accept() and socket() return the lowest free descriptor.
FreeFds == {f \in Fds : fds[f] = None}
Lowest  == IF FreeFds = {} THEN 0 ELSE CHOOSE f \in FreeFds : \A g \in FreeFds : f =< g

\* SIGPIPE is not handled.
Die ==
    /\ alive' = FALSE
    /\ fds' = [f \in Fds |-> None] /\ server' = 0
    /\ pc' = [c \in Clients |-> "ended"]
    /\ sock' = [c \in Clients |-> 0] /\ rfd' = sock'
    /\ msg' = [c \in Clients |-> Garbage]
    /\ torn' = [c \in Clients |-> FALSE]
    /\ in' = [s \in Sockets |-> <<>>]
    /\ UNCHANGED <<made, peer, out, serverUp, client, history>>

\* Thread c, at `from`, sends m by descriptor f.  Where the other end is gone a
\* send may be lost, fail, or kill (SendKills).
Send(c, from, f, m, sent, failed) ==
    LET s == SocketOf(f) IN
    \/ /\ s = None \/ (s # None /\ peer[s] = "gone")
       /\ Goto(c, from, failed)
       /\ UNCHANGED <<out, msg>>
    \/ /\ s # None /\ peer[s] \in {"open", "gone"}
       /\ Goto(c, from, sent)
       /\ out' = IF peer[s] = "open" THEN [out EXCEPT ![s] = Append(@, m)] ELSE out
       /\ msg' = [msg EXCEPT ![c] = Garbage]

SendKills(c, from, f) ==
    /\ alive /\ pc[c] = from
    /\ SocketOf(f) # None /\ peer[SocketOf(f)] # "open"
    /\ Die

\* The descriptor that getAllTheSocket is reading, 0 if it is not running.
ReadFd(c) == CASE pc[c] = "recv" -> sock[c]
               [] pc[c] = "read" -> rfd[c]
               [] OTHER          -> 0

\* close(f): a thread that is reading there goes on with whatever f is next.
Close(f) ==
    /\ fds' = IF f \in Fds THEN [fds EXCEPT ![f] = None] ELSE fds
    /\ in' = IF SocketOf(f) = None THEN in ELSE [in EXCEPT ![SocketOf(f)] = <<>>]
    /\ torn' = [d \in Clients |-> torn[d] \/ (f # 0 /\ ReadFd(d) = f)]

-----------------------------------------------------------------------------
(* clientHandler.                                                          *)

\* acceptClient.  With no descriptor left accept fails, and is tried again.
Accept(c) ==
    /\ Lowest # 0
    /\ Goto(c, "none", "recv")
    /\ sock' = [sock EXCEPT ![c] = Lowest]
    /\ fds' = [fds EXCEPT ![Lowest] = c]
    /\ UNCHANGED <<alive, server, made, rfd, msg, torn, net, serverUp, client, history>>

\* Mutant: the request is looked at and left in the stream.
RecvRequestPeeks(c) ==
    LET s == SocketOf(sock[c]) IN
    /\ s # None /\ in[s] # <<>>
    /\ Goto(c, "recv", "socket")
    /\ msg' = [msg EXCEPT ![c] = Head(in[s])]
    /\ UNCHANGED <<process, sock, rfd, torn, net, serverUp, client, history>>

\* A whole message.  An answer of the server's is not a relevant request.
RecvRequest(c) ==
    LET s == SocketOf(sock[c]) IN
    /\ s # None /\ in[s] # <<>>
    /\ \E next \in IF Head(in[s]).is = "request" THEN {"socket"} ELSE {"refuse", "end"} :
        Goto(c, "recv", next)
    /\ msg' = [msg EXCEPT ![c] = Head(in[s])]
    /\ in' = [in EXCEPT ![s] = Tail(@)]
    /\ UNCHANGED <<process, sock, rfd, torn, peer, out, serverUp, client, history>>

\* recv fails, or there is nothing more to come.
RecvNothing(c) ==
    LET s == SocketOf(sock[c]) IN
    /\ \/ s = None /\ Goto(c, "recv", "end")
       \/ s # None /\ peer[s] = "new" /\ Goto(c, "recv", "end")
       \/ /\ s # None /\ peer[s] = "gone" /\ in[s] = <<>>
          /\ \E next \in {"refuse", "end"} : Goto(c, "recv", next)
    /\ msg' = [msg EXCEPT ![c] = Garbage]
    /\ torn' = [torn EXCEPT ![c] = FALSE]
    /\ UNCHANGED <<process, sock, rfd, net, serverUp, client, history>>

\* "Request is not relevant."
Refuse(c) ==
    /\ Send(c, "refuse", sock[c], Garbage, "recv", "end")
    /\ UNCHANGED <<process, sock, rfd, torn, peer, in, serverUp, client, history>>

\* The catch clause closes the client's socket.
End(c) ==
    /\ Goto(c, "end", "ended")
    /\ Close(sock[c])
    /\ sock' = [sock EXCEPT ![c] = 0]
    /\ UNCHANGED <<alive, server, made, rfd, msg, peer, out, serverUp, client, history>>

-----------------------------------------------------------------------------
(* handleServerRequest.                                                    *)

Relaying(c) == pc[c] \in {"socket", "connect", "send", "call", "read", "reply", "close"}

\* The descriptor is used unchecked.  Each relay has a request of its own, so
\* that the bound on these leaves room for its socket.
NewSocket(c) ==
    /\ Goto(c, "socket", "connect")
    /\ made < MaxEvents
    /\ server' = Lowest
    /\ made' = made + 1
    /\ fds' = [fds EXCEPT ![Lowest] = made + 1]
    /\ overlap' = (overlap \/ \E d \in Clients \ {c} : Relaying(d))
    /\ Lowest # 0
    /\ UNCHANGED <<alive, sock, rfd, msg, torn, net, serverUp, client, served, events, faults>>

NoSocket(c) ==
    /\ Goto(c, "socket", "connect")
    /\ server' = 0
    /\ Lowest = 0 \/ events < MaxEvents
    /\ events' = IF Lowest = 0 THEN events ELSE events + 1
    /\ faults' = TRUE
    /\ overlap' = (overlap \/ \E d \in Clients \ {c} : Relaying(d))
    /\ UNCHANGED <<alive, fds, made, sock, rfd, msg, torn, net, serverUp, client, served>>

\* Mutant: the return after a failed connect leaves the socket open.
ConnectLeaks(c) ==
    LET s == SocketOf(server)
        can == s # None /\ peer[s] = "new" /\ serverUp
    IN  /\ Goto(c, "connect", IF can THEN "send" ELSE "recv")
        /\ peer' = IF can THEN [peer EXCEPT ![s] = "open"] ELSE peer
        /\ UNCHANGED <<process, sock, rfd, msg, torn, in, out, serverUp, client, history>>

\* connect fails when the server is down, and on a socket that is closed or
\* connected already; then handleServerRequest closes it and returns.
Connect(c) ==
    LET s == SocketOf(server)
        can == s # None /\ peer[s] = "new" /\ serverUp
    IN  /\ Goto(c, "connect", IF can THEN "send" ELSE "close")
        /\ peer' = IF can THEN [peer EXCEPT ![s] = "open"] ELSE peer
        /\ UNCHANGED <<process, sock, rfd, msg, torn, in, out, serverUp, client, history>>

SendRequest(c) ==
    /\ Send(c, "send", server, msg[c], "call", "close")
    /\ UNCHANGED <<process, sock, rfd, torn, peer, in, serverUp, client, history>>

\* Mutant: the answer is read from the client's connection.
CallReadClient(c) ==
    /\ Goto(c, "call", "read")
    /\ rfd' = [rfd EXCEPT ![c] = sock[c]]
    /\ UNCHANGED <<process, sock, msg, torn, net, serverUp, client, history>>

\* Mutant: the socket is passed, not its descriptor.
CallReadSocket(c) ==
    /\ Goto(c, "call", "read")
    /\ rfd' = [rfd EXCEPT ![c] = SocketOf(server)]
    /\ UNCHANGED <<process, sock, msg, torn, net, serverUp, client, history>>

\* getAllTheSocket(_ServerSocket): by value.
CallRead(c) ==
    /\ Goto(c, "call", "read")
    /\ rfd' = [rfd EXCEPT ![c] = server]
    /\ UNCHANGED <<process, sock, msg, torn, net, serverUp, client, history>>

ReadAnswer(c) ==
    LET s == SocketOf(rfd[c]) IN
    /\ s # None /\ in[s] # <<>>
    /\ \E next \in IF Head(in[s]) = Garbage THEN {"reply", "close"} ELSE {"reply"} :
        Goto(c, "read", next)
    /\ msg' = [msg EXCEPT ![c] = Head(in[s])]
    /\ in' = [in EXCEPT ![s] = Tail(@)]
    /\ rfd' = [rfd EXCEPT ![c] = 0]
    /\ UNCHANGED <<process, sock, torn, peer, out, serverUp, client, history>>

ReadNothing(c) ==
    LET s == SocketOf(rfd[c]) IN
    /\ \/ s = None /\ Goto(c, "read", "close")
       \/ s # None /\ peer[s] = "new" /\ Goto(c, "read", "close")
       \/ /\ s # None /\ peer[s] = "gone" /\ in[s] = <<>>
          /\ \E next \in {"reply", "close"} : Goto(c, "read", next)
    /\ msg' = [msg EXCEPT ![c] = Garbage]
    /\ torn' = [torn EXCEPT ![c] = FALSE]
    /\ rfd' = [rfd EXCEPT ![c] = 0]
    /\ UNCHANGED <<process, sock, net, serverUp, client, history>>

\* Two threads read one socket, or its descriptor was closed under a reader:
\* the reader gets garbage.  It may have taken bytes of the message that is
\* there, and left the rest.
TornRead(c) ==
    LET f == ReadFd(c)
        s == SocketOf(f)
        others == {d \in Clients \ {c} : ReadFd(d) # 0 /\ SocketOf(ReadFd(d)) = s}
        tears  == s # None /\ in[s] # <<>>
    IN  /\ f # 0
        /\ torn[c] \/ (tears /\ others # {})
        /\ \/ Goto(c, "recv", "refuse") \/ Goto(c, "recv", "end")
           \/ Goto(c, "read", "reply") \/ Goto(c, "read", "close")
        /\ msg' = [msg EXCEPT ![c] = Garbage]
        /\ \/ UNCHANGED in /\ torn' = [torn EXCEPT ![c] = FALSE]
           \/ /\ tears
              /\ \E rest \in {<<>>} \cup {<<Garbage>> : m \in {Head(in[s])} \ {Garbage}} :
                    in' = [in EXCEPT ![s] = rest \o Tail(@)]
              /\ torn' = [d \in Clients |-> d # c /\ (torn[d] \/ d \in others)]
        /\ rfd' = [rfd EXCEPT ![c] = 0]
        /\ UNCHANGED <<process, sock, peer, out, serverUp, client, history>>

Reply(c) ==
    /\ Send(c, "reply", sock[c], msg[c], "close", "close")
    /\ UNCHANGED <<process, sock, rfd, torn, peer, in, serverUp, client, history>>

\* Mutant: the client's connection is closed instead.
CloseClient(c) ==
    /\ Goto(c, "close", "recv")
    /\ Close(sock[c])
    /\ msg' = [msg EXCEPT ![c] = Garbage]
    /\ UNCHANGED <<alive, server, made, sock, rfd, peer, out, serverUp, client, history>>

CloseServer(c) ==
    /\ Goto(c, "close", "recv")
    /\ Close(server)
    /\ msg' = [msg EXCEPT ![c] = Garbage]
    /\ UNCHANGED <<alive, server, made, sock, rfd, peer, out, serverUp, client, history>>

\* A send to a socket that is not connected, or whose other end is gone.
Killed(c) ==
    \/ SendKills(c, "refuse", sock[c])
    \/ SendKills(c, "send", server)
    \/ SendKills(c, "reply", sock[c])

-----------------------------------------------------------------------------
(* The server and the clients.                                             *)

\* backendHandler: it answers a request; an answer is to it what garbage is.
\* What it sends to a socket that is closed is lost.
ServerAnswers(r) ==
    /\ peer[r] = "open" /\ out[r] # <<>>
    /\ LET m == Head(out[r])
           reply == IF m.is = "request" THEN [is |-> "answer", of |-> m.of] ELSE Garbage
       IN  /\ served' = IF m.is = "request" THEN served \cup {m.of} ELSE served
           /\ in' = IF Held(r) THEN [in EXCEPT ![r] = Append(@, reply)] ELSE in
           /\ \E end \in IF m.is = "request" THEN {"open"} ELSE {"open", "gone"} :
                peer' = [peer EXCEPT ![r] = end]
    /\ out' = [out EXCEPT ![r] = Tail(@)]
    /\ UNCHANGED <<process, thread, serverUp, client, events, faults, overlap>>

ServerDies ==
    /\ serverUp /\ Fault
    /\ serverUp' = FALSE
    /\ peer' = [s \in Sockets |-> IF s \in Relays /\ peer[s] = "open" THEN "gone" ELSE peer[s]]
    /\ out' = [s \in Sockets |-> IF s \in Relays THEN <<>> ELSE out[s]]
    /\ UNCHANGED <<process, thread, in, client, served, overlap>>

ServerStarts ==
    /\ ~serverUp /\ serverUp' = TRUE
    /\ UNCHANGED <<process, thread, net, client, history>>

\* Communication: SendMSG, GetMSG.  On a connection that the backend has closed
\* the send still works.
Ask(c) ==
    /\ phase[c] = "idle"
    /\ events < MaxEvents /\ events' = events + 1
    /\ asked' = [asked EXCEPT ![c] = @ + 1]
    /\ in' = IF pc[c] = "none" \/ Held(c)
             THEN [in EXCEPT ![c] = Append(@, [is |-> "request", of |-> <<c, asked[c] + 1>>])]
             ELSE in
    /\ phase' = [phase EXCEPT ![c] = "waiting"]
    /\ UNCHANGED <<process, thread, peer, out, serverUp, got, served, faults, overlap>>

GetAnswer(c) ==
    /\ phase[c] = "waiting" /\ out[c] # <<>>
    /\ got' = [got EXCEPT ![c] = Append(@, Head(out[c]))]
    /\ out' = [out EXCEPT ![c] = Tail(@)]
    /\ phase' = [phase EXCEPT ![c] = "idle"]
    /\ UNCHANGED <<process, thread, peer, in, serverUp, asked, history>>

\* The backend has closed the connection.
Broken(c) ==
    /\ phase[c] = "waiting" /\ out[c] = <<>>
    /\ pc[c] # "none" /\ ~Held(c)
    /\ phase' = [phase EXCEPT ![c] = "lost"]
    /\ UNCHANGED <<process, thread, net, serverUp, asked, got, history>>

Leave(c) ==
    /\ phase[c] \in {"idle", "waiting"} /\ Fault
    /\ phase' = [phase EXCEPT ![c] = "left"]
    /\ peer' = [peer EXCEPT ![c] = "gone"]
    /\ out' = [out EXCEPT ![c] = <<>>]
    /\ UNCHANGED <<process, thread, in, serverUp, asked, got, served, overlap>>

ThreadStep(c) ==
    \/ Accept(c) \/ RecvRequest(c) \/ RecvNothing(c) \/ Refuse(c) \/ End(c)
    \/ NewSocket(c) \/ NoSocket(c) \/ Connect(c) \/ SendRequest(c) \/ CallRead(c) \/ ReadAnswer(c)
    \/ ReadNothing(c) \/ TornRead(c) \/ Reply(c) \/ CloseServer(c) \/ Killed(c)

\* Everybody waits for somebody, for ever: for requests, or for an answer.
Waiting ==
    /\ events = MaxEvents
    /\ UNCHANGED vars

Next ==
    \/ \E c \in Clients :
        ThreadStep(c) \/ Ask(c) \/ GetAnswer(c) \/ Broken(c) \/ Leave(c)
    \/ \E r \in Relays : ServerAnswers(r)
    \/ ServerDies \/ ServerStarts \/ Waiting

Fairness ==
    /\ \A c \in Clients : WF_vars(ThreadStep(c)) /\ WF_vars(GetAnswer(c))
    /\ \A r \in Relays : WF_vars(ServerAnswers(r))

Spec == Init /\ [][Next]_vars /\ Fairness

-----------------------------------------------------------------------------
(* Properties.                                                             *)

\* Every variable has its type.
TypeOK ==
    /\ alive \in BOOLEAN /\ serverUp \in BOOLEAN /\ overlap \in BOOLEAN /\ faults \in BOOLEAN
    /\ fds \in [Fds -> Sockets \cup {None}]
    /\ server \in 0 .. MaxFd
    /\ made \in Relays
    /\ pc \in [Clients -> {"none", "recv", "refuse", "end", "ended", "socket", "connect",
                           "send", "call", "read", "reply", "close"}]
    /\ sock \in [Clients -> 0 .. MaxFd] /\ rfd \in [Clients -> 0 .. MaxFd]
    /\ msg \in [Clients -> Messages]
    /\ torn \in [Clients -> BOOLEAN]
    /\ peer \in [Sockets -> {"new", "open", "gone"}]
    /\ in \in [Sockets -> Seq(Messages)] /\ out \in [Sockets -> Seq(Messages)]
    /\ asked \in [Clients -> Nat]
    /\ got \in [Clients -> Seq(Messages)]
    /\ phase \in [Clients -> {"idle", "waiting", "lost", "left"}]
    /\ served \subseteq Queries
    /\ events \in 0 .. MaxEvents

\* As long as no two threads have relayed at once, what a client takes for the
\* answer to its n-th request is the server's answer to it; it may be garbage
\* when the server died.  And the backend lives, and drops no client, but for
\* such a fault.
AloneIsRight ==
    ~overlap =>
        /\ \A c \in Clients : \A n \in DOMAIN got[c] :
            \/ got[c][n] = [is |-> "answer", of |-> <<c, n>>]
            \/ got[c][n] = Garbage /\ faults
        /\ ~faults => alive /\ \A c \in Clients : phase[c] # "lost"

\* As long as no two threads have relayed at once, each descriptor is the one
\* of a client being served, of the relay in progress or of the constructor,
\* and each of these has one: nothing leaks, whatever fails.
AloneIsTidy ==
    ~overlap /\ alive =>
        \A f \in Fds :
            /\ fds[f] \in Relays \ {0} =>
                server = f /\ \E c \in Clients :
                    pc[c] \in {"connect", "send", "call", "read", "reply", "close"}
            /\ \A c \in Clients : fds[f] = c <=> sock[c] = f /\ pc[c] \notin {"none", "ended"}

Copies(t, s, stream) == {<<t, s, i, stream[i]>> : i \in {j \in DOMAIN stream : stream[j] # Garbage}}

\* However relays overlap, and whichever sockets they take for theirs, no
\* request is handled twice, though requests add rows to the server's tables,
\* and no answer is given to two clients: of each there is one copy.
NothingTwice ==
    LET copies == UNION ({Copies("in", s, in[s]) : s \in Sockets}
                            \cup {Copies("out", s, out[s]) : s \in Sockets}
                            \cup {Copies("got", c, got[c]) : c \in Clients}
                            \cup {Copies("msg", c, <<msg[c]>>) : c \in Clients})
    IN  /\ \A x, y \in copies : x[4] = y[4] => x = y
        /\ \A x \in copies : (x[4].is = "answer") <=> (x[4].of \in served)

\* As long as no two threads have relayed at once, a request is a remote call: the
\* server takes it up only while its client waits, never after the client has got
\* something for it, and the client gets one answer to it, after that, or garbage
\* after a fault.
Call == INSTANCE RemoteCall WITH faulty <- faults, alone <- ~overlap

ImplementsCalls == Call!CallSpec

\* A client gets its answer, unless relays overlap or something fails.
Answered ==
    \A c \in Clients : phase[c] = "waiting" ~> (phase[c] # "waiting" \/ overlap \/ faults)
=============================================================================
