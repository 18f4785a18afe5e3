----------------------------- MODULE RemoteCall -----------------------------
(***************************************************************************)
(* What the backend's relay promises a client of the blacklist server, as  *)
(* long as no two relays overlap: a remote call.  The server executes a    *)
(* call only while its caller waits, and only after that is its answer     *)
(* given, once, to that caller; without a fault no call is given up.       *)
(***************************************************************************)
EXTENDS Naturals, Sequences

CONSTANTS Clients, Garbage

VARIABLES
    asked,   \* counts each client's calls
    served,  \* the calls executed
    got,     \* what each client has got for its calls
    faulty,  \* has anything failed
    alone    \* have no two relays overlapped

callVars == <<asked, served, got, faulty, alone>>

CallInit ==
    /\ asked = [c \in Clients |-> 0]
    /\ served = {}
    /\ got = [c \in Clients |-> <<>>]
    /\ faulty = FALSE
    /\ alone = TRUE

LastCall(c) == <<c, asked[c]>>
Open(c)     == Len(got[c]) < asked[c]

Ask(c) ==
    /\ ~Open(c)
    /\ asked' = [asked EXCEPT ![c] = @ + 1]
    /\ UNCHANGED <<served, got, faulty, alone>>

Execute(c) ==
    /\ Open(c) /\ LastCall(c) \notin served
    /\ served' = served \cup {LastCall(c)}
    /\ UNCHANGED <<asked, got, faulty, alone>>

Return(c) ==
    /\ Open(c) /\ LastCall(c) \in served
    /\ got' = [got EXCEPT ![c] = Append(@, [is |-> "answer", of |-> LastCall(c)])]
    /\ UNCHANGED <<asked, served, faulty, alone>>

GiveUp(c) ==
    /\ Open(c) /\ faulty
    /\ got' = [got EXCEPT ![c] = Append(@, Garbage)]
    /\ UNCHANGED <<asked, served, faulty, alone>>

Break ==
    /\ faulty' = TRUE
    /\ UNCHANGED <<asked, served, got, alone>>

\* Nothing is promised once two relays overlap.
Overlap == ~alone'

CallNext ==
    \/ \E c \in Clients : Ask(c) \/ Execute(c) \/ Return(c) \/ GiveUp(c)
    \/ Break
    \/ Overlap

CallSpec == CallInit /\ [][CallNext]_callVars
=============================================================================
