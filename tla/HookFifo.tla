------------------------------ MODULE HookFifo ------------------------------
(***************************************************************************)
(* What the driver promises about execve records (the comments on add_hook *)
(* and pop_hook in Driver/spybot.c): a record goes to the end of the list, *)
(* GET_HOOK hands out the first one, each record is handed out at most     *)
(* once, and unloading discards what is left.                              *)
(***************************************************************************)
EXTENDS Sequences

CONSTANTS Readers, Records, NoRecord

VARIABLES
    fifo,    \* the records not yet handed out, oldest first
    open,    \* is the module still loaded
    given    \* the record each GET_HOOK under way has been handed

fifoVars == <<fifo, open, given>>

FifoInit ==
    /\ fifo = <<>>
    /\ open = TRUE
    /\ given = [r \in Readers |-> NoRecord]

Put(rec) ==
    /\ open
    /\ fifo' = Append(fifo, rec)
    /\ UNCHANGED <<open, given>>

Take(r) ==
    /\ open
    /\ fifo # <<>>
    /\ given' = [given EXCEPT ![r] = Head(fifo)]
    /\ fifo' = Tail(fifo)
    /\ UNCHANGED open

Return(r) ==
    /\ given' = [given EXCEPT ![r] = NoRecord]
    /\ UNCHANGED <<fifo, open>>

Discard ==
    /\ open
    /\ open' = FALSE
    /\ fifo' = <<>>
    /\ UNCHANGED given

FifoNext ==
    \/ \E rec \in Records : Put(rec)
    \/ \E r \in Readers : Take(r) \/ Return(r)
    \/ Discard

FifoSpec == FifoInit /\ [][FifoNext]_fifoVars
=============================================================================
