---------------------------- MODULE FifoChannel ----------------------------
(***************************************************************************)
(* What an IPC channel promises: a queue of at most CAPACITY messages.     *)
(* sent and received are the results of the last send and the last recv.   *)
(***************************************************************************)
EXTENDS Naturals, Sequences

CONSTANTS Messages, CAPACITY, None

VARIABLES queue, sent, received

fifoVars == <<queue, sent, received>>

FifoInit == queue = <<>> /\ sent = "Ok" /\ received = None

FifoSend(m) ==
    /\ Len(queue) < CAPACITY
    /\ queue' = Append(queue, m)
    /\ sent' = "Ok"
    /\ UNCHANGED received

FifoFull ==
    /\ Len(queue) = CAPACITY
    /\ sent' = "BufferFull"
    /\ UNCHANGED <<queue, received>>

FifoRecv ==
    /\ queue # <<>>
    /\ received' = Head(queue)
    /\ queue' = Tail(queue)
    /\ UNCHANGED sent

FifoEmpty ==
    /\ queue = <<>>
    /\ received' = None
    /\ UNCHANGED <<queue, sent>>

FifoNext == (\E m \in Messages : FifoSend(m)) \/ FifoFull \/ FifoRecv \/ FifoEmpty

FifoSpec == FifoInit /\ [][FifoNext]_fifoVars

=============================================================================
