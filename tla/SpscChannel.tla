---------------------------- MODULE SpscChannel ----------------------------
(***************************************************************************)
(* One channel of src/ipc/mod.rs: the ring buffer, step by step between    *)
(* the accesses to the shared indices and slots, and the ownership that    *)
(* gives it a single producer and a single consumer.  send and recv of     *)
(* different tasks interleave freely.                                      *)
(***************************************************************************)
EXTENDS Integers, Sequences

CONSTANTS
    Tasks,
    Messages,
    IPC_CHANNEL_SLOTS,
    CHANNEL_UNASSIGNED, \* no task
    None                \* no message: a zeroed slot, an empty channel

ASSUME ChannelAssumption ==
    /\ IPC_CHANNEL_SLOTS \in Nat /\ 0 < IPC_CHANNEL_SLOTS /\ IPC_CHANNEL_SLOTS < 65536
    /\ CHANNEL_UNASSIGNED \notin Tasks
    /\ None \notin Messages

VARIABLES
    head, tail, slots,  \* the ring
    producer, consumer, \* CHANNEL_OWNERS
    sealed,             \* CHANNELS_SEALED
    op,                 \* where each task is in send or recv, and its locals
    sent, received      \* results of the last send and recv

vars == <<head, tail, slots, producer, consumer, sealed, op, sent, received>>

Index == 0 .. IPC_CHANNEL_SLOTS - 1
Idle == [at |-> "idle", i |-> 0, msg |-> None]

Init ==
    /\ head = 0 /\ tail = 0
    /\ slots = [i \in Index |-> None]
    /\ producer = CHANNEL_UNASSIGNED /\ consumer = CHANNEL_UNASSIGNED
    /\ sealed = FALSE
    /\ op = [t \in Tasks |-> Idle]
    /\ sent = "Ok" /\ received = None

(***************************************************************************)
(* Ownership.  The boot assigns the channels, seals them, and only then    *)
(* starts the first task.                                                  *)
(***************************************************************************)
\* Variant: the seal is not looked at.
assign_channel_unsealed(p, c) ==
    /\ producer' = p /\ consumer' = c
    /\ UNCHANGED <<head, tail, slots, sealed, op, sent, received>>

assign_channel(p, c) ==
    /\ ~sealed
    /\ producer' = p /\ consumer' = c
    /\ UNCHANGED <<head, tail, slots, sealed, op, sent, received>>

seal_channels ==
    /\ ~sealed
    /\ sealed' = TRUE
    /\ UNCHANGED <<head, tail, slots, producer, consumer, op, sent, received>>

can_send(t) == producer = t
can_recv(t) == consumer = t

(***************************************************************************)
(* The ring.                                                               *)
(***************************************************************************)
\* Variant: the index is not reduced to a slot.
next_index_unreduced(i) == (i + 1) % 65536

\* wrapping_add(1) of a u16, modulo the number of slots.
next_index(i) == ((i + 1) % 65536) % IPC_CHANNEL_SLOTS

\* Variant: off by one.
is_full_early == next_index(next_index(head)) = tail

is_full == next_index(head) = tail

is_empty == tail = head

len == IF head >= tail THEN head - tail ELSE IPC_CHANNEL_SLOTS - tail + head

\* A system call comes from a running task, and no task runs before the boot has
\* sealed the channels.  send loads head, which only the producer writes, then
\* tail.
send_load(t, m) ==
    /\ sealed /\ can_send(t) /\ op[t] = Idle
    /\ IF is_full
       THEN sent' = "BufferFull" /\ UNCHANGED op
       ELSE op' = [op EXCEPT ![t] = [at |-> "write", i |-> head, msg |-> m]] /\ UNCHANGED sent
    /\ UNCHANGED <<head, tail, slots, producer, consumer, sealed, received>>

send_write(t) ==
    /\ op[t].at = "write"
    /\ slots' = [slots EXCEPT ![op[t].i] = op[t].msg]
    /\ op' = [op EXCEPT ![t].at = "publish"]
    /\ UNCHANGED <<head, tail, producer, consumer, sealed, sent, received>>

send_publish(t) ==
    /\ op[t].at = "publish"
    /\ head' = next_index(op[t].i)
    /\ op' = [op EXCEPT ![t] = Idle]
    /\ sent' = "Ok"
    /\ UNCHANGED <<tail, slots, producer, consumer, sealed, received>>

\* recv loads tail, which only the consumer writes, then head.
recv_load(t) ==
    /\ sealed /\ can_recv(t) /\ op[t] = Idle
    /\ IF is_empty
       THEN received' = None /\ UNCHANGED op
       ELSE op' = [op EXCEPT ![t] = [at |-> "read", i |-> tail, msg |-> None]] /\ UNCHANGED received
    /\ UNCHANGED <<head, tail, slots, producer, consumer, sealed, sent>>

recv_read(t) ==
    /\ op[t].at = "read"
    /\ op' = [op EXCEPT ![t].at = "advance", ![t].msg = slots[op[t].i]]
    /\ UNCHANGED <<head, tail, slots, producer, consumer, sealed, sent, received>>

recv_advance(t) ==
    /\ op[t].at = "advance"
    /\ tail' = next_index(op[t].i)
    /\ received' = op[t].msg
    /\ op' = [op EXCEPT ![t] = Idle]
    /\ UNCHANGED <<head, slots, producer, consumer, sealed, sent>>

Send(t) == (\E m \in Messages : send_load(t, m)) \/ send_write(t) \/ send_publish(t)

Recv(t) == recv_load(t) \/ recv_read(t) \/ recv_advance(t)

Next ==
    \/ \E p, c \in Tasks : assign_channel(p, c)
    \/ seal_channels
    \/ \E t \in Tasks : Send(t) \/ Recv(t)

Spec == Init /\ [][Next]_vars

(***************************************************************************)
(* Properties.                                                             *)
(***************************************************************************)
\* The indices, reduced after the u16 addition, always name a slot, those that
\* send and recv hold in locals included.
TypeOK ==
    /\ head \in Index /\ tail \in Index
    /\ slots \in [Index -> Messages \cup {None}]
    /\ producer \in Tasks \cup {CHANNEL_UNASSIGNED} /\ consumer \in Tasks \cup {CHANNEL_UNASSIGNED}
    /\ sealed \in BOOLEAN
    /\ op \in [Tasks -> [at : {"idle", "write", "publish", "read", "advance"}, i : Index,
                         msg : Messages \cup {None}]]
    /\ sent \in {"Ok", "BufferFull"}
    /\ received \in Messages \cup {None}

\* No slot is written while it is read, nor by two tasks at once: the SAFETY
\* comments of send and recv.
NoSlotRace ==
    \A t, u \in Tasks :
        t # u /\ op[t].at = "write" /\ op[u].at \in {"write", "publish", "read"} => op[t].i # op[u].i

\* The messages in the ring, oldest first.
Contents == [k \in 1 .. len |-> slots[(tail + k - 1) % IPC_CHANNEL_SLOTS]]

Fifo == INSTANCE FifoChannel WITH
            CAPACITY <- IPC_CHANNEL_SLOTS - 1, queue <- Contents

\* The ring implements the queue: messages arrive once, unaltered and in order,
\* BufferFull is answered only to a full channel and None only by an empty one.
RefinesFifo == Fifo!FifoSpec

=============================================================================
