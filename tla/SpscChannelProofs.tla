------------------------- MODULE SpscChannelProofs -------------------------
(***************************************************************************)
(* Proofs about SpscChannel, for any number of tasks, messages and slots.  *)
(* First the arithmetic of the ring, then the inductive invariant: whoever *)
(* is inside send or recv is the owner, holds the current index, and the   *)
(* test that let it in still holds, although the other side moved on.      *)
(***************************************************************************)
EXTENDS SpscChannel, TLAPS

N == IPC_CHANNEL_SLOTS

\* The number of slots.
LEMMA SlotCount == N \in Nat /\ N > 0 /\ N < 65536
BY ChannelAssumption DEF N

\* The modulo of a number less than two turns of the ring.
LEMMA WrapOnce ==
    ASSUME NEW x \in Nat, x < N + N
    PROVE  x % N = IF x < N THEN x ELSE x - N
<1>1. CASE x < N
  BY <1>1, SlotCount
<1>2. CASE x >= N
  BY <1>2, SlotCount
<1> QED BY <1>1, <1>2, SlotCount

\* next_index on an index of the ring.
LEMMA NextIndex ==
    ASSUME NEW i \in Index
    PROVE  /\ next_index(i) \in Index
           /\ next_index(i) = IF i = N - 1 THEN 0 ELSE i + 1
<1>0. i \in Nat /\ i < N
  BY SlotCount DEF Index, N
<1>1. (i + 1) % 65536 = i + 1
  BY <1>0, SlotCount
<1>3. (i + 1) % N = IF i + 1 < N THEN i + 1 ELSE i + 1 - N
  BY <1>0, WrapOnce, SlotCount
<1> QED BY <1>0, <1>1, <1>3, SlotCount DEF next_index, Index, N

\* The ring as a function of its two indices and its slots.
Span(h, t) == IF h >= t THEN h - t ELSE N - t + h
Slot(t, k) == (t + k - 1) % N
Ring(h, t, s) == [k \in 1 .. Span(h, t) |-> s[Slot(t, k)]]

\* The slots from tail to head are distinct from head and from each other's
\* successor: the arithmetic of a ring that keeps one slot free.
LEMMA RingArithmetic ==
    ASSUME NEW h \in Index, NEW t \in Index
    PROVE  /\ Span(h, t) \in 0 .. N - 1
           /\ Span(h, t) = 0 <=> h = t
           /\ Span(h, t) = N - 1 <=> next_index(h) = t
           /\ \A k \in 1 .. Span(h, t) : Slot(t, k) \in Index /\ Slot(t, k) # h
           /\ Slot(t, Span(h, t) + 1) = h
           /\ next_index(h) # t => Span(next_index(h), t) = Span(h, t) + 1
           /\ h # t => Span(h, next_index(t)) = Span(h, t) - 1
           /\ h # t => Slot(t, 1) = t
           /\ \A k \in 1 .. Span(h, t) - 1 : Slot(next_index(t), k) = Slot(t, k + 1)
<1>0. h \in Nat /\ h < N /\ t \in Nat /\ t < N /\ N \in Nat /\ N > 0
  BY SlotCount DEF Index, N
<1>1. Span(h, t) \in 0 .. N - 1 /\ (Span(h, t) = 0 <=> h = t)
  BY <1>0 DEF Span
<1>2. next_index(h) = (IF h = N - 1 THEN 0 ELSE h + 1) /\ next_index(t) = (IF t = N - 1 THEN 0 ELSE t + 1)
  BY NextIndex
<1>3. Span(h, t) = N - 1 <=> next_index(h) = t
  BY <1>0, <1>2 DEF Span
<1>4. next_index(h) # t => Span(next_index(h), t) = Span(h, t) + 1
  BY <1>0, <1>2 DEF Span
<1>5. h # t => Span(h, next_index(t)) = Span(h, t) - 1
  BY <1>0, <1>2 DEF Span
<1>6. \A k \in 1 .. N : Slot(t, k) = IF t + k - 1 < N THEN t + k - 1 ELSE t + k - 1 - N
  <2> TAKE k \in 1 .. N
  <2> DEFINE x == t + k - 1
  <2>1. x \in Nat /\ x < N + N
    BY <1>0
  <2> HIDE DEF x
  <2>2. x % N = IF x < N THEN x ELSE x - N
    BY <2>1, WrapOnce
  <2> QED BY <1>0, <1>2, <2>2 DEF Slot, x
<1>7. \A k \in 1 .. Span(h, t) : Slot(t, k) \in Index /\ Slot(t, k) # h
  <2> TAKE k \in 1 .. Span(h, t)
  <2>1. k \in 1 .. N /\ k <= Span(h, t)
    BY <1>0, <1>1
  <2> QED BY <1>0, <1>6, <2>1 DEF Span, Index, N
<1>8. Slot(t, Span(h, t) + 1) = h
  <2>1. Span(h, t) + 1 \in 1 .. N
    BY <1>0, <1>1
  <2> QED BY <1>0, <1>6, <2>1 DEF Span
<1>9. h # t => Slot(t, 1) = t
  BY <1>0, <1>6
<1>10. \A k \in 1 .. N : Slot(next_index(t), k) =
          IF next_index(t) + k - 1 < N THEN next_index(t) + k - 1 ELSE next_index(t) + k - 1 - N
  <2> TAKE k \in 1 .. N
  <2> DEFINE x == next_index(t) + k - 1
  <2>1. x \in Nat /\ x < N + N
    BY <1>0, <1>2
  <2> HIDE DEF x
  <2>2. x % N = IF x < N THEN x ELSE x - N
    BY <2>1, WrapOnce
  <2> QED BY <1>0, <1>2, <2>2 DEF Slot, x
<1>11. \A k \in 1 .. Span(h, t) - 1 : Slot(next_index(t), k) = Slot(t, k + 1)
  <2> TAKE k \in 1 .. Span(h, t) - 1
  <2>1. k \in 1 .. N /\ k + 1 \in 1 .. N
    BY <1>0, <1>1
  <2> QED BY <1>0, <1>2, <1>6, <1>10, <2>1
<1> QED BY <1>1, <1>3, <1>4, <1>5, <1>7, <1>8, <1>9, <1>11

\* The ring is a sequence.
LEMMA RingSeq ==
    ASSUME NEW h \in Index, NEW t \in Index, NEW S, NEW s \in [Index -> S]
    PROVE  Ring(h, t, s) \in Seq(S) /\ Len(Ring(h, t, s)) = Span(h, t)
<1>1. Span(h, t) \in Nat /\ \A k \in 1 .. Span(h, t) : s[Slot(t, k)] \in S
  BY RingArithmetic, SlotCount
<1>2. Ring(h, t, s) \in [1 .. Span(h, t) -> S]
  BY <1>1 DEF Ring
<1> QED BY <1>1, <1>2 DEF Ring

\* Publishing head appends the message in the slot at head.
LEMMA RingPush ==
    ASSUME NEW h \in Index, NEW t \in Index, NEW S, NEW s \in [Index -> S], next_index(h) # t
    PROVE  Ring(next_index(h), t, s) = Append(Ring(h, t, s), s[h])
<1>1. Span(next_index(h), t) = Span(h, t) + 1 /\ Slot(t, Span(h, t) + 1) = h /\ Span(h, t) \in Nat
  BY RingArithmetic, SlotCount
<1>2. Ring(h, t, s) \in Seq(S) /\ Len(Ring(h, t, s)) = Span(h, t)
  BY RingSeq
<1>3. next_index(h) \in Index /\ s[h] \in S
  BY NextIndex
<1>4. Ring(next_index(h), t, s) \in Seq(S) /\ Len(Ring(next_index(h), t, s)) = Span(h, t) + 1
  BY <1>1, <1>3, RingSeq
<1>5. Append(Ring(h, t, s), s[h]) \in Seq(S) /\ Len(Append(Ring(h, t, s), s[h])) = Span(h, t) + 1
  BY <1>2, <1>3
<1>6. \A k \in 1 .. Span(h, t) + 1 : Ring(next_index(h), t, s)[k] = Append(Ring(h, t, s), s[h])[k]
  <2> TAKE k \in 1 .. Span(h, t) + 1
  <2>1. Ring(next_index(h), t, s)[k] = s[Slot(t, k)]
    BY <1>1 DEF Ring
  <2>2. CASE k \in 1 .. Span(h, t)
    BY <1>1, <1>2, <1>3, <2>1, <2>2 DEF Ring
  <2>3. CASE k = Span(h, t) + 1
    BY <1>1, <1>2, <1>3, <2>1, <2>3
  <2>4. k \in 1 .. Span(h, t) \/ k = Span(h, t) + 1
    BY <1>1
  <2> QED BY <2>2, <2>3, <2>4
<1> QED BY <1>4, <1>5, <1>6

\* Advancing tail removes the message in the slot at tail.
LEMMA RingPop ==
    ASSUME NEW h \in Index, NEW t \in Index, NEW S, NEW s \in [Index -> S], h # t
    PROVE  /\ Ring(h, t, s) # <<>> /\ Head(Ring(h, t, s)) = s[t]
           /\ Ring(h, next_index(t), s) = Tail(Ring(h, t, s))
<1>1. /\ Span(h, next_index(t)) = Span(h, t) - 1 /\ Slot(t, 1) = t /\ Span(h, t) \in Nat
      /\ Span(h, t) >= 1 /\ \A k \in 1 .. Span(h, t) - 1 : Slot(next_index(t), k) = Slot(t, k + 1)
  BY RingArithmetic, SlotCount
<1>2. Ring(h, t, s) \in Seq(S) /\ Len(Ring(h, t, s)) = Span(h, t)
  BY RingSeq
<1>3. Ring(h, t, s) # <<>> /\ Head(Ring(h, t, s)) = s[t]
  BY <1>1, <1>2 DEF Ring
<1>4. Ring(h, next_index(t), s) \in Seq(S) /\ Len(Ring(h, next_index(t), s)) = Span(h, t) - 1
  BY <1>1, NextIndex, RingSeq
<1>5. Tail(Ring(h, t, s)) \in Seq(S) /\ Len(Tail(Ring(h, t, s))) = Span(h, t) - 1
  BY <1>1, <1>2, <1>3
<1>6. \A k \in 1 .. Span(h, t) - 1 : Ring(h, next_index(t), s)[k] = Tail(Ring(h, t, s))[k]
  <2> TAKE k \in 1 .. Span(h, t) - 1
  <2>1. Ring(h, next_index(t), s)[k] = s[Slot(t, k + 1)]
    BY <1>1 DEF Ring
  <2>2. Tail(Ring(h, t, s))[k] = Ring(h, t, s)[k + 1]
    BY <1>1, <1>2, <1>3
  <2>3. Ring(h, t, s)[k + 1] = s[Slot(t, k + 1)]
    BY <1>1 DEF Ring
  <2> QED BY <2>1, <2>2, <2>3
<1> QED BY <1>3, <1>4, <1>5, <1>6

\* Writing the free slot changes nothing in the ring.
LEMMA RingWrite ==
    ASSUME NEW h \in Index, NEW t \in Index, NEW s, NEW s2, \A i \in Index \ {h} : s2[i] = s[i]
    PROVE  Ring(h, t, s2) = Ring(h, t, s)
BY RingArithmetic DEF Ring

Cell == Messages \cup {None}

Ops == [at : {"idle", "write", "publish", "read", "advance"}, i : Index, msg : Cell]

Sending(t) ==
    op[t].at \in {"write", "publish"} =>
        /\ sealed /\ can_send(t) /\ op[t].i = head /\ ~is_full /\ op[t].msg \in Messages
        /\ op[t].at = "publish" => slots[head] = op[t].msg

Receiving(t) ==
    op[t].at \in {"read", "advance"} =>
        /\ sealed /\ can_recv(t) /\ op[t].i = tail /\ ~is_empty
        /\ op[t].at = "advance" => op[t].msg = slots[tail]

IInv == TypeOK /\ \A t \in Tasks : Sending(t) /\ Receiving(t)

\* The channel starts unowned and empty.
LEMMA InitIInv == Init => IInv
<1>1. 0 \in Index
  BY SlotCount DEF Index, N
<1>2. ASSUME Init PROVE Idle \in Ops /\ \A t \in Tasks : op[t] = Idle /\ op[t].at = "idle"
  BY <1>1, <1>2 DEF Init, Idle, Ops, Cell
<1>3. ASSUME Init PROVE TypeOK
  BY <1>1, <1>2, <1>3 DEF Init, TypeOK, Ops, Cell
<1> QED BY <1>2, <1>3 DEF IInv, Sending, Receiving

\* Ownership changes only before anybody can be inside send or recv.
LEMMA OwnerStep ==
    ASSUME IInv, (\E p, c \in Tasks : assign_channel(p, c)) \/ seal_channels
    PROVE  IInv'
<1>1. ~sealed /\ UNCHANGED <<head, tail, slots, op, sent, received>>
  BY DEF assign_channel, seal_channels
<1>2. TypeOK'
  BY <1>1 DEF IInv, TypeOK, assign_channel, seal_channels
<1>3. \A t \in Tasks : op[t].at \notin {"write", "publish", "read", "advance"}
  BY <1>1 DEF IInv, Sending, Receiving, can_send, can_recv
<1> QED BY <1>1, <1>2, <1>3 DEF IInv, Sending, Receiving

\* The steps of send.
LEMMA SendStep ==
    ASSUME IInv, NEW t \in Tasks, Send(t)
    PROVE  IInv'
<1> USE DEF Cell, Ops
<1>1. ASSUME NEW m \in Messages, send_load(t, m)
      PROVE  IInv'
  <2>1. UNCHANGED <<head, tail, slots, producer, consumer, sealed, received>> /\ sealed /\ can_send(t)
    BY <1>1 DEF send_load
  <2>2. CASE is_full
    BY <1>1, <2>1, <2>2 DEF send_load, IInv, TypeOK, Sending, Receiving, can_send, can_recv,
                            is_full, is_empty
  <2>3. CASE ~is_full
    <3> DEFINE o == [at |-> "write", i |-> head, msg |-> m]
    <3>1. o \in Ops
      BY DEF IInv, TypeOK
    <3>2. op' = [op EXCEPT ![t] = o] /\ UNCHANGED sent
      BY <1>1, <2>3 DEF send_load
    <3>3. TypeOK'
      BY <2>1, <3>1, <3>2 DEF IInv, TypeOK
    <3> QED BY <2>1, <2>3, <3>2, <3>3 DEF IInv, TypeOK, Sending, Receiving, can_send, can_recv,
                                          is_full, is_empty
  <2> QED BY <2>2, <2>3
<1>2. CASE send_write(t)
  <2>1. /\ UNCHANGED <<head, tail, producer, consumer, sealed, sent, received>>
        /\ slots' = [slots EXCEPT ![head] = op[t].msg] /\ op' = [op EXCEPT ![t].at = "publish"]
        /\ sealed /\ can_send(t) /\ op[t].i = head /\ ~is_full /\ op[t].msg \in Messages
    BY <1>2 DEF send_write, IInv, Sending
  <2>2. TypeOK'
    BY <2>1 DEF IInv, TypeOK
  <2>3. \A u \in Tasks : Sending(u)'
    BY <2>1, <2>2 DEF IInv, TypeOK, Sending, can_send, is_full
  <2>4. \A u \in Tasks : Receiving(u)'
    BY <2>1, <2>2, <1>2 DEF IInv, TypeOK, Receiving, can_recv, is_empty, send_write
  <2> QED BY <2>2, <2>3, <2>4 DEF IInv
<1>3. CASE send_publish(t)
  <2>1. /\ UNCHANGED <<tail, slots, producer, consumer, sealed, received>>
        /\ head' = next_index(head) /\ op' = [op EXCEPT ![t] = Idle] /\ sent' = "Ok"
        /\ sealed /\ can_send(t) /\ op[t].i = head /\ ~is_full
    BY <1>3 DEF send_publish, IInv, Sending
  <2>2. head' \in Index /\ Idle \in Ops
    BY <2>1, NextIndex, SlotCount DEF IInv, TypeOK, Idle, Index, N
  <2>3. TypeOK'
    BY <2>1, <2>2 DEF IInv, TypeOK
  <2>4. \A u \in Tasks : Sending(u)'
    BY <2>1 DEF IInv, TypeOK, Sending, can_send, Idle
  <2>5. \A u \in Tasks : Receiving(u)'
    BY <2>1 DEF IInv, TypeOK, Receiving, can_recv, is_empty, is_full, Idle
  <2> QED BY <2>3, <2>4, <2>5 DEF IInv
<1> QED BY <1>1, <1>2, <1>3 DEF Send

\* The steps of recv.
LEMMA RecvStep ==
    ASSUME IInv, NEW t \in Tasks, Recv(t)
    PROVE  IInv'
<1> USE DEF Cell, Ops
<1>1. CASE recv_load(t)
  <2>1. UNCHANGED <<head, tail, slots, producer, consumer, sealed, sent>> /\ sealed /\ can_recv(t)
    BY <1>1 DEF recv_load
  <2>2. CASE is_empty
    BY <1>1, <2>1, <2>2 DEF recv_load, IInv, TypeOK, Sending, Receiving, can_send, can_recv,
                            is_full, is_empty
  <2>3. CASE ~is_empty
    <3> DEFINE o == [at |-> "read", i |-> tail, msg |-> None]
    <3>1. o \in Ops
      BY DEF IInv, TypeOK
    <3>2. op' = [op EXCEPT ![t] = o] /\ UNCHANGED received
      BY <1>1, <2>3 DEF recv_load
    <3>3. TypeOK'
      BY <2>1, <3>1, <3>2 DEF IInv, TypeOK
    <3> QED BY <2>1, <2>3, <3>2, <3>3 DEF IInv, TypeOK, Sending, Receiving, can_send, can_recv,
                                          is_full, is_empty
  <2> QED BY <2>2, <2>3
<1>2. CASE recv_read(t)
  <2> DEFINE o == [op[t] EXCEPT !.at = "advance", !.msg = slots[tail]]
  <2>1. /\ UNCHANGED <<head, tail, slots, producer, consumer, sealed, sent, received>>
        /\ sealed /\ can_recv(t) /\ op[t].i = tail /\ ~is_empty
        /\ op' = [op EXCEPT ![t] = o]
    BY <1>2 DEF recv_read, IInv, TypeOK, Receiving
  <2>2. o \in Ops /\ o.at = "advance" /\ o.i = tail /\ o.msg = slots[tail]
    BY <2>1 DEF IInv, TypeOK
  <2> HIDE DEF o
  <2>3. TypeOK'
    BY <2>1, <2>2 DEF IInv, TypeOK
  <2>4. \A u \in Tasks : Sending(u)' /\ Receiving(u)'
    BY <2>1, <2>2 DEF IInv, TypeOK, Sending, Receiving, can_send, can_recv, is_full, is_empty
  <2> QED BY <2>3, <2>4 DEF IInv
<1>3. CASE recv_advance(t)
  <2>1. /\ UNCHANGED <<head, slots, producer, consumer, sealed, sent>>
        /\ tail' = next_index(tail) /\ op' = [op EXCEPT ![t] = Idle] /\ received' = op[t].msg
        /\ sealed /\ can_recv(t) /\ op[t].i = tail /\ ~is_empty
    BY <1>3 DEF recv_advance, IInv, Receiving
  <2>2. tail' \in Index /\ Idle \in Ops
    BY <2>1, NextIndex, SlotCount DEF IInv, TypeOK, Idle, Index, N
  <2>3. TypeOK'
    BY <2>1, <2>2 DEF IInv, TypeOK
  <2>4. next_index(head) # next_index(tail)
    <3>1. head \in Index /\ tail \in Index /\ head # tail
      BY <2>1 DEF IInv, TypeOK, is_empty
    <3>2. /\ next_index(head) = IF head = N - 1 THEN 0 ELSE head + 1
          /\ next_index(tail) = IF tail = N - 1 THEN 0 ELSE tail + 1
      BY <3>1, NextIndex
    <3> QED BY <3>1, <3>2, SlotCount DEF Index, N
  <2>5. \A u \in Tasks : Sending(u)'
    <3> TAKE u \in Tasks
    <3>1. CASE u = t
      BY <2>1, <3>1 DEF IInv, TypeOK, Sending, Idle
    <3>2. CASE u # t
      <4>1. op'[u] = op[u]
        BY <2>1, <3>2 DEF IInv, TypeOK
      <4>2. ~is_full'
        BY <2>1, <2>4 DEF is_full
      <4> QED BY <2>1, <4>1, <4>2 DEF IInv, Sending, can_send
    <3> QED BY <3>1, <3>2
  <2>6. \A u \in Tasks : Receiving(u)'
    BY <2>1 DEF IInv, TypeOK, Receiving, can_recv, Idle
  <2> QED BY <2>3, <2>5, <2>6 DEF IInv
<1> QED BY <1>1, <1>2, <1>3 DEF Recv

\* Every step preserves the invariant.
LEMMA NextStep == IInv /\ [Next]_vars => IInv'
<1> SUFFICES ASSUME IInv, [Next]_vars PROVE IInv' OBVIOUS
<1>1. CASE UNCHANGED vars
  BY <1>1 DEF vars, IInv, TypeOK, Sending, Receiving, can_send, can_recv, is_full, is_empty
<1>2. CASE Next
  BY <1>2, OwnerStep, SendStep, RecvStep DEF Next
<1> QED BY <1>1, <1>2

\* The invariant holds of every behaviour.
THEOREM ChannelInvariance == Spec => []IInv
BY InitIInv, NextStep, PTL DEF Spec

\* The indices, the slots and the locals of send and recv keep their ranges.
THEOREM ChannelTypes == Spec => []TypeOK
<1>1. IInv => TypeOK BY DEF IInv
<1> QED BY <1>1, ChannelInvariance, PTL

\* send never writes the slot that recv is reading, and the seal keeps a second
\* producer out.
THEOREM NoRace == Spec => []NoSlotRace
<1>1. IInv => NoSlotRace
  BY DEF IInv, Sending, Receiving, NoSlotRace, can_send, is_empty
<1> QED BY <1>1, ChannelInvariance, PTL

\* The contents are the ring between the two indices.
LEMMA ContentsIsRing ==
    ASSUME TypeOK
    PROVE  /\ Contents = Ring(head, tail, slots) /\ Contents \in Seq(Cell)
           /\ Len(Contents) = Span(head, tail)
<1>1. Contents = Ring(head, tail, slots)
  BY DEF Contents, Ring, Slot, Span, len, N
<1> QED BY <1>1, RingSeq DEF TypeOK, Cell

\* A step of send is a step of the queue or changes nothing of it.
LEMMA SendRefines ==
    ASSUME IInv, IInv', NEW t \in Tasks, Send(t)
    PROVE  [Fifo!FifoNext]_(Fifo!fifoVars)
<1>1. /\ Contents = Ring(head, tail, slots) /\ Contents' = Ring(head', tail', slots')
      /\ Len(Contents) = Span(head, tail) /\ Contents \in Seq(Cell)
  <2>1. Contents' = Ring(head', tail', slots')
    BY DEF Contents, Ring, Slot, Span, len, N
  <2> QED BY <2>1, ContentsIsRing DEF IInv
<1>2. head \in Index /\ tail \in Index /\ slots \in [Index -> Cell]
  BY DEF IInv, TypeOK, Cell
<1>3. ASSUME NEW m \in Messages, send_load(t, m)
      PROVE  Fifo!FifoFull \/ UNCHANGED Fifo!fifoVars
  <2>1. Contents' = Contents /\ received' = received
    BY <1>1, <1>3 DEF send_load
  <2>2. is_full => Len(Contents) = IPC_CHANNEL_SLOTS - 1
    BY <1>1, <1>2, RingArithmetic DEF is_full, N
  <2> QED BY <1>3, <2>1, <2>2 DEF send_load, Fifo!FifoFull, Fifo!fifoVars
<1>4. CASE send_write(t)
  <2>1. slots' = [slots EXCEPT ![head] = op[t].msg] /\ UNCHANGED <<head, tail, sent, received>>
    BY <1>4 DEF send_write, IInv, Sending
  <2>2. \A i \in Index \ {head} : slots'[i] = slots[i]
    BY <1>2, <2>1
  <2>3. Contents' = Contents
    <3>1. Ring(head, tail, slots') = Ring(head, tail, slots)
      BY <1>2, <2>2, RingWrite
    <3> QED BY <1>1, <2>1, <3>1
  <2> QED BY <2>1, <2>3 DEF Fifo!fifoVars
<1>5. CASE send_publish(t)
  <2>1. /\ head' = next_index(head) /\ UNCHANGED <<tail, slots, received>> /\ sent' = "Ok"
        /\ next_index(head) # tail /\ slots[head] \in Messages
    BY <1>5 DEF send_publish, IInv, Sending, is_full
  <2>2. Contents' = Append(Contents, slots[head])
    BY <1>1, <1>2, <2>1, RingPush
  <2>3. Len(Contents) < IPC_CHANNEL_SLOTS - 1
    <3>1. Span(head, tail) \in 0 .. N - 1 /\ Span(head, tail) # N - 1
      BY <1>2, <2>1, RingArithmetic
    <3> QED BY <1>1, <3>1, SlotCount DEF N
  <2>4. Fifo!FifoSend(slots[head])
    BY <2>1, <2>2, <2>3 DEF Fifo!FifoSend
  <2> QED BY <2>1, <2>4 DEF Fifo!FifoNext
<1> QED BY <1>3, <1>4, <1>5 DEF Send, Fifo!FifoNext

\* A step of recv is a step of the queue or changes nothing of it.
LEMMA RecvRefines ==
    ASSUME IInv, IInv', NEW t \in Tasks, Recv(t)
    PROVE  [Fifo!FifoNext]_(Fifo!fifoVars)
<1>1. /\ Contents = Ring(head, tail, slots) /\ Contents' = Ring(head', tail', slots')
      /\ Len(Contents) = Span(head, tail) /\ Contents \in Seq(Cell)
  <2>1. Contents' = Ring(head', tail', slots')
    BY DEF Contents, Ring, Slot, Span, len, N
  <2> QED BY <2>1, ContentsIsRing DEF IInv
<1>2. head \in Index /\ tail \in Index /\ slots \in [Index -> Cell]
  BY DEF IInv, TypeOK, Cell
<1>3. CASE recv_load(t)
  <2>1. Contents' = Contents /\ sent' = sent
    BY <1>1, <1>3 DEF recv_load
  <2>2. is_empty => Contents = <<>>
    BY <1>1, <1>2, RingArithmetic DEF is_empty
  <2> QED BY <1>3, <2>1, <2>2 DEF recv_load, Fifo!FifoEmpty, Fifo!fifoVars, Fifo!FifoNext
<1>4. CASE recv_read(t)
  BY <1>1, <1>4 DEF recv_read, Fifo!fifoVars
<1>5. CASE recv_advance(t)
  <2>1. /\ tail' = next_index(tail) /\ UNCHANGED <<head, slots, sent>>
        /\ received' = slots[tail] /\ head # tail
    BY <1>5 DEF recv_advance, IInv, Receiving, is_empty
  <2>2. Contents # <<>> /\ Head(Contents) = slots[tail] /\ Contents' = Tail(Contents)
    BY <1>1, <1>2, <2>1, RingPop
  <2> QED BY <2>1, <2>2 DEF Fifo!FifoRecv, Fifo!FifoNext
<1> QED BY <1>3, <1>4, <1>5 DEF Recv

\* The ring buffer with its ownership implements the bounded queue: every
\* message is received once, unaltered and in the order of sending, and the
\* answers BufferFull and None are true when they are given.
THEOREM RingImplementsFifo == Spec => RefinesFifo
<1>1. Init => Fifo!FifoInit
  <2> SUFFICES ASSUME Init PROVE Contents = <<>>
    BY DEF Init, Fifo!FifoInit
  <2>1. IInv /\ head = tail
    BY InitIInv DEF Init
  <2> QED BY <2>1, ContentsIsRing, RingArithmetic DEF IInv, TypeOK
<1>2. IInv /\ IInv' /\ [Next]_vars => [Fifo!FifoNext]_(Fifo!fifoVars)
  <2> SUFFICES ASSUME IInv, IInv', [Next]_vars PROVE [Fifo!FifoNext]_(Fifo!fifoVars)
    OBVIOUS
  <2>1. CASE UNCHANGED vars
    BY <2>1 DEF vars, Fifo!fifoVars, Contents, len
  <2>2. CASE (\E p, c \in Tasks : assign_channel(p, c)) \/ seal_channels
    BY <2>2 DEF assign_channel, seal_channels, Fifo!fifoVars, Contents, len
  <2>3. CASE \E t \in Tasks : Send(t) \/ Recv(t)
    BY <2>3, SendRefines, RecvRefines
  <2> QED BY <2>1, <2>2, <2>3 DEF Next
<1> QED BY <1>1, <1>2, ChannelInvariance, PTL DEF Spec, RefinesFifo, Fifo!FifoSpec

=============================================================================
