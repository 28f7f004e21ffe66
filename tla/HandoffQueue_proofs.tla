------------------------ MODULE HandoffQueue_proofs ------------------------
(* The proof that the inbox implements a bounded queue of commands. *)
EXTENDS Handoff_proofs, FiniteSetTheorems, SequenceTheorems

(* The commands published after the last one taken. *)
HoPublished(q, log, last) == [k \in 1 .. q.next_order - 1 - last |-> log[last + k]]

(* The rows hold the published commands: the command of the ready row with  *)
(* an order is the one published under that order.                          *)
LEMMA RowsHoldLog ==
  ASSUME NEW q, NEW log, NEW last \in Nat, q.next_order \in Nat,
         HoReadyOrders(q) = last + 1 .. q.next_order - 1,
         \A i \in HoReady(q) : q.rows[i].command = log[q.rows[i].order]
  PROVE  [k \in 1 .. q.next_order - 1 - last |->
            q.rows[CHOOSE i \in HoReady(q) : q.rows[i].order = last + k].command]
         = HoPublished(q, log, last)
<1>1. ASSUME NEW k \in 1 .. q.next_order - 1 - last
      PROVE  q.rows[CHOOSE i \in HoReady(q) : q.rows[i].order = last + k].command = log[last + k]
  <2>1. last + k \in last + 1 .. q.next_order - 1
    OBVIOUS
  <2>2. \E i \in HoReady(q) : q.rows[i].order = last + k
    BY <2>1, ReadyOrders
  <2>3. QED
    BY <2>2
<1>2. QED
  BY <1>1 DEF HoPublished

LEMMA WaitingNow ==
  ASSUME HoInv
  PROVE  HoWaiting = HoPublished(ho, hoLog, hoLast)
<1>1. \A i \in HoReady(ho) : ho.rows[i].command = hoLog[ho.rows[i].order]
  BY DEF HoInv, HoCommandIntact, HoReady
<1>2. HoReadyOrders(ho) = hoLast + 1 .. ho.next_order - 1
  BY DEF HoInv, HoFifo
<1>3. QED
  BY <1>1, <1>2, HoTypes, RowsHoldLog DEF HoWaiting

LEMMA WaitingNext ==
  ASSUME HoInv'
  PROVE  HoWaiting' = HoPublished(ho', hoLog', hoLast')
<1>1. \A i \in HoReady(ho') : ho'.rows[i].command = hoLog'[ho'.rows[i].order]
  BY DEF HoInv, HoCommandIntact, HoReady
<1>2. HoReadyOrders(ho') = hoLast' + 1 .. ho'.next_order - 1
  BY DEF HoInv, HoFifo
<1>3. hoLast' \in Nat /\ ho'.next_order \in Nat
  BY DEF HoInv, HoTypeOK, HoInbox
<1>4. QED
  BY <1>1, <1>2, <1>3, RowsHoldLog DEF HoWaiting

(* As long as one row is not ready, fewer commands wait than there are rows. *)
LEMMA RoomLeft ==
  ASSUME HoInv, NEW r \in HoSlot, ho.rows[r].state # "READY"
  PROVE  ho.next_order - 1 - hoLast < HoCapacity
<1> DEFINE S == hoLast + 1 .. ho.next_order - 1
           T == HoSlot \ {r}
           f == [o \in S |-> CHOOSE i \in HoReady(ho) : ho.rows[i].order = o]
<1>1. hoLast \in Nat /\ ho.next_order \in Nat \ {0} /\ hoLast < ho.next_order
  BY HoTypes
<1>2. IsFiniteSet(S) /\ Cardinality(S) = ho.next_order - 1 - hoLast
  <2>1. hoLast + 1 \in Int /\ ho.next_order - 1 \in Int
    BY <1>1
  <2>2. /\ IsFiniteSet(S)
        /\ Cardinality(S) = IF hoLast + 1 > ho.next_order - 1 THEN 0
                            ELSE (ho.next_order - 1) - (hoLast + 1) + 1
    BY <2>1, FS_Interval
  <2> HIDE DEF S
  <2>3. QED
    BY <1>1, <2>2
<1>3. IsFiniteSet(HoSlot) /\ Cardinality(HoSlot) = HoCapacity
  <2>1. 0 \in Int /\ HoCapacity - 1 \in Int
    BY HoConstants
  <2>2. QED
    BY <2>1, FS_Interval, HoConstants DEF HoSlot
<1>4. IsFiniteSet(T) /\ Cardinality(T) = HoCapacity - 1
  BY <1>3, FS_RemoveElement
<1>5. ASSUME NEW o \in S
      PROVE  f[o] \in T /\ ho.rows[f[o]].order = o
  <2>1. HoReadyOrders(ho) = S
    BY DEF HoInv, HoFifo
  <2>2. \E i \in HoReady(ho) : ho.rows[i].order = o
    BY <2>1, ReadyOrders
  <2>3. f[o] \in HoReady(ho) /\ ho.rows[f[o]].order = o
    BY <2>2
  <2>4. QED
    BY <2>3 DEF HoReady
<1>6. f \in [S -> T]
  BY <1>5
<1> HIDE DEF S, T, f
<1>7. ~(\E x, y \in S : x # y /\ f[x] = f[y])
  BY <1>5
<1>8. ~(Cardinality(T) < Cardinality(S))
  BY <1>2, <1>4, <1>6, <1>7, FS_PigeonHole
<1>9. QED
  BY <1>1, <1>2, <1>4, <1>8, HoConstants

LEMMA QueueCreated ==
  ASSUME NEW q, q.next_order = 1, NEW log
  PROVE  HoPublished(q, log, 0) = <<>>
<1>1. HoPublished(q, log, 0) = [k \in 1 .. 0 |-> log[0 + k]]
  BY DEF HoPublished
<1>2. QED
  BY <1>1

(* A publication appends to what waits. *)
LEMMA QueueAppends ==
  ASSUME NEW q, NEW p, NEW log \in Seq(HoCommand), NEW last \in Nat, NEW c \in HoCommand,
         q.next_order \in Nat \ {0}, last < q.next_order, Len(log) = q.next_order - 1,
         p.next_order = q.next_order + 1
  PROVE  /\ HoPublished(q, log, last) \in Seq(HoCommand)
         /\ Len(HoPublished(q, log, last)) = q.next_order - 1 - last
         /\ HoPublished(p, Append(log, c), last) = Append(HoPublished(q, log, last), c)
<1> DEFINE n == q.next_order - 1 - last
           w == HoPublished(q, log, last)
           v == HoPublished(p, Append(log, c), last)
<1>1. n \in Nat /\ last + n = Len(log) /\ p.next_order - 1 - last = n + 1
  OBVIOUS
<1>2. \A k \in 1 .. n : last + k \in 1 .. Len(log)
  BY <1>1
<1>3. w = [k \in 1 .. n |-> log[last + k]]
  BY DEF HoPublished
<1>4. \A k \in 1 .. n : log[last + k] \in HoCommand
  BY <1>2
<1> HIDE DEF n, w
<1>5. w \in Seq(HoCommand) /\ Len(w) = n
  <2>1. w \in [1 .. n -> HoCommand]
    BY <1>3, <1>4
  <2>2. QED
    BY <1>1, <2>1
<1>6. v = [k \in 1 .. n + 1 |-> Append(log, c)[last + k]]
  BY <1>1 DEF HoPublished
<1>7. /\ Append(w, c) \in Seq(HoCommand) /\ Len(Append(w, c)) = n + 1
      /\ \A k \in 1 .. n : Append(w, c)[k] = w[k]
      /\ Append(w, c)[n + 1] = c
  BY <1>5
<1>8. \A k \in 1 .. n + 1 : Append(log, c)[last + k] = Append(w, c)[k]
  <2>0. /\ \A j \in 1 .. Len(log) : Append(log, c)[j] = log[j]
        /\ Append(log, c)[Len(log) + 1] = c
    OBVIOUS
  <2> SUFFICES ASSUME NEW k \in 1 .. n + 1
               PROVE  Append(log, c)[last + k] = Append(w, c)[k]
    OBVIOUS
  <2>1. CASE k = n + 1
    <3>1. last + k = Len(log) + 1
      BY <1>1, <2>1
    <3>2. QED
      BY <1>7, <2>0, <2>1, <3>1
  <2>2. CASE k # n + 1
    <3>1. k \in 1 .. n /\ last + k \in 1 .. Len(log)
      BY <1>1, <1>2, <2>2
    <3>2. w[k] = log[last + k]
      BY <1>3, <3>1
    <3>3. QED
      BY <1>7, <2>0, <3>1, <3>2
  <2>3. QED
    BY <2>1, <2>2
<1>9. v = Append(w, c)
  <2>1. \A k \in 1 .. n + 1 : Append(w, c)[k] \in HoCommand
    BY <1>1, <1>7
  <2>2. v \in [1 .. n + 1 -> HoCommand] /\ \A k \in 1 .. n + 1 : v[k] = Append(w, c)[k]
    BY <1>6, <1>8, <2>1
  <2> HIDE DEF v
  <2>3. v \in Seq(HoCommand) /\ Len(v) = n + 1
    BY <1>1, <2>2
  <2>4. QED
    BY <1>7, <2>2, <2>3, SeqEqual
<1>10. QED
  BY <1>5, <1>9 DEF n, w

(* A function on 1 .. n is a sequence of length n. *)
LEMMA FunctionIsSequence ==
  ASSUME NEW S, NEW n \in Nat, NEW f \in [1 .. n -> S]
  PROVE  f \in Seq(S) /\ Len(f) = n
OBVIOUS

(* A command taken leaves the tail of what waits. *)
LEMMA QueueShrinks ==
  ASSUME NEW q, NEW p, NEW log, NEW last \in Nat,
         q.next_order \in Nat \ {0}, last + 1 < q.next_order, p.next_order = q.next_order
  PROVE  /\ HoPublished(q, log, last) # <<>>
         /\ HoPublished(p, log, last + 1) = Tail(HoPublished(q, log, last))
<1> DEFINE n == q.next_order - 1 - last
           w == HoPublished(q, log, last)
           v == HoPublished(p, log, last + 1)
<1>1. n \in Nat \ {0} /\ p.next_order - 1 - (last + 1) = n - 1
  OBVIOUS
<1>2. w = [k \in 1 .. n |-> log[last + k]]
  BY DEF HoPublished
<1>3. Len(w) = n /\ w # <<>>
  <2> HIDE DEF n, w, v
  <2>1. DOMAIN w = 1 .. n
    BY <1>2
  <2>2. w \in [1 .. n -> {log[last + k] : k \in 1 .. n}]
    BY <1>2
  <2>3. w \in Seq({log[last + k] : k \in 1 .. n}) /\ Len(w) = n
    BY <1>1, <2>2, FunctionIsSequence, Zenon
  <2>4. QED
    BY <1>1, <2>1, <2>3
<1>4. v = [k \in 1 .. n - 1 |-> log[(last + 1) + k]]
  BY <1>1 DEF HoPublished
<1>5. Tail(w) = [k \in 1 .. n - 1 |-> w[k + 1]]
  BY <1>1, <1>2, <1>3
<1>6. \A k \in 1 .. n - 1 : log[(last + 1) + k] = w[k + 1]
  BY <1>1, <1>2
<1>7. QED
  BY <1>3, <1>4, <1>5, <1>6

(* A step that publishes, takes and destroys nothing leaves the queue.      *)
LEMMA QueueIdle ==
  ASSUME HoInv, HoInv', ho'.next_order = ho.next_order, ho'.sealed = ho.sealed,
         ho'.alive = ho.alive, UNCHANGED <<hoLog, hoLast>>
  PROVE  UNCHANGED HoQueue!vars
<1>1. HoWaiting' = HoWaiting
  BY WaitingNow, WaitingNext DEF HoPublished
<1>2. QED
  BY <1>1 DEF HoQueue!vars

(* What abort and settle leave: everything but one row. *)
LEMMA QueueClears ==
  ASSUME HoInv, HoInv', NEW t \in HoTickets, NEW rc,
         ho' = ClearRow(ho, t, rc).q, UNCHANGED <<hoLog, hoLast>>
  PROVE  UNCHANGED HoQueue!vars
<1>1. ho \in HoInbox
  BY HoTypes
<1>2. /\ ho'.next_order = ho.next_order /\ ho'.sealed = ho.sealed
      /\ ho'.alive = ho.alive
  BY <1>1 DEF ClearRow, HoResult, HoInbox
<1>3. QED
  BY <1>2, QueueIdle

LEMMA QueuePublishes ==
  ASSUME HoInv, HoInv', NEW t \in HoTickets, NEW c \in HoCommand, HoPublish(t, c)
  PROVE  [HoQueue!Next]_(HoQueue!vars)
<1>1. /\ ho \in HoInbox /\ hoLast \in Nat /\ ho.next_order \in Nat \ {0}
      /\ hoLast < ho.next_order
      /\ hoLog \in Seq(HoCommand) /\ Len(hoLog) = ho.next_order - 1
  BY HoTypes
<1>2. CASE PublishCommandRc(ho, t, c) # "OK"
  <2>1. ho' = ho /\ UNCHANGED <<hoLog, hoLast>>
    BY <1>2 DEF HoPublish, tm_ho_publish, HoResult
  <2>2. QED
    BY <2>1, QueueIdle
<1>3. CASE PublishCommandRc(ho, t, c) = "OK"
  <2>1. /\ ho_valid_command(c) /\ ho.rows[t.slot].state = "RESERVED" /\ ~ho.sealed
    BY <1>3 DEF PublishCommandRc
  <2>2. t.slot \in HoSlot
    BY <1>1, TicketSlot
  <2>3. ho' = [ho EXCEPT !.rows[t.slot] = publish_row(@, c, ho.next_order),
                         !.next_order = @ + 1]
    BY <1>3 DEF HoPublish, tm_ho_publish, HoResult
  <2>4. /\ ho'.next_order = ho.next_order + 1 /\ ho'.sealed = ho.sealed
        /\ ho'.alive = ho.alive
    BY <1>1, <2>3 DEF HoInbox
  <2>5. ho.alive /\ hoLog' = Append(hoLog, c) /\ hoLast' = hoLast
    BY <1>3 DEF HoPublish
  <2>6. Len(HoWaiting) = ho.next_order - 1 - hoLast
    BY <1>1, <2>4, QueueAppends, WaitingNow
  <2>7. Len(HoWaiting) < HoCapacity
    BY <2>1, <2>2, <2>6, RoomLeft
  <2>8. HoWaiting' = Append(HoWaiting, c)
    BY <1>1, <2>4, <2>5, QueueAppends, WaitingNow, WaitingNext
  <2>9. HoQueue!Put(c)
    BY <2>1, <2>4, <2>5, <2>7, <2>8 DEF HoQueue!Put
  <2>10. QED
    BY <2>1, <2>9 DEF HoQueue!Next
<1>4. QED
  BY <1>2, <1>3

LEMMA QueueTakes ==
  ASSUME HoInv, HoInv', HoTake
  PROVE  [HoQueue!Next]_(HoQueue!vars)
<1>1. ho \in HoInbox /\ hoLast \in Nat /\ ho.next_order \in Nat \ {0}
  BY HoTypes
<1>2. CASE HoReady(ho) = {}
  <2>1. ho' = ho /\ UNCHANGED <<hoLog, hoLast>>
    BY <1>2 DEF HoTake, tm_ho_take, HoResult
  <2>2. QED
    BY <2>1, QueueIdle
<1>3. CASE HoReady(ho) # {}
  <2>1. /\ ho' = [ho EXCEPT !.rows[HoOldest(ho)] = take_row(@)]
        /\ hoLast' = ho.rows[HoOldest(ho)].order /\ hoLog' = hoLog /\ ho.alive
    BY <1>3 DEF HoTake, tm_ho_take, HoResult
  <2>2. hoLast' = hoLast + 1 /\ hoLast + 1 < ho.next_order
    BY <1>1, <1>3, <2>1, OldestIsNext
  <2>3. /\ ho'.next_order = ho.next_order /\ ho'.sealed = ho.sealed
        /\ ho'.alive = ho.alive
    BY <1>1, <2>1 DEF HoInbox
  <2>4. HoWaiting # <<>> /\ HoWaiting' = Tail(HoWaiting)
    <3>1. /\ HoPublished(ho, hoLog, hoLast) # <<>>
          /\ HoPublished(ho', hoLog, hoLast + 1) = Tail(HoPublished(ho, hoLog, hoLast))
      BY <1>1, <2>2, <2>3, QueueShrinks
    <3>2. HoWaiting' = HoPublished(ho', hoLog, hoLast + 1)
      BY <2>1, <2>2, WaitingNext
    <3>3. QED
      BY <3>1, <3>2, WaitingNow
  <2>5. HoQueue!Take
    BY <2>1, <2>3, <2>4 DEF HoQueue!Take
  <2>6. QED
    BY <2>5 DEF HoQueue!Next
<1>4. QED
  BY <1>2, <1>3

LEMMA QueueEnds ==
  ASSUME HoInv, HoInv', HoSeal \/ HoDestroy \/ HoCreate
  PROVE  [HoQueue!Next]_(HoQueue!vars)
<1>1. ho \in HoInbox /\ hoLast \in Nat /\ ho.next_order \in Nat \ {0}
  BY HoTypes
<1>2. CASE HoSeal
  <2>1. /\ ho'.next_order = ho.next_order /\ ho'.sealed = TRUE
        /\ ho'.alive = ho.alive /\ ho.alive
    BY <1>1, <1>2 DEF HoSeal, tm_ho_seal, HoInbox
  <2>2. HoWaiting' = HoWaiting
    BY <1>2, <2>1, WaitingNow, WaitingNext DEF HoPublished, HoSeal
  <2>3. QED
    BY <2>1, <2>2 DEF HoQueue!Seal, HoQueue!Next
<1>3. CASE HoDestroy
  <2>1. CASE ~HoDestroyable(ho)
    <3>1. ho' = ho /\ UNCHANGED <<hoLog, hoLast>>
      BY <1>3, <2>1 DEF HoDestroy, tm_ho_destroy
    <3>2. QED
      BY <3>1, QueueIdle
  <2>2. CASE HoDestroyable(ho)
    <3>1. /\ ho'.next_order = ho.next_order /\ ho'.sealed = ho.sealed
          /\ ho'.alive = FALSE /\ ho.alive /\ ho.sealed /\ UNCHANGED <<hoLog, hoLast>>
      BY <1>1, <1>3, <2>2 DEF HoDestroy, tm_ho_destroy, HoDestroyable, HoInbox
    <3>2. HoWaiting' = HoWaiting
      BY <3>1, WaitingNow, WaitingNext DEF HoPublished
    <3>3. hoLast' = ho'.next_order - 1
      BY <3>1 DEF HoInv, HoDestroyDrained
    <3>4. HoWaiting = <<>>
      <4>1. HoWaiting = [k \in 1 .. 0 |-> hoLog[hoLast + k]]
        BY <1>1, <3>1, <3>3, WaitingNow DEF HoPublished
      <4>2. QED
        BY <4>1
    <3>5. HoQueue!Destroy
      BY <3>1, <3>2, <3>4 DEF HoQueue!Destroy
    <3>6. QED
      BY <3>5 DEF HoQueue!Next
  <2>3. QED
    BY <2>1, <2>2
<1>4. CASE HoCreate
  <2>1. /\ ho'.next_order = 1 /\ ho'.sealed = FALSE /\ ho'.alive = TRUE
        /\ hoLast' = 0 /\ ~ho.alive
    BY <1>4 DEF HoCreate, tm_ho_create
  <2>2. HoWaiting' = <<>>
    BY <2>1, QueueCreated, WaitingNext
  <2>3. HoQueue!Create
    BY <2>1, <2>2 DEF HoQueue!Create, HoQueue!Fresh
  <2>4. QED
    BY <2>3 DEF HoQueue!Next
<1>5. QED
  BY <1>2, <1>3, <1>4

(* The inbox implements the queue: every reservation, late publication,     *)
(* abort, settlement and destruction of turbo_streamgraph_handoff.c is a    *)
(* step of a bounded queue of commands, or none.                            *)
THEOREM HoImplementsQueueCorrect == HoSpec => HoImplementsQueue
<1>1. HoInit /\ HoInv => HoQueue!Fresh
  <2> SUFFICES ASSUME HoInit, HoInv PROVE HoQueue!Fresh
    OBVIOUS
  <2>1. /\ ho.next_order = 1 /\ ho.sealed = FALSE /\ ho.alive = TRUE /\ hoLast = 0
    BY DEF HoInit, tm_ho_create
  <2>2. HoWaiting = <<>>
    BY <2>1, QueueCreated, WaitingNow
  <2>3. QED
    BY <2>1, <2>2 DEF HoQueue!Fresh
<1>2. HoInv /\ HoInv' /\ [HoNext]_hoVars => [HoQueue!Next]_(HoQueue!vars)
  <2> SUFFICES ASSUME HoInv, HoInv', [HoNext]_hoVars
               PROVE  [HoQueue!Next]_(HoQueue!vars)
    OBVIOUS
  <2>1. CASE HoReserve
    <3>1. ho \in HoInbox
      BY HoTypes
    <3>2. /\ ho'.next_order = ho.next_order /\ ho'.sealed = ho.sealed
          /\ ho'.alive = ho.alive /\ UNCHANGED <<hoLog, hoLast>>
      BY <2>1, <3>1 DEF HoReserve, tm_ho_reserve, HoResult, HoInbox
    <3>3. QED
      BY <3>2, QueueIdle
  <2>2. ASSUME NEW t \in HoTickets, NEW c \in HoCommand, HoPublish(t, c)
        PROVE  [HoQueue!Next]_(HoQueue!vars)
    BY <2>2, QueuePublishes
  <2>3. ASSUME NEW t \in HoTickets, HoAbort(t) \/ HoSettle(t)
        PROVE  [HoQueue!Next]_(HoQueue!vars)
    BY <2>3, QueueClears DEF HoAbort, HoSettle, tm_ho_abort, tm_ho_settle
  <2>4. CASE HoTake
    BY <2>4, QueueTakes
  <2>5. CASE HoSeal \/ HoDestroy \/ HoCreate
    BY <2>5, QueueEnds
  <2>6. CASE UNCHANGED hoVars
    BY <2>6, QueueIdle DEF hoVars
  <2>7. QED
    BY <2>1, <2>2, <2>3, <2>4, <2>5, <2>6 DEF HoNext
<1>3. QED
  BY <1>1, <1>2, HoInvariant, PTL DEF HoSpec, HoImplementsQueue, HoQueue!Spec
=============================================================================
