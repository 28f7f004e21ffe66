------------------------------ MODULE Handoff ------------------------------
(***************************************************************************)
(* The bounded command inbox of StreamGraph v2                              *)
(* (turbo_streamgraph_handoff.c): producer threads reserve a row, publish a *)
(* command into it or abort; the media owner takes the oldest command,      *)
(* executes it and settles the row.  Every call holds the inbox's spin lock *)
(* from its first read to its last write, so a call is one step, and the    *)
(* calls of all threads interleave.                                         *)
(*                                                                          *)
(* Any thread may call with any ticket that was ever handed out: its own,   *)
(* one already settled, one whose row now belongs to another producer.      *)
(***************************************************************************)
EXTENDS Integers, FiniteSets, FiniteSetsExt, Sequences

CONSTANTS
  HoCapacity,   \* config.capacity
  HoCommand,    \* the command envelopes producers submit
  HoMaxGen,     \* UINT32_MAX, the last generation of a row
  HoMaxOrder,   \* UINT64_MAX, the value of next_order that admits no command
  HoMaxInc      \* bound: inboxes created one after the other

ASSUME HoConstants ==
  /\ HoCapacity \in Nat \ {0}
  /\ HoMaxGen \in Nat \ {0}
  /\ HoMaxOrder \in Nat \ {0}
  /\ HoMaxInc \in Nat \ {0}

VARIABLES
  ho,      \* the inbox
  hoLog,   \* history: the commands published, in order
  hoLast   \* history: the order of the command taken last

hoVars == <<ho, hoLog, hoLast>>

-----------------------------------------------------------------------------
HoSlot == 0 .. HoCapacity - 1

HoState == {"FREE", "RESERVED", "READY", "TAKEN"}

(* No command: what memset leaves in a row.                                 *)
HoNone == [kind |-> "NONE", branch |-> 0, has_frame |-> 0]

HoRow == [state : HoState, generation : 0 .. HoMaxGen, order : Nat,
          command : HoCommand \union {HoNone}]

HoInbox == [alive : BOOLEAN, incarnation : Nat, sealed : BOOLEAN,
            next_order : Nat \ {0}, rows : [HoSlot -> HoRow]]

HoEmptyRow == [state |-> "FREE", generation |-> 0, order |-> 0, command |-> HoNone]

(* tm_ho_create: empty rows and the next process-wide incarnation. *)
tm_ho_create(inc) ==
  [alive |-> TRUE, incarnation |-> inc, sealed |-> FALSE, next_order |-> 1,
   rows |-> [i \in HoSlot |-> HoEmptyRow]]

HoResult(rc, q) == [rc |-> rc, q |-> q]

(* The shape of an envelope: only a frame notice carries a frame, only a    *)
(* sink pump names a branch, and there are eight branches.                  *)
ho_valid_command(c) ==
  \/ c.kind = "PUMP_SINK" /\ c.has_frame = 0 /\ c.branch < 8
  \/ c.kind = "FRAME_NOTICE" /\ c.has_frame = 1 /\ c.branch = 0
  \/ c.kind \in {"PUMP_SOURCE", "STOP"} /\ c.has_frame = 0 /\ c.branch = 0

(* Mutant: the ticket of an earlier inbox passes. *)
ho_find_any_inbox(q, t) ==
  /\ t.generation # 0
  /\ q.rows[t.slot].state # "FREE"
  /\ q.rows[t.slot].generation = t.generation

ho_find(q, t) ==
  /\ t.incarnation = q.incarnation
  /\ t.generation # 0
  /\ q.rows[t.slot].state # "FREE"
  /\ q.rows[t.slot].generation = t.generation

(* A row whose generation is used up is never reserved again. *)
HoReservable(q) ==
  {i \in HoSlot : q.rows[i].state = "FREE" /\ q.rows[i].generation # HoMaxGen}

ReserveRc(q) ==
  IF q.sealed THEN "ESHUTDOWN" ELSE IF HoReservable(q) = {} THEN "EFULL" ELSE "OK"

reserve_row(r) == [r EXCEPT !.state = "RESERVED", !.generation = @ + 1]

tm_ho_reserve(q) ==
  IF ReserveRc(q) = "OK"
  THEN HoResult("OK", [q EXCEPT !.rows[Min(HoReservable(q))] = reserve_row(@)])
  ELSE HoResult(ReserveRc(q), q)

(* Mutant: a reservation may still be published after the seal. *)
PublishCommandRc_unsealed(q, t, c) ==
  IF ~ho_valid_command(c) THEN "EINVAL"
  ELSE IF ~ho_find(q, t) THEN "ESTALE"
  ELSE IF q.rows[t.slot].state # "RESERVED" THEN "EBUSY"
  ELSE IF q.next_order = HoMaxOrder THEN "EEXHAUSTED"
  ELSE "OK"

(* A publication that comes after the seal is refused and leaves its row    *)
(* reserved: the producer must abort.                                       *)
PublishCommandRc(q, t, c) ==
  IF ~ho_valid_command(c) THEN "EINVAL"
  ELSE IF ~ho_find(q, t) THEN "ESTALE"
  ELSE IF q.rows[t.slot].state # "RESERVED" THEN "EBUSY"
  ELSE IF q.sealed THEN "ESHUTDOWN"
  ELSE IF q.next_order = HoMaxOrder THEN "EEXHAUSTED"
  ELSE "OK"

publish_row(r, c, n) == [r EXCEPT !.command = c, !.order = n, !.state = "READY"]

tm_ho_publish(q, t, c) ==
  IF PublishCommandRc(q, t, c) = "OK"
  THEN HoResult("OK", [q EXCEPT !.rows[t.slot] = publish_row(@, c, q.next_order),
                                !.next_order = @ + 1])
  ELSE HoResult(PublishCommandRc(q, t, c), q)

clear_row(r) == [r EXCEPT !.state = "FREE", !.order = 0, !.command = HoNone]

(* The status of tm_ho_abort (from RESERVED) and of tm_ho_settle (from      *)
(* TAKEN).                                                                  *)
ClearRc(q, t, from) ==
  IF ~ho_find(q, t) THEN "ESTALE" ELSE IF q.rows[t.slot].state # from THEN "EBUSY" ELSE "OK"

ClearRow(q, t, rc) ==
  IF rc = "OK" THEN HoResult(rc, [q EXCEPT !.rows[t.slot] = clear_row(@)]) ELSE HoResult(rc, q)

tm_ho_abort(q, t) == ClearRow(q, t, ClearRc(q, t, "RESERVED"))

HoReady(q) == {i \in HoSlot : q.rows[i].state = "READY"}

HoReadyOrders(q) == {q.rows[i].order : i \in HoReady(q)}

(* Mutant: the first ready row of the array, whatever its order. *)
HoOldestFirstRow(q) == Min(HoReady(q))

(* The ready row published first. *)
HoOldest(q) == CHOOSE i \in HoReady(q) : q.rows[i].order = Min(HoReadyOrders(q))

take_row(r) == [r EXCEPT !.state = "TAKEN"]

tm_ho_take(q) ==
  IF HoReady(q) = {}
  THEN HoResult("EBUSY", q)
  ELSE HoResult("OK", [q EXCEPT !.rows[HoOldest(q)] = take_row(@)])

(* The ticket and the command a successful take hands out. *)
TakenTicket(q) == [incarnation |-> q.incarnation, slot |-> HoOldest(q),
                   generation |-> q.rows[HoOldest(q)].generation]
TakenCommand(q) == q.rows[HoOldest(q)].command

tm_ho_settle(q, t) == ClearRow(q, t, ClearRc(q, t, "TAKEN"))

tm_ho_seal(q) == [q EXCEPT !.sealed = TRUE]

(* What tm_ho_snapshot reports as drained. *)
HoDrained(q) == \A i \in HoSlot : q.rows[i].state = "FREE"

HoDestroyable(q) == q.sealed /\ HoDrained(q)

tm_ho_destroy(q) == IF HoDestroyable(q) THEN [q EXCEPT !.alive = FALSE] ELSE q

-----------------------------------------------------------------------------
HoTicket == [incarnation : 1 .. HoMaxInc, slot : HoSlot, generation : 1 .. HoMaxGen]

(* The tickets handed out so far: every generation a row has had, and any   *)
(* ticket of an inbox before this one.                                      *)
HoTickets ==
  {t \in HoTicket : \/ t.incarnation < ho.incarnation
                    \/ /\ t.incarnation = ho.incarnation
                       /\ t.generation <= ho.rows[t.slot].generation}

HoInit ==
  /\ ho = tm_ho_create(1)
  /\ hoLog = <<>>
  /\ hoLast = 0

HoReserve ==
  /\ ho.alive
  /\ ho' = tm_ho_reserve(ho).q
  /\ UNCHANGED <<hoLog, hoLast>>

HoPublish(t, c) ==
  /\ ho.alive
  /\ ho' = tm_ho_publish(ho, t, c).q
  /\ hoLog' = IF PublishCommandRc(ho, t, c) = "OK" THEN Append(hoLog, c) ELSE hoLog
  /\ UNCHANGED hoLast

HoAbort(t) ==
  /\ ho.alive
  /\ ho' = tm_ho_abort(ho, t).q
  /\ UNCHANGED <<hoLog, hoLast>>

HoTake ==
  /\ ho.alive
  /\ ho' = tm_ho_take(ho).q
  /\ hoLast' = IF HoReady(ho) # {} THEN ho.rows[HoOldest(ho)].order ELSE hoLast
  /\ UNCHANGED hoLog

HoSettle(t) ==
  /\ ho.alive
  /\ ho' = tm_ho_settle(ho, t).q
  /\ UNCHANGED <<hoLog, hoLast>>

HoSeal ==
  /\ ho.alive
  /\ ho' = tm_ho_seal(ho)
  /\ UNCHANGED <<hoLog, hoLast>>

HoDestroy ==
  /\ ho.alive
  /\ ho' = tm_ho_destroy(ho)
  /\ UNCHANGED <<hoLog, hoLast>>

(* The next inbox, once the one before is gone. *)
HoCreate ==
  /\ ~ho.alive
  /\ ho.incarnation < HoMaxInc
  /\ ho' = tm_ho_create(ho.incarnation + 1)
  /\ hoLog' = <<>>
  /\ hoLast' = 0

HoNext ==
  \/ HoReserve
  \/ \E t \in HoTickets : \/ \E c \in HoCommand : HoPublish(t, c)
                          \/ HoAbort(t)
                          \/ HoSettle(t)
  \/ HoTake
  \/ HoSeal
  \/ HoDestroy
  \/ HoCreate

HoSpec == HoInit /\ [][HoNext]_hoVars

-----------------------------------------------------------------------------
(* Properties *)

HoTypeOK ==
  /\ ho \in HoInbox
  /\ hoLog \in Seq(HoCommand)
  /\ hoLast \in Nat

(* Commands are delivered exactly once and in the order of publication, for *)
(* every interleaving of producers that reserve rows in one order and       *)
(* publish in another, reuse rows and abort: the commands waiting are the   *)
(* ones published after the last one taken, with no gap and no repetition.  *)
HoFifo ==
  /\ HoReadyOrders(ho) = hoLast + 1 .. ho.next_order - 1
  /\ \A i, j \in HoReady(ho) : ho.rows[i].order = ho.rows[j].order => i = j

(* What tm_ho_take hands out is what the producer published: a row reused   *)
(* by another producer never shows the earlier or the later command.        *)
HoCommandIntact ==
  /\ Len(hoLog) = ho.next_order - 1
  /\ \A i \in HoSlot : ho.rows[i].state \in {"READY", "TAKEN"} =>
        /\ ho.rows[i].order \in 1 .. Len(hoLog)
        /\ ho.rows[i].command = hoLog[ho.rows[i].order]

(* A ticket that ho_find refuses is refused for ever: a late publish, abort *)
(* or settle of a producer or owner never hits the row's next user.         *)
HoStaleForever ==
  [][\A t \in HoTickets : ~ho_find(ho, t) => ~ho_find(ho', t)]_hoVars

(* The inbox is destroyed only after every published command was taken and  *)
(* settled.                                                                 *)
HoDestroyDrained ==
  ~ho.alive => /\ hoLast = ho.next_order - 1
               /\ \A i \in HoSlot : ho.rows[i].state = "FREE"

(* The delivery the inbox promises: in order, exactly once, intact, and     *)
(* complete before the inbox is destroyed.                                  *)
HoDelivery == HoFifo /\ HoCommandIntact /\ HoDestroyDrained

(* The commands that wait, oldest first, as the rows hold them. *)
HoWaiting ==
  [k \in 1 .. ho.next_order - 1 - hoLast |->
     ho.rows[CHOOSE i \in HoReady(ho) : ho.rows[i].order = hoLast + k].command]

HoQueue == INSTANCE CommandQueue
             WITH Command <- {c \in HoCommand : ho_valid_command(c)}, Capacity <- HoCapacity,
                  queue <- HoWaiting, sealed <- ho.sealed, alive <- ho.alive

(* The inbox implements a bounded queue: whatever producers reserve, abort, *)
(* publish late or with tickets of other rows, the rows behave as a queue   *)
(* of well-formed commands, in the order of publication, that accepts none  *)
(* once sealed and is destroyed only when sealed and empty.                 *)
HoImplementsQueue == HoQueue!Spec

(* The inductive strengthening.  Rows that hold a command have an order     *)
(* that was given out, taken rows one not above the last taken.             *)
HoInv ==
  /\ HoTypeOK
  /\ HoFifo
  /\ HoCommandIntact
  /\ hoLast < ho.next_order
  /\ HoDestroyDrained
=============================================================================
