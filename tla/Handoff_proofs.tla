--------------------------- MODULE Handoff_proofs ---------------------------
(* Proofs about the command inbox, for every capacity and set of commands.  *)
EXTENDS Handoff, NatFacts, TLAPS

(* Rows: what each change of a row makes of it. *)
LEMMA RowIntro ==
  ASSUME NEW r,
         r = [state |-> r.state, generation |-> r.generation,
              order |-> r.order, command |-> r.command],
         r.state \in HoState, r.generation \in 0 .. HoMaxGen,
         r.order \in Nat, r.command \in HoCommand \union {HoNone}
  PROVE  r \in HoRow
BY DEF HoRow

LEMMA ReserveRow ==
  ASSUME NEW r \in HoRow, r.generation # HoMaxGen, NEW n, n = reserve_row(r)
  PROVE  /\ n \in HoRow
         /\ n.state = "RESERVED" /\ n.generation = r.generation + 1
<1>1. /\ n.state = "RESERVED" /\ n.generation = r.generation + 1
      /\ n.order = r.order /\ n.command = r.command
  BY DEF reserve_row, HoRow
<1>2. n = [state |-> n.state, generation |-> n.generation,
           order |-> n.order, command |-> n.command]
  BY DEF reserve_row, HoRow
<1>3. /\ r.generation + 1 \in 0 .. HoMaxGen
      /\ r.order \in Nat
      /\ r.command \in HoCommand \union {HoNone}
  BY HoConstants DEF HoRow
<1>4. "RESERVED" \in HoState
  BY DEF HoState
<1>5. QED
  BY <1>1, <1>2, <1>3, <1>4, RowIntro

LEMMA PublishRow ==
  ASSUME NEW r \in HoRow, NEW c \in HoCommand, NEW o \in Nat,
         NEW n, n = publish_row(r, c, o)
  PROVE  /\ n \in HoRow
         /\ n.state = "READY" /\ n.order = o /\ n.command = c
         /\ n.generation = r.generation
<1>1. /\ n.state = "READY" /\ n.generation = r.generation
      /\ n.order = o /\ n.command = c
  BY DEF publish_row, HoRow
<1>2. n = [state |-> n.state, generation |-> n.generation,
           order |-> n.order, command |-> n.command]
  BY DEF publish_row, HoRow
<1>3. r.generation \in 0 .. HoMaxGen /\ "READY" \in HoState
  BY DEF HoRow, HoState
<1>4. QED
  BY <1>1, <1>2, <1>3, RowIntro

LEMMA ClearRowEffect ==
  ASSUME NEW r \in HoRow, NEW n, n = clear_row(r)
  PROVE  n \in HoRow /\ n.state = "FREE" /\ n.generation = r.generation
<1>1. /\ n.state = "FREE" /\ n.generation = r.generation
      /\ n.order = 0 /\ n.command = HoNone
  BY DEF clear_row, HoRow
<1>2. n = [state |-> n.state, generation |-> n.generation,
           order |-> n.order, command |-> n.command]
  BY DEF clear_row, HoRow
<1>3. r.generation \in 0 .. HoMaxGen /\ "FREE" \in HoState
  BY DEF HoRow, HoState
<1>4. QED
  BY <1>1, <1>2, <1>3, RowIntro

LEMMA TakeRow ==
  ASSUME NEW r \in HoRow, NEW n, n = take_row(r)
  PROVE  /\ n \in HoRow
         /\ n.state = "TAKEN" /\ n.generation = r.generation
         /\ n.order = r.order /\ n.command = r.command
BY DEF take_row, HoRow, HoState

(* The inbox after a change of row i that gives out d orders. *)
Changed(q, t, i, n, d) ==
  /\ t \in HoInbox
  /\ t.alive = q.alive /\ t.incarnation = q.incarnation /\ t.sealed = q.sealed
  /\ t.next_order = q.next_order + d
  /\ t.rows[i] = n
  /\ \A j \in HoSlot \ {i} : t.rows[j] = q.rows[j]

LEMMA OneRow ==
  ASSUME NEW q \in HoInbox, NEW i \in HoSlot, NEW n \in HoRow,
         NEW t, t = [q EXCEPT !.rows = [q.rows EXCEPT ![i] = n]]
  PROVE  Changed(q, t, i, n, 0)
<1>1. t \in HoInbox
  BY DEF HoInbox
<1>2. /\ t.alive = q.alive /\ t.incarnation = q.incarnation /\ t.sealed = q.sealed
      /\ t.next_order = q.next_order /\ t.rows = [q.rows EXCEPT ![i] = n]
  BY DEF HoInbox
<1>3. q.next_order + 0 = q.next_order
  BY DEF HoInbox
<1>4. t.rows[i] = n /\ \A j \in HoSlot \ {i} : t.rows[j] = q.rows[j]
  BY <1>2 DEF HoInbox
<1>5. QED
  BY <1>1, <1>2, <1>3, <1>4 DEF Changed

LEMMA OneRowOrdered ==
  ASSUME NEW q \in HoInbox, NEW i \in HoSlot, NEW n \in HoRow,
         NEW t, t = [q EXCEPT !.rows = [q.rows EXCEPT ![i] = n],
                              !.next_order = q.next_order + 1]
  PROVE  Changed(q, t, i, n, 1)
<1>1. /\ t.alive = q.alive /\ t.incarnation = q.incarnation /\ t.sealed = q.sealed
      /\ t.next_order = q.next_order + 1 /\ t.rows = [q.rows EXCEPT ![i] = n]
  BY DEF HoInbox
<1>2. t = [alive |-> t.alive, incarnation |-> t.incarnation, sealed |-> t.sealed,
           next_order |-> t.next_order, rows |-> t.rows]
  BY DEF HoInbox
<1>3. /\ t.alive \in BOOLEAN /\ t.incarnation \in Nat /\ t.sealed \in BOOLEAN
      /\ t.next_order \in Nat \ {0} /\ t.rows \in [HoSlot -> HoRow]
  BY <1>1 DEF HoInbox
<1>4. t \in HoInbox
  BY <1>2, <1>3 DEF HoInbox
<1>5. t.rows[i] = n /\ \A j \in HoSlot \ {i} : t.rows[j] = q.rows[j]
  BY <1>1 DEF HoInbox
<1>6. QED
  BY <1>1, <1>4, <1>5 DEF Changed

(* A new inbox satisfies the invariant. *)
LEMMA CreateHoInv ==
  ASSUME NEW inc \in Nat, NEW q, q = tm_ho_create(inc)
  PROVE  /\ q \in HoInbox /\ q.alive /\ q.next_order = 1 /\ q.incarnation = inc
         /\ \A i \in HoSlot : q.rows[i].state = "FREE"
<1>1. HoEmptyRow \in HoRow /\ HoEmptyRow.state = "FREE"
  BY HoConstants DEF HoEmptyRow, HoRow, HoState
<1>2. [i \in HoSlot |-> HoEmptyRow] \in [HoSlot -> HoRow]
  BY <1>1
<1>3. QED
  BY <1>1, <1>2 DEF tm_ho_create, HoInbox

(* Step cases.  The calls that neither publish nor take leave the ready     *)
(* rows alone.                                                              *)
LEMMA QuietStep ==
  ASSUME HoInv, ho.alive, NEW i \in HoSlot, NEW n \in HoRow,
         ho.rows[i].state # "READY", n.state \in {"FREE", "RESERVED"},
         Changed(ho, ho', i, n, 0), UNCHANGED <<hoLog, hoLast>>
  PROVE  HoInv'
<1>1. /\ ho' \in HoInbox /\ ho'.alive = ho.alive /\ ho'.next_order = ho.next_order
      /\ ho'.rows[i] = n /\ \A j \in HoSlot \ {i} : ho'.rows[j] = ho.rows[j]
  BY DEF Changed, HoInv, HoTypeOK, HoInbox
<1>2. HoReady(ho') = HoReady(ho) /\ i \notin HoReady(ho)
  BY <1>1 DEF HoReady
<1>3. \A j \in HoReady(ho) : ho'.rows[j] = ho.rows[j]
  BY <1>1, <1>2 DEF HoReady
<1>4. HoReadyOrders(ho') = HoReadyOrders(ho)
  BY <1>2, <1>3 DEF HoReadyOrders
<1>5. HoTypeOK'
  BY <1>1 DEF HoInv, HoTypeOK
<1>6. HoFifo'
  BY <1>1, <1>2, <1>3, <1>4 DEF HoInv, HoFifo
<1>7. HoCommandIntact'
  BY <1>1 DEF HoInv, HoCommandIntact
<1>8. QED
  BY <1>1, <1>5, <1>6, <1>7 DEF HoInv, HoDestroyDrained

(* The types of the parts, for the arithmetic. *)
LEMMA HoTypes ==
  ASSUME HoInv
  PROVE  /\ ho \in HoInbox /\ hoLast \in Nat /\ ho.next_order \in Nat \ {0}
         /\ hoLast < ho.next_order
         /\ hoLog \in Seq(HoCommand) /\ Len(hoLog) = ho.next_order - 1
         /\ \A j \in HoSlot : ho.rows[j] \in HoRow /\ ho.rows[j].order \in Nat
BY DEF HoInv, HoTypeOK, HoCommandIntact, HoInbox, HoRow

(* The orders of the ready rows. *)
LEMMA ReadyOrders ==
  ASSUME NEW q
  PROVE  /\ \A j \in HoReady(q) : q.rows[j].order \in HoReadyOrders(q)
         /\ \A o \in HoReadyOrders(q) : \E j \in HoReady(q) : q.rows[j].order = o
BY DEF HoReadyOrders

(* A publication appends the next order at the end. *)
LEMMA PublishStep ==
  ASSUME HoInv, ho.alive, NEW i \in HoSlot, NEW c \in HoCommand, NEW n \in HoRow,
         ho.rows[i].state = "RESERVED",
         n.state = "READY", n.order = ho.next_order, n.command = c,
         Changed(ho, ho', i, n, 1), hoLog' = Append(hoLog, c), hoLast' = hoLast
  PROVE  HoInv'
<1>1. /\ ho' \in HoInbox /\ ho'.alive = ho.alive /\ ho'.next_order = ho.next_order + 1
      /\ ho'.rows[i] = n /\ \A j \in HoSlot \ {i} : ho'.rows[j] = ho.rows[j]
  BY DEF Changed
<1>2. /\ hoLast \in Nat /\ ho.next_order \in Nat \ {0} /\ hoLast < ho.next_order
      /\ hoLog \in Seq(HoCommand) /\ Len(hoLog) = ho.next_order - 1
      /\ \A j \in HoSlot : ho.rows[j].order \in Nat
  BY HoTypes
<1>3. HoReady(ho') = HoReady(ho) \union {i} /\ i \notin HoReady(ho)
  BY <1>1 DEF HoReady
<1>4. \A j \in HoReady(ho) : ho'.rows[j] = ho.rows[j]
  BY <1>1, <1>3 DEF HoReady
<1>5. HoReadyOrders(ho') = HoReadyOrders(ho) \union {ho.next_order}
  BY <1>1, <1>3, <1>4 DEF HoReadyOrders
<1>6. \A j \in HoReady(ho) : ho.rows[j].order < ho.next_order
  <2>1. HoReadyOrders(ho) = hoLast + 1 .. ho.next_order - 1
    BY DEF HoInv, HoFifo
  <2>2. QED
    BY <1>2, <2>1, ReadyOrders
<1>7. HoFifo'
  <2>1. HoReadyOrders(ho) = hoLast + 1 .. ho.next_order - 1
    BY DEF HoInv, HoFifo
  <2>2. HoReadyOrders(ho') = hoLast' + 1 .. ho'.next_order - 1
    BY <1>1, <1>2, <1>5, <2>1
  <2>3. ASSUME NEW j \in HoReady(ho'), NEW k \in HoReady(ho'),
               ho'.rows[j].order = ho'.rows[k].order
        PROVE  j = k
    <3>1. CASE j = i /\ k # i
      BY <1>1, <1>2, <1>3, <1>4, <1>6, <2>3, <3>1
    <3>2. CASE j # i /\ k = i
      BY <1>1, <1>2, <1>3, <1>4, <1>6, <2>3, <3>2
    <3>3. CASE j # i /\ k # i
      BY <1>3, <1>4, <2>3, <3>3 DEF HoInv, HoFifo
    <3>4. QED
      BY <3>1, <3>2, <3>3
  <2>4. QED
    BY <2>2, <2>3 DEF HoFifo
<1>8. /\ Append(hoLog, c) \in Seq(HoCommand)
      /\ Len(Append(hoLog, c)) = Len(hoLog) + 1
      /\ Append(hoLog, c)[Len(hoLog) + 1] = c
      /\ \A k \in 1 .. Len(hoLog) : Append(hoLog, c)[k] = hoLog[k]
  BY <1>2
<1>9. HoCommandIntact'
  <2>1. Len(hoLog') = ho'.next_order - 1
    BY <1>1, <1>2, <1>8
  <2>2. ASSUME NEW j \in HoSlot, ho'.rows[j].state \in {"READY", "TAKEN"}
        PROVE  /\ ho'.rows[j].order \in 1 .. Len(hoLog')
               /\ ho'.rows[j].command = hoLog'[ho'.rows[j].order]
    <3>1. CASE j = i
      BY <1>1, <1>2, <1>8, <3>1
    <3>2. CASE j # i
      <4>1. ho'.rows[j] = ho.rows[j]
        BY <1>1, <3>2
      <4>2. /\ ho.rows[j].order \in 1 .. Len(hoLog)
            /\ ho.rows[j].command = hoLog[ho.rows[j].order]
        BY <2>2, <4>1 DEF HoInv, HoCommandIntact
      <4>3. QED
        BY <1>2, <1>8, <4>1, <4>2
    <3>3. QED
      BY <3>1, <3>2
  <2>3. QED
    BY <2>1, <2>2 DEF HoCommandIntact
<1>10. HoTypeOK'
  BY <1>1, <1>2, <1>8 DEF HoTypeOK
<1>11. QED
  BY <1>1, <1>2, <1>7, <1>9, <1>10 DEF HoInv, HoDestroyDrained

(* The oldest ready row is the one after the last taken. *)
LEMMA OldestIsNext ==
  ASSUME HoInv, HoReady(ho) # {}
  PROVE  /\ HoOldest(ho) \in HoSlot
         /\ ho.rows[HoOldest(ho)].state = "READY"
         /\ ho.rows[HoOldest(ho)].order = hoLast + 1
         /\ hoLast + 1 <= ho.next_order - 1
<1>1. /\ hoLast \in Nat /\ ho.next_order \in Nat \ {0}
      /\ HoReadyOrders(ho) = hoLast + 1 .. ho.next_order - 1
  BY HoTypes DEF HoInv, HoFifo
<1>2. HoReadyOrders(ho) # {} /\ HoReadyOrders(ho) \in SUBSET Nat
  <2>1. HoReadyOrders(ho) \in SUBSET Nat
    BY <1>1
  <2>2. QED
    BY <2>1, ReadyOrders
<1>3. hoLast + 1 <= ho.next_order - 1
  BY <1>1, <1>2
<1>4. Min(HoReadyOrders(ho)) = hoLast + 1
  <2>1. /\ Min(HoReadyOrders(ho)) \in HoReadyOrders(ho)
        /\ \A k \in HoReadyOrders(ho) : Min(HoReadyOrders(ho)) <= k
    BY <1>2, MinIsLeast
  <2>2. hoLast + 1 \in HoReadyOrders(ho)
    BY <1>1, <1>3
  <2>3. QED
    BY <1>1, <2>1, <2>2
<1>5. \E i \in HoReady(ho) : ho.rows[i].order = Min(HoReadyOrders(ho))
  <2>1. Min(HoReadyOrders(ho)) \in HoReadyOrders(ho)
    BY <1>1, <1>3, <1>4
  <2>2. QED
    BY <2>1, ReadyOrders
<1>6. HoOldest(ho) \in HoReady(ho) /\ ho.rows[HoOldest(ho)].order = Min(HoReadyOrders(ho))
  BY <1>5 DEF HoOldest
<1>7. QED
  BY <1>3, <1>4, <1>6 DEF HoReady

(* Taking it leaves the orders after it. *)
LEMMA TakeStep ==
  ASSUME HoInv, ho.alive, NEW i \in HoSlot, NEW n \in HoRow,
         ho.rows[i].state = "READY", ho.rows[i].order = hoLast + 1,
         hoLast + 1 <= ho.next_order - 1,
         n.state = "TAKEN", n.order = ho.rows[i].order, n.command = ho.rows[i].command,
         Changed(ho, ho', i, n, 0), hoLog' = hoLog, hoLast' = hoLast + 1
  PROVE  HoInv'
<1>1. /\ ho' \in HoInbox /\ ho'.alive = ho.alive /\ ho'.next_order = ho.next_order
      /\ ho'.rows[i] = n /\ \A j \in HoSlot \ {i} : ho'.rows[j] = ho.rows[j]
  BY DEF Changed, HoInv, HoTypeOK, HoInbox
<1>2. /\ hoLast \in Nat /\ ho.next_order \in Nat \ {0}
      /\ \A j \in HoSlot : ho.rows[j].order \in Nat
  BY HoTypes
<1>3. HoReady(ho') = HoReady(ho) \ {i} /\ i \in HoReady(ho)
  BY <1>1 DEF HoReady
<1>4. \A j \in HoReady(ho') : ho'.rows[j] = ho.rows[j] /\ j \in HoReady(ho) /\ j # i
  BY <1>1, <1>3 DEF HoReady
<1>5. \A j \in HoReady(ho) : (ho.rows[j].order = hoLast + 1) => (j = i)
  BY <1>3 DEF HoInv, HoFifo
<1>6. HoReadyOrders(ho') = HoReadyOrders(ho) \ {hoLast + 1}
  BY <1>3, <1>4, <1>5 DEF HoReadyOrders
<1>7. HoFifo'
  <2>1. HoReadyOrders(ho) = hoLast + 1 .. ho.next_order - 1
    BY DEF HoInv, HoFifo
  <2>2. HoReadyOrders(ho') = hoLast' + 1 .. ho'.next_order - 1
    BY <1>1, <1>2, <1>6, <2>1
  <2>3. \A j, k \in HoReady(ho') : (ho'.rows[j].order = ho'.rows[k].order) => (j = k)
    BY <1>4 DEF HoInv, HoFifo
  <2>4. QED
    BY <2>2, <2>3 DEF HoFifo
<1>8. HoCommandIntact'
  <2>1. ASSUME NEW j \in HoSlot, ho'.rows[j].state \in {"READY", "TAKEN"}
        PROVE  /\ ho'.rows[j].order \in 1 .. Len(hoLog')
               /\ ho'.rows[j].command = hoLog'[ho'.rows[j].order]
    <3>1. CASE j = i
      BY <1>1, <3>1 DEF HoInv, HoCommandIntact
    <3>2. CASE j # i
      BY <1>1, <2>1, <3>2 DEF HoInv, HoCommandIntact
    <3>3. QED
      BY <3>1, <3>2
  <2>2. Len(hoLog') = ho'.next_order - 1
    BY <1>1 DEF HoInv, HoCommandIntact
  <2>3. QED
    BY <2>1, <2>2 DEF HoCommandIntact
<1>9. HoTypeOK'
  BY <1>1, <1>2 DEF HoInv, HoTypeOK
<1>10. QED
  BY <1>1, <1>2, <1>7, <1>8, <1>9 DEF HoInv, HoDestroyDrained

(* A step that leaves the rows and the orders alone. *)
LEMMA SameRows ==
  ASSUME HoInv, ho' \in HoInbox, ho'.rows = ho.rows, ho'.next_order = ho.next_order,
         HoDestroyDrained', UNCHANGED <<hoLog, hoLast>>
  PROVE  HoInv'
<1>1. HoReady(ho') = HoReady(ho) /\ HoReadyOrders(ho') = HoReadyOrders(ho)
  BY DEF HoReady, HoReadyOrders
<1>2. HoTypeOK'
  BY DEF HoInv, HoTypeOK
<1>3. HoFifo'
  BY <1>1 DEF HoInv, HoFifo
<1>4. HoCommandIntact'
  BY DEF HoInv, HoCommandIntact
<1>5. QED
  BY <1>2, <1>3, <1>4 DEF HoInv

(* What a ticket that ho_find accepts, or one handed out, can look like. *)
LEMMA TicketSlot ==
  ASSUME ho \in HoInbox, NEW t \in HoTickets
  PROVE  /\ t.slot \in HoSlot /\ t.generation \in Nat \ {0} /\ t.incarnation <= ho.incarnation
         /\ (t.incarnation = ho.incarnation) => (t.generation <= ho.rows[t.slot].generation)
<1>1. t \in HoTicket /\ ho.incarnation \in Nat
  BY DEF HoTickets, HoInbox
<1>2. t.slot \in HoSlot /\ t.generation \in Nat \ {0} /\ t.incarnation \in Nat
  BY <1>1, HoConstants DEF HoTicket
<1>3. QED
  BY <1>1, <1>2 DEF HoTickets

(* What every step does to the generations: within an inbox they only grow, *)
(* and a row that becomes used gets a new one.                              *)
HoGenerations ==
  \/ ho'.incarnation = ho.incarnation + 1
  \/ /\ ho'.incarnation = ho.incarnation
     /\ \A j \in HoSlot :
          \/ /\ ho'.rows[j].generation = ho.rows[j].generation
             /\ ho.rows[j].state = "FREE" => ho'.rows[j].state = "FREE"
          \/ ho'.rows[j].generation = ho.rows[j].generation + 1

(* An abort or a settle that finds its row. *)
LEMMA ClearStep ==
  ASSUME HoInv, ho.alive, NEW t \in HoTickets, NEW from \in {"RESERVED", "TAKEN"},
         ho' = ClearRow(ho, t, ClearRc(ho, t, from)).q, UNCHANGED <<hoLog, hoLast>>
  PROVE  HoInv' /\ HoGenerations
<1>1. ho \in HoInbox /\ t.slot \in HoSlot
  BY TicketSlot DEF HoInv, HoTypeOK
<1>2. CASE ClearRc(ho, t, from) # "OK"
  <2>1. ho' = ho
    BY <1>2 DEF ClearRow, HoResult
  <2>2. QED
    BY <1>1, <2>1, SameRows DEF HoInv, HoDestroyDrained, HoGenerations
<1>3. CASE ClearRc(ho, t, from) = "OK"
  <2> DEFINE n == clear_row(ho.rows[t.slot])
  <2>1. ho.rows[t.slot].state = from /\ ho.rows[t.slot] \in HoRow
    BY <1>1, <1>3 DEF ClearRc, HoInbox
  <2>2. n \in HoRow /\ n.state = "FREE" /\ n.generation = ho.rows[t.slot].generation
    BY <2>1, ClearRowEffect
  <2>3. ho' = [ho EXCEPT !.rows = [ho.rows EXCEPT ![t.slot] = n]]
    BY <1>1, <1>3 DEF ClearRow, HoResult, HoInbox
  <2> HIDE DEF n
  <2>4. Changed(ho, ho', t.slot, n, 0)
    BY <1>1, <2>2, <2>3, OneRow
  <2>5. HoInv'
    BY <1>1, <2>1, <2>2, <2>4, QuietStep
  <2>6. HoGenerations
    BY <1>1, <2>2, <2>4 DEF HoGenerations, Changed
  <2>7. QED
    BY <2>5, <2>6
<1>4. QED
  BY <1>2, <1>3

(* A new inbox satisfies the invariant. *)
LEMMA FreshHoInv ==
  ASSUME ho' \in HoInbox, ho'.alive, ho'.next_order = 1,
         \A i \in HoSlot : ho'.rows[i].state = "FREE", hoLog' = <<>>, hoLast' = 0
  PROVE  HoInv'
<1>1. HoReady(ho') = {}
  BY DEF HoReady
<1>2. HoReadyOrders(ho') = {}
  BY <1>1 DEF HoReadyOrders
<1>3. HoFifo'
  BY <1>1, <1>2 DEF HoFifo
<1>4. HoCommandIntact'
  BY DEF HoCommandIntact
<1>5. QED
  BY <1>3, <1>4 DEF HoInv, HoTypeOK, HoDestroyDrained

(* Every step keeps the invariant and the order of the generations. *)
LEMMA HoStep ==
  ASSUME HoInv, [HoNext]_hoVars
  PROVE  HoInv' /\ HoGenerations
<1>1. /\ ho \in HoInbox /\ hoLast \in Nat /\ ho.next_order \in Nat \ {0}
      /\ hoLast < ho.next_order
      /\ \A j \in HoSlot : ho.rows[j] \in HoRow /\ ho.rows[j].generation \in 0 .. HoMaxGen
  BY HoTypes DEF HoRow
<1>2. CASE UNCHANGED hoVars
  <2>1. ho' = ho /\ UNCHANGED <<hoLog, hoLast>>
    BY <1>2 DEF hoVars
  <2>2. QED
    BY <1>1, <2>1, SameRows DEF HoInv, HoDestroyDrained, HoGenerations
<1>3. CASE HoReserve
  <2>1. CASE ReserveRc(ho) # "OK"
    <3>1. ho' = ho /\ UNCHANGED <<hoLog, hoLast>>
      BY <1>3, <2>1 DEF HoReserve, tm_ho_reserve, HoResult
    <3>2. QED
      BY <1>1, <3>1, SameRows DEF HoInv, HoDestroyDrained, HoGenerations
  <2>2. CASE ReserveRc(ho) = "OK"
    <3> DEFINE i == Min(HoReservable(ho))
               n == reserve_row(ho.rows[i])
    <3>1. HoReservable(ho) # {} /\ HoReservable(ho) \in SUBSET Nat
      BY <2>2, HoConstants DEF ReserveRc, HoReservable, HoSlot
    <3>2. i \in HoReservable(ho)
      BY <3>1, MinIsLeast
    <3>3. i \in HoSlot /\ ho.rows[i].state = "FREE" /\ ho.rows[i].generation # HoMaxGen
      BY <3>2 DEF HoReservable
    <3>4. /\ ho' = [ho EXCEPT !.rows = [ho.rows EXCEPT ![i] = n]]
          /\ UNCHANGED <<hoLog, hoLast>> /\ ho.alive
      BY <1>1, <1>3, <2>2, <3>3 DEF HoReserve, tm_ho_reserve, HoResult, HoInbox
    <3> HIDE DEF i
    <3>5. /\ n \in HoRow /\ n.state = "RESERVED"
          /\ n.generation = ho.rows[i].generation + 1
      BY <1>1, <3>3, ReserveRow
    <3> HIDE DEF n
    <3>6. Changed(ho, ho', i, n, 0)
      BY <1>1, <3>3, <3>4, <3>5, OneRow
    <3>7. HoInv'
      BY <3>3, <3>4, <3>5, <3>6, QuietStep
    <3>8. HoGenerations
      BY <3>3, <3>5, <3>6 DEF HoGenerations, Changed
    <3>9. QED
      BY <3>7, <3>8
  <2>3. QED
    BY <2>1, <2>2
<1>4. ASSUME NEW t \in HoTickets, NEW c \in HoCommand, HoPublish(t, c)
      PROVE  HoInv' /\ HoGenerations
  <2>1. t.slot \in HoSlot
    BY <1>1, TicketSlot
  <2>2. CASE PublishCommandRc(ho, t, c) # "OK"
    <3>1. ho' = ho /\ UNCHANGED <<hoLog, hoLast>>
      BY <1>4, <2>2 DEF HoPublish, tm_ho_publish, HoResult
    <3>2. QED
      BY <1>1, <3>1, SameRows DEF HoInv, HoDestroyDrained, HoGenerations
  <2>3. CASE PublishCommandRc(ho, t, c) = "OK"
    <3> DEFINE n == publish_row(ho.rows[t.slot], c, ho.next_order)
    <3>1. ho.rows[t.slot].state = "RESERVED"
      BY <2>3 DEF PublishCommandRc
    <3>2. /\ ho' = [ho EXCEPT !.rows = [ho.rows EXCEPT ![t.slot] = n],
                              !.next_order = ho.next_order + 1]
          /\ hoLog' = Append(hoLog, c) /\ hoLast' = hoLast /\ ho.alive
      BY <1>1, <1>4, <2>1, <2>3 DEF HoPublish, tm_ho_publish, HoResult, HoInbox
    <3>3. /\ n \in HoRow /\ n.state = "READY" /\ n.order = ho.next_order /\ n.command = c
          /\ n.generation = ho.rows[t.slot].generation
      BY <1>1, <2>1, PublishRow
    <3> HIDE DEF n
    <3>4. Changed(ho, ho', t.slot, n, 1)
      BY <1>1, <2>1, <3>2, <3>3, OneRowOrdered
    <3>5. HoInv'
      BY <2>1, <3>1, <3>2, <3>3, <3>4, PublishStep
    <3>6. HoGenerations
      BY <2>1, <3>1, <3>3, <3>4 DEF HoGenerations, Changed
    <3>7. QED
      BY <3>5, <3>6
  <2>4. QED
    BY <2>2, <2>3
<1>5. ASSUME NEW t \in HoTickets, HoAbort(t)
      PROVE  HoInv' /\ HoGenerations
  BY <1>5, ClearStep DEF HoAbort, tm_ho_abort
<1>6. ASSUME NEW t \in HoTickets, HoSettle(t)
      PROVE  HoInv' /\ HoGenerations
  BY <1>6, ClearStep DEF HoSettle, tm_ho_settle
<1>7. CASE HoTake
  <2>1. CASE HoReady(ho) = {}
    <3>1. ho' = ho /\ UNCHANGED <<hoLog, hoLast>>
      BY <1>7, <2>1 DEF HoTake, tm_ho_take, HoResult
    <3>2. QED
      BY <1>1, <3>1, SameRows DEF HoInv, HoDestroyDrained, HoGenerations
  <2>2. CASE HoReady(ho) # {}
    <3> DEFINE i == HoOldest(ho)
               n == take_row(ho.rows[i])
    <3>1. /\ i \in HoSlot /\ ho.rows[i].state = "READY"
          /\ ho.rows[i].order = hoLast + 1 /\ hoLast + 1 <= ho.next_order - 1
      BY <2>2, OldestIsNext
    <3>2. /\ ho' = [ho EXCEPT !.rows = [ho.rows EXCEPT ![i] = n]]
          /\ hoLog' = hoLog /\ hoLast' = hoLast + 1 /\ ho.alive
      BY <1>1, <1>7, <2>2, <3>1 DEF HoTake, tm_ho_take, HoResult, HoInbox
    <3> HIDE DEF i
    <3>3. /\ n \in HoRow /\ n.state = "TAKEN" /\ n.order = ho.rows[i].order
          /\ n.command = ho.rows[i].command /\ n.generation = ho.rows[i].generation
      BY <1>1, <3>1, TakeRow
    <3> HIDE DEF n
    <3>4. Changed(ho, ho', i, n, 0)
      BY <1>1, <3>1, <3>2, <3>3, OneRow
    <3>5. HoInv'
      BY <3>1, <3>2, <3>3, <3>4, TakeStep
    <3>6. HoGenerations
      BY <3>1, <3>3, <3>4 DEF HoGenerations, Changed
    <3>7. QED
      BY <3>5, <3>6
  <2>3. QED
    BY <2>1, <2>2
<1>8. CASE HoSeal
  <2>1. /\ ho' \in HoInbox /\ ho'.rows = ho.rows /\ ho'.next_order = ho.next_order
        /\ ho'.alive = ho.alive /\ ho'.incarnation = ho.incarnation
        /\ UNCHANGED <<hoLog, hoLast>> /\ ho.alive
    BY <1>1, <1>8 DEF HoSeal, tm_ho_seal, HoInbox
  <2>2. QED
    BY <2>1, SameRows DEF HoDestroyDrained, HoGenerations
<1>9. CASE HoDestroy
  <2>1. CASE ~HoDestroyable(ho)
    <3>1. ho' = ho /\ UNCHANGED <<hoLog, hoLast>>
      BY <1>9, <2>1 DEF HoDestroy, tm_ho_destroy
    <3>2. QED
      BY <1>1, <3>1, SameRows DEF HoInv, HoDestroyDrained, HoGenerations
  <2>2. CASE HoDestroyable(ho)
    <3>1. /\ ho' = [ho EXCEPT !.alive = FALSE] /\ UNCHANGED <<hoLog, hoLast>>
          /\ \A i \in HoSlot : ho.rows[i].state = "FREE"
      BY <1>9, <2>2 DEF HoDestroy, tm_ho_destroy, HoDestroyable, HoDrained
    <3>2. /\ ho' \in HoInbox /\ ho'.rows = ho.rows /\ ho'.next_order = ho.next_order
          /\ ho'.incarnation = ho.incarnation
      BY <1>1, <3>1 DEF HoInbox
    <3>3. HoReady(ho) = {}
      BY <3>1 DEF HoReady
    <3>4. hoLast + 1 .. ho.next_order - 1 = {}
      BY <3>3, ReadyOrders DEF HoInv, HoFifo
    <3>5. hoLast = ho.next_order - 1
      <4>1. ~(hoLast + 1 <= ho.next_order - 1)
        BY <1>1, <3>4
      <4>2. QED
        BY <1>1, <4>1
    <3>6. HoDestroyDrained'
      BY <3>1, <3>2, <3>5 DEF HoDestroyDrained
    <3>7. QED
      BY <3>1, <3>2, <3>6, SameRows DEF HoGenerations
  <2>3. QED
    BY <2>1, <2>2
<1>10. CASE HoCreate
  <2>1. ho.incarnation + 1 \in Nat
    BY <1>1 DEF HoInbox
  <2>2. /\ ho' \in HoInbox /\ ho'.alive /\ ho'.next_order = 1
        /\ ho'.incarnation = ho.incarnation + 1
        /\ \A i \in HoSlot : ho'.rows[i].state = "FREE"
        /\ hoLog' = <<>> /\ hoLast' = 0
    BY <1>10, <2>1, CreateHoInv DEF HoCreate
  <2>3. QED
    BY <2>2, FreshHoInv DEF HoGenerations
<1>11. QED
  BY <1>2, <1>3, <1>4, <1>5, <1>6, <1>7, <1>8, <1>9, <1>10 DEF HoNext

(* The inbox's inductive invariant holds of every interleaving. *)
THEOREM HoInvariant == HoSpec => []HoInv
<1>1. HoInit => HoInv
  <2> SUFFICES ASSUME HoInit PROVE HoInv
    OBVIOUS
  <2>1. /\ ho \in HoInbox /\ ho.alive /\ ho.next_order = 1
        /\ \A i \in HoSlot : ho.rows[i].state = "FREE"
        /\ hoLog = <<>> /\ hoLast = 0
    BY CreateHoInv DEF HoInit
  <2>2. HoReady(ho) = {}
    BY <2>1 DEF HoReady
  <2>3. HoReadyOrders(ho) = {}
    BY <2>2 DEF HoReadyOrders
  <2>4. HoFifo
    BY <2>1, <2>2, <2>3 DEF HoFifo
  <2>5. HoCommandIntact
    BY <2>1 DEF HoCommandIntact
  <2>6. QED
    BY <2>1, <2>4, <2>5 DEF HoInv, HoTypeOK, HoDestroyDrained
<1>2. HoInv /\ [HoNext]_hoVars => HoInv'
  BY HoStep
<1>3. QED
  BY <1>1, <1>2, PTL DEF HoSpec

(* The inbox, the log and the last order are always of their types. *)
THEOREM HoTypeCorrect == HoSpec => []HoTypeOK
<1>1. HoInv => HoTypeOK
  BY DEF HoInv
<1>2. QED
  BY <1>1, HoInvariant, PTL

(* Commands are delivered exactly once and in the order of publication, for *)
(* any number of rows, producers and commands.                              *)
THEOREM HoFifoCorrect == HoSpec => []HoFifo
<1>1. HoInv => HoFifo
  BY DEF HoInv
<1>2. QED
  BY <1>1, HoInvariant, PTL

(* A command taken is the command published under its order. *)
THEOREM HoCommandIntactCorrect == HoSpec => []HoCommandIntact
<1>1. HoInv => HoCommandIntact
  BY DEF HoInv
<1>2. QED
  BY <1>1, HoInvariant, PTL

(* No command is lost by the destruction of the inbox. *)
THEOREM HoDestroyDrainedCorrect == HoSpec => []HoDestroyDrained
<1>1. HoInv => HoDestroyDrained
  BY DEF HoInv
<1>2. QED
  BY <1>1, HoInvariant, PTL

(* The three together: the delivery the inbox promises. *)
THEOREM HoDeliveryCorrect == HoSpec => []HoDelivery
  BY HoFifoCorrect, HoCommandIntactCorrect, HoDestroyDrainedCorrect, PTL DEF HoDelivery

(* A stale ticket stays stale: no late call hits a row's next user. *)
THEOREM HoStaleForeverCorrect == HoSpec => HoStaleForever
<1>1. ASSUME HoInv, [HoNext]_hoVars, NEW t \in HoTickets, ~ho_find(ho, t)
      PROVE  ~ho_find(ho', t)
  <2>1. ho \in HoInbox /\ ho.incarnation \in Nat
    BY <1>1 DEF HoInv, HoTypeOK, HoInbox
  <2>2. /\ t.slot \in HoSlot /\ t.generation \in Nat \ {0} /\ t.incarnation <= ho.incarnation
        /\ (t.incarnation = ho.incarnation) => (t.generation <= ho.rows[t.slot].generation)
    BY <2>1, TicketSlot
  <2>3. ho.rows[t.slot].generation \in Nat
    BY <2>1, <2>2, HoConstants DEF HoInbox, HoRow
  <2>4. HoGenerations
    BY <1>1, HoStep
  <2>5. CASE ho'.incarnation = ho.incarnation + 1
    <3>1. t.incarnation # ho'.incarnation
      BY <2>1, <2>2, <2>5
    <3>2. QED
      BY <3>1 DEF ho_find
  <2>6. CASE /\ ho'.incarnation = ho.incarnation
             /\ ho'.rows[t.slot].generation = ho.rows[t.slot].generation
             /\ ho.rows[t.slot].state = "FREE" => ho'.rows[t.slot].state = "FREE"
    BY <1>1, <2>6 DEF ho_find
  <2>7. CASE /\ ho'.incarnation = ho.incarnation
             /\ ho'.rows[t.slot].generation = ho.rows[t.slot].generation + 1
    <3>1. (t.incarnation = ho.incarnation) => (t.generation # ho'.rows[t.slot].generation)
      BY <2>2, <2>3, <2>7
    <3>2. QED
      BY <2>7, <3>1 DEF ho_find
  <2>8. QED
    BY <2>2, <2>4, <2>5, <2>6, <2>7 DEF HoGenerations
<1>2. HoInv /\ [HoNext]_hoVars
        => [\A t \in HoTickets : ~ho_find(ho, t) => ~ho_find(ho', t)]_hoVars
  BY <1>1
<1>3. QED
  BY <1>2, HoInvariant, PTL DEF HoSpec, HoStaleForever
=============================================================================
