--------------------- MODULE ProviderCompletion_proofs ---------------------
(* Proofs about the completion portal, for every capacity, set of statuses  *)
(* and limit of its counters.                                               *)
EXTENDS ProviderCompletion, NatFacts, TLAPS

(* Rows: what each change of a row makes of it. *)
LEMMA PcRowIntro ==
  ASSUME NEW r,
         r = [state |-> r.state, generation |-> r.generation,
              order |-> r.order, result |-> r.result],
         r.state \in PcState, r.generation \in 0 .. PcMaxGen, r.order \in Nat,
         r.result \in [outcome : PcOutcome, observed : BOOLEAN, status : PcStatus]
  PROVE  r \in PcRow
BY DEF PcRow

LEMMA NoResultTyped ==
  PcNoResult \in [outcome : PcOutcome, observed : BOOLEAN, status : PcStatus]
BY PcConstants DEF PcNoResult, PcOutcome

LEMMA BeginRow ==
  ASSUME NEW r \in PcRow, r.generation # PcMaxGen, NEW o \in Nat,
         NEW n, n = begin_row(r, o)
  PROVE  /\ n \in PcRow /\ n.state = "INFLIGHT" /\ n.order = o
         /\ n.generation = r.generation + 1
<1>1. /\ n.state = "INFLIGHT" /\ n.generation = r.generation + 1
      /\ n.order = o /\ n.result = PcNoResult
  BY DEF begin_row, PcRow
<1>2. n = [state |-> n.state, generation |-> n.generation,
           order |-> n.order, result |-> n.result]
  BY DEF begin_row, PcRow
<1>3. r.generation + 1 \in 0 .. PcMaxGen
  BY PcConstants DEF PcRow
<1>4. "INFLIGHT" \in PcState
  BY DEF PcState
<1>5. QED
  BY <1>1, <1>2, <1>3, <1>4, NoResultTyped, PcRowIntro

LEMMA ReadyRow ==
  ASSUME NEW r \in PcRow, NEW outcome \in PcOutcome, NEW observed \in BOOLEAN,
         NEW status \in PcStatus, NEW n, n = pc_ready(r, outcome, observed, status)
  PROVE  /\ n \in PcRow /\ n.state = "READY"
         /\ n.order = r.order /\ n.generation = r.generation
         /\ n.result.outcome = outcome /\ n.result.observed = observed
<1> DEFINE v == [outcome |-> outcome, observed |-> observed, status |-> status]
<1>1. /\ v \in [outcome : PcOutcome, observed : BOOLEAN, status : PcStatus]
      /\ v.outcome = outcome /\ v.observed = observed
  OBVIOUS
<1>2. n = [r EXCEPT !.result = v, !.state = "READY"]
  BY DEF pc_ready
<1> HIDE DEF v
<1>3. /\ n.state = "READY" /\ n.generation = r.generation
      /\ n.order = r.order /\ n.result = v
  BY <1>2 DEF PcRow
<1>4. n = [state |-> n.state, generation |-> n.generation,
           order |-> n.order, result |-> n.result]
  BY <1>2 DEF PcRow
<1>5. "READY" \in PcState /\ r.generation \in 0 .. PcMaxGen /\ r.order \in Nat
  BY DEF PcState, PcRow
<1>6. QED
  BY <1>1, <1>3, <1>4, <1>5, PcRowIntro

LEMMA CancelRow ==
  ASSUME NEW r \in PcRow, NEW n, n = cancel_row(r)
  PROVE  /\ n \in PcRow /\ n.state = "CANCEL_PENDING"
         /\ n.order = r.order /\ n.generation = r.generation /\ n.result = r.result
BY DEF cancel_row, PcRow, PcState

LEMMA TakenRow ==
  ASSUME NEW r \in PcRow, NEW n, n = taken_row(r)
  PROVE  /\ n \in PcRow /\ n.state = "TAKEN"
         /\ n.order = r.order /\ n.generation = r.generation /\ n.result = r.result
BY DEF taken_row, PcRow, PcState

LEMMA SettleRow ==
  ASSUME NEW r \in PcRow, NEW n, n = settle_row(r)
  PROVE  n \in PcRow /\ n.state = "FREE" /\ n.generation = r.generation
<1>1. /\ n.state = "FREE" /\ n.generation = r.generation
      /\ n.order = 0 /\ n.result = PcNoResult
  BY DEF settle_row, PcRow
<1>2. n = [state |-> n.state, generation |-> n.generation,
           order |-> n.order, result |-> n.result]
  BY DEF settle_row, PcRow
<1>3. "FREE" \in PcState /\ r.generation \in 0 .. PcMaxGen
  BY DEF PcState, PcRow
<1>4. QED
  BY <1>1, <1>2, <1>3, NoResultTyped, PcRowIntro

(* The portal after a change of row i that gives out d orders. *)
RowChanged(p, q, i, n, d) ==
  /\ q \in PcPortal
  /\ q.alive = p.alive /\ q.incarnation = p.incarnation
  /\ q.next_order = p.next_order + d
  /\ q.rows[i] = n
  /\ \A j \in PcSlot \ {i} : q.rows[j] = p.rows[j]

LEMMA OnePcRow ==
  ASSUME NEW p \in PcPortal, NEW i \in PcSlot, NEW n \in PcRow,
         NEW q, q = [p EXCEPT !.rows = [p.rows EXCEPT ![i] = n]]
  PROVE  RowChanged(p, q, i, n, 0)
<1>1. q \in PcPortal
  BY DEF PcPortal
<1>2. /\ q.alive = p.alive /\ q.incarnation = p.incarnation
      /\ q.next_order = p.next_order /\ q.rows = [p.rows EXCEPT ![i] = n]
  BY DEF PcPortal
<1>3. p.next_order + 0 = p.next_order
  BY DEF PcPortal
<1>4. q.rows[i] = n /\ \A j \in PcSlot \ {i} : q.rows[j] = p.rows[j]
  BY <1>2 DEF PcPortal
<1>5. QED
  BY <1>1, <1>2, <1>3, <1>4 DEF RowChanged

LEMMA OnePcRowOrdered ==
  ASSUME NEW p \in PcPortal, NEW i \in PcSlot, NEW n \in PcRow,
         NEW q, q = [p EXCEPT !.rows = [p.rows EXCEPT ![i] = n],
                              !.next_order = p.next_order + 1]
  PROVE  RowChanged(p, q, i, n, 1)
<1>1. /\ q.alive = p.alive /\ q.incarnation = p.incarnation /\ q.sealed = p.sealed
      /\ q.next_order = p.next_order + 1 /\ q.rows = [p.rows EXCEPT ![i] = n]
  BY DEF PcPortal
<1>2. q = [alive |-> q.alive, incarnation |-> q.incarnation, sealed |-> q.sealed,
           next_order |-> q.next_order, rows |-> q.rows]
  BY DEF PcPortal
<1>3. /\ q.alive \in BOOLEAN /\ q.incarnation \in Nat /\ q.sealed \in BOOLEAN
      /\ q.next_order \in Nat \ {0} /\ q.rows \in [PcSlot -> PcRow]
  BY <1>1 DEF PcPortal
<1>4. q \in PcPortal
  BY <1>2, <1>3 DEF PcPortal
<1>5. q.rows[i] = n /\ \A j \in PcSlot \ {i} : q.rows[j] = p.rows[j]
  BY <1>1 DEF PcPortal
<1>6. QED
  BY <1>1, <1>4, <1>5 DEF RowChanged

(* The part of PcVerdict that is about one row. *)
Earned(row, cancelled, observed) ==
  /\ row.state \in {"READY", "TAKEN"} =>
       /\ row.result.outcome # "NONE"
       /\ row.result.outcome = "CANCELLED" <=> row.order \in cancelled
       /\ row.result.observed <=> row.order \in observed
  /\ row.state = "CANCEL_PENDING" => row.order \in cancelled
  /\ row.state = "INFLIGHT" => row.order \notin cancelled
  /\ row.state \notin {"READY", "TAKEN"} => row.order \notin observed

LEMMA VerdictByRow ==
  PcVerdict <=> \A i \in PcUsed : Earned(pc.rows[i], pcCancelled, pcObserved)
BY DEF PcVerdict, Earned, PcUsed, PcHasResult

(* The types of the parts, for the arithmetic. *)
LEMMA PcTypes ==
  ASSUME PcInv
  PROVE  /\ pc \in PcPortal /\ pc.next_order \in Nat \ {0} /\ pc.incarnation \in Nat
         /\ \A j \in PcSlot : pc.rows[j] \in PcRow /\ pc.rows[j].order \in Nat
                                /\ pc.rows[j].generation \in 0 .. PcMaxGen
         /\ \A j \in PcUsed : pc.rows[j].order \in 1 .. pc.next_order - 1
<1>1. /\ pc \in PcPortal /\ pc.next_order \in Nat \ {0} /\ pc.incarnation \in Nat
      /\ \A j \in PcSlot : pc.rows[j] \in PcRow
  BY DEF PcInv, PcTypeOK, PcPortal
<1>2. \A j \in PcSlot : pc.rows[j].order \in Nat /\ pc.rows[j].generation \in 0 .. PcMaxGen
  BY <1>1 DEF PcRow
<1>3. \A j \in PcUsed : pc.rows[j].order \in 1 .. pc.next_order - 1
  BY DEF PcInv, PcOneResult, PcAccounted
<1>4. QED
  BY <1>1, <1>2, <1>3

(* A change of a used row that stays used keeps its order; the other rows   *)
(* do not notice that this order joins the cancelled or the completed ones. *)
LEMMA UsedStep ==
  ASSUME PcInv, pc.alive, NEW i \in PcUsed, NEW n \in PcRow,
         n.state # "FREE", n.order = pc.rows[i].order,
         RowChanged(pc, pc', i, n, 0),
         pcSettled' = pcSettled,
         pcCancelled' \in {pcCancelled, pcCancelled \union {n.order}},
         pcObserved' \in {pcObserved, pcObserved \union {n.order}},
         Earned(n, pcCancelled', pcObserved')
  PROVE  PcInv'
<1>1. /\ pc' \in PcPortal /\ pc'.alive /\ pc'.next_order = pc.next_order
      /\ pc'.rows[i] = n /\ \A j \in PcSlot \ {i} : pc'.rows[j] = pc.rows[j]
  BY PcTypes DEF RowChanged
<1>2. i \in PcSlot /\ PcUsed' = PcUsed
  BY <1>1 DEF PcUsed
<1>3. \A j \in PcUsed : pc'.rows[j].order = pc.rows[j].order
  BY <1>1, <1>2 DEF PcUsed
<1>4. PcAccounted'
  BY <1>1, <1>2, <1>3 DEF PcInv, PcOneResult, PcAccounted
<1>5. ASSUME NEW j \in PcUsed, j # i
      PROVE  Earned(pc'.rows[j], pcCancelled', pcObserved')
  <2>1. pc'.rows[j] = pc.rows[j] /\ pc.rows[j].order # n.order
    BY <1>1, <1>5 DEF PcUsed, PcInv, PcOneResult, PcAccounted
  <2>2. /\ pc.rows[j].order \in pcCancelled' <=> pc.rows[j].order \in pcCancelled
        /\ pc.rows[j].order \in pcObserved' <=> pc.rows[j].order \in pcObserved
    BY <2>1
  <2>3. Earned(pc.rows[j], pcCancelled, pcObserved)
    BY VerdictByRow DEF PcInv, PcOneResult
  <2>4. QED
    BY <2>1, <2>2, <2>3 DEF Earned
<1>6. PcVerdict'
  <2>1. \A j \in PcUsed' : Earned(pc'.rows[j], pcCancelled', pcObserved')
    BY <1>1, <1>2, <1>5
  <2>2. QED
    BY <2>1 DEF PcVerdict, Earned, PcUsed, PcHasResult
<1>7. PcTypeOK'
  <2>1. n.order \in 1 .. pc.next_order - 1
    BY PcTypes
  <2>2. QED
    BY <1>1, <2>1 DEF PcInv, PcTypeOK
<1>8. QED
  BY <1>1, <1>4, <1>6, <1>7 DEF PcInv, PcOneResult, PcDestroyDrained

(* A begin gives a free row the next order. *)
LEMMA BeginStep ==
  ASSUME PcInv, pc.alive, NEW i \in PcSlot, pc.rows[i].state = "FREE", NEW n \in PcRow,
         n.state = "INFLIGHT", n.order = pc.next_order,
         RowChanged(pc, pc', i, n, 1), UNCHANGED pcHistory
  PROVE  PcInv'
<1> DEFINE o == pc.next_order
<1>1. /\ pc' \in PcPortal /\ pc'.alive /\ pc'.next_order = o + 1
      /\ pc'.rows[i] = n /\ \A j \in PcSlot \ {i} : pc'.rows[j] = pc.rows[j]
  BY DEF RowChanged
<1>2. PcUsed' = PcUsed \union {i} /\ i \notin PcUsed
  BY <1>1 DEF PcUsed
<1>3. \A j \in PcUsed : pc'.rows[j] = pc.rows[j]
  BY <1>1, <1>2 DEF PcUsed
<1>4. /\ o \in Nat \ {0}
      /\ 1 .. pc'.next_order - 1 = (1 .. o - 1) \union {o}
      /\ o \notin 1 .. o - 1
  BY <1>1, PcTypes
<1>5. UNCHANGED <<pcCancelled, pcObserved, pcSettled>>
  BY DEF pcHistory
<1>6. PcAccounted'
  <2>1. {pc'.rows[j].order : j \in PcUsed'} = {pc.rows[j].order : j \in PcUsed} \union {o}
    BY <1>1, <1>2, <1>3
  <2>2. {pc.rows[j].order : j \in PcUsed} \union pcSettled = 1 .. o - 1
    BY DEF PcInv, PcOneResult, PcAccounted
  <2>3. {pc'.rows[j].order : j \in PcUsed'} \union pcSettled' = 1 .. pc'.next_order - 1
    BY <1>4, <1>5, <2>1, <2>2
  <2>4. o \notin pcSettled /\ \A j \in PcUsed : pc.rows[j].order # o
    BY <1>4, <2>2
  <2>5. \A j \in PcUsed' : pc'.rows[j].order \notin pcSettled'
    BY <1>1, <1>2, <1>3, <1>5, <2>4 DEF PcInv, PcOneResult, PcAccounted
  <2>6. \A j, k \in PcUsed' : pc'.rows[j].order = pc'.rows[k].order => j = k
    BY <1>1, <1>2, <1>3, <2>4 DEF PcInv, PcOneResult, PcAccounted
  <2>7. QED
    BY <2>3, <2>5, <2>6 DEF PcAccounted
<1>7. Earned(n, pcCancelled, pcObserved)
  <2>1. o \notin pcCancelled /\ o \notin pcObserved
    BY <1>4 DEF PcInv, PcTypeOK
  <2>2. QED
    BY <2>1 DEF Earned
<1>8. PcVerdict'
  <2>1. \A j \in PcUsed : Earned(pc.rows[j], pcCancelled, pcObserved)
    BY VerdictByRow DEF PcInv, PcOneResult
  <2>2. \A j \in PcUsed' : Earned(pc'.rows[j], pcCancelled', pcObserved')
    BY <1>1, <1>2, <1>3, <1>5, <1>7, <2>1
  <2>3. QED
    BY <2>2 DEF PcVerdict, Earned, PcUsed, PcHasResult
<1>9. PcTypeOK'
  BY <1>1, <1>4, <1>5 DEF PcInv, PcTypeOK
<1>10. QED
  BY <1>1, <1>6, <1>8, <1>9 DEF PcInv, PcOneResult, PcDestroyDrained

(* A settlement moves the row's order to the settled ones. *)
LEMMA SettleStep ==
  ASSUME PcInv, pc.alive, NEW i \in PcUsed, NEW n \in PcRow, n.state = "FREE",
         RowChanged(pc, pc', i, n, 0),
         pcSettled' = pcSettled \union {pc.rows[i].order},
         UNCHANGED <<pcCancelled, pcObserved>>
  PROVE  PcInv'
<1>1. /\ pc' \in PcPortal /\ pc'.alive /\ pc'.next_order = pc.next_order
      /\ pc'.rows[i] = n /\ \A j \in PcSlot \ {i} : pc'.rows[j] = pc.rows[j]
  BY PcTypes DEF RowChanged
<1>2. PcUsed' = PcUsed \ {i}
  BY <1>1 DEF PcUsed
<1>3. \A j \in PcUsed' : pc'.rows[j] = pc.rows[j] /\ j \in PcUsed /\ j # i
  BY <1>1, <1>2 DEF PcUsed
<1>4. PcAccounted'
  <2>1. {pc.rows[j].order : j \in PcUsed}
          = {pc'.rows[j].order : j \in PcUsed'} \union {pc.rows[i].order}
    BY <1>2, <1>3
  <2>2. {pc'.rows[j].order : j \in PcUsed'} \union pcSettled' = 1 .. pc'.next_order - 1
    BY <1>1, <2>1 DEF PcInv, PcOneResult, PcAccounted
  <2>3. \A j \in PcUsed' : pc'.rows[j].order # pc.rows[i].order
    BY <1>3 DEF PcInv, PcOneResult, PcAccounted
  <2>4. \A j \in PcUsed' : pc'.rows[j].order \notin pcSettled'
    BY <1>3, <2>3 DEF PcInv, PcOneResult, PcAccounted
  <2>5. \A j, k \in PcUsed' : pc'.rows[j].order = pc'.rows[k].order => j = k
    BY <1>3 DEF PcInv, PcOneResult, PcAccounted
  <2>6. QED
    BY <2>2, <2>4, <2>5 DEF PcAccounted
<1>5. PcVerdict'
  <2>1. \A j \in PcUsed : Earned(pc.rows[j], pcCancelled, pcObserved)
    BY VerdictByRow DEF PcInv, PcOneResult
  <2>2. \A j \in PcUsed' : Earned(pc'.rows[j], pcCancelled', pcObserved')
    BY <1>3, <2>1
  <2>3. QED
    BY <2>2 DEF PcVerdict, Earned, PcUsed, PcHasResult
<1>6. PcTypeOK'
  BY <1>1 DEF PcInv, PcTypeOK
<1>7. QED
  BY <1>1, <1>4, <1>5, <1>6 DEF PcInv, PcOneResult, PcDestroyDrained

(* A step that leaves the rows, the orders and the history alone. *)
LEMMA SamePcRows ==
  ASSUME PcInv, pc' \in PcPortal, pc'.rows = pc.rows, pc'.next_order = pc.next_order,
         PcDestroyDrained', UNCHANGED pcHistory
  PROVE  PcInv'
<1>1. UNCHANGED <<pcCancelled, pcObserved, pcSettled>> /\ PcUsed' = PcUsed
      /\ PcHasResult' = PcHasResult
  BY DEF pcHistory, PcUsed, PcHasResult
<1>2. PcTypeOK'
  BY <1>1 DEF PcInv, PcTypeOK
<1>3. PcAccounted'
  BY <1>1 DEF PcInv, PcOneResult, PcAccounted
<1>4. PcVerdict'
  BY <1>1 DEF PcInv, PcOneResult, PcVerdict
<1>5. QED
  BY <1>2, <1>3, <1>4 DEF PcInv, PcOneResult

(* What a ticket handed out can look like. *)
LEMMA PcTicketSlot ==
  ASSUME pc \in PcPortal, NEW t \in PcTickets
  PROVE  /\ t.slot \in PcSlot /\ t.generation \in Nat \ {0} /\ t.incarnation <= pc.incarnation
         /\ (t.incarnation = pc.incarnation) => (t.generation <= pc.rows[t.slot].generation)
<1>1. t \in PcTicket /\ pc.incarnation \in Nat
  BY DEF PcTickets, PcPortal
<1>2. t.slot \in PcSlot /\ t.generation \in Nat \ {0} /\ t.incarnation \in Nat
  BY <1>1, PcConstants DEF PcTicket
<1>3. QED
  BY <1>1, <1>2 DEF PcTickets

(* What every step does to the rows: a portal's successor starts empty;     *)
(* within a portal a row that becomes used gets a new generation, and one   *)
(* that has its result keeps it until it is free.                           *)
PcRowsKept ==
  \/ /\ pc'.incarnation = pc.incarnation + 1
     /\ \A j \in PcSlot : pc'.rows[j].state = "FREE"
  \/ /\ pc'.incarnation = pc.incarnation
     /\ \A j \in PcSlot :
          \/ /\ pc'.rows[j].generation = pc.rows[j].generation
             /\ pc.rows[j].state = "FREE" => pc'.rows[j].state = "FREE"
             /\ pc'.rows[j].state # "FREE" => pc'.rows[j].order = pc.rows[j].order
             /\ pc.rows[j].state \in {"READY", "TAKEN"}
                  => pc'.rows[j].state = "FREE" \/ pc'.rows[j].result = pc.rows[j].result
          \/ /\ pc.rows[j].state = "FREE" /\ pc'.rows[j].state = "INFLIGHT"
             /\ pc'.rows[j].generation = pc.rows[j].generation + 1

(* A call that is refused, or changes nothing else. *)
LEMMA RefusedStep ==
  ASSUME PcInv, pc' = pc, UNCHANGED pcHistory
  PROVE  PcInv' /\ PcRowsKept
<1>1. PcInv'
  BY SamePcRows DEF PcInv, PcTypeOK, PcOneResult, PcDestroyDrained, pcHistory
<1>2. QED
  BY <1>1 DEF PcRowsKept

(* A call on a ticket: refused, or the row it names is used, in one of the  *)
(* states the call accepts, and becomes n.                                  *)
LEMMA TicketCall ==
  ASSUME PcInv, NEW t \in PcTickets, NEW from, NEW else, else # "OK", NEW n,
         pc' = SetRow(pc, t, RowRc(pc, t, from, else), n).p
  PROVE  /\ t.slot \in PcSlot /\ pc.rows[t.slot] \in PcRow
         /\ RowRc(pc, t, from, else) # "OK" => pc' = pc
         /\ RowRc(pc, t, from, else) = "OK" =>
              /\ t.slot \in PcUsed /\ pc.rows[t.slot].state \in from
              /\ n \in PcRow => RowChanged(pc, pc', t.slot, n, 0)
<1>1. /\ t.slot \in PcSlot /\ pc \in PcPortal /\ pc.rows[t.slot] \in PcRow
  BY PcTypes, PcTicketSlot
<1>2. CASE RowRc(pc, t, from, else) # "OK"
  BY <1>1, <1>2 DEF SetRow, PcResult
<1>3. CASE RowRc(pc, t, from, else) = "OK"
  <2>1. pc_find(pc, t) /\ pc.rows[t.slot].state \in from
    BY <1>3 DEF RowRc
  <2>2. t.slot \in PcUsed
    BY <1>1, <2>1 DEF pc_find, PcUsed
  <2>3. pc' = [pc EXCEPT !.rows = [pc.rows EXCEPT ![t.slot] = n]]
    BY <1>1, <1>3 DEF SetRow, PcResult, PcPortal
  <2>4. n \in PcRow => RowChanged(pc, pc', t.slot, n, 0)
    BY <1>1, <2>3, OnePcRow
  <2>5. QED
    BY <1>1, <1>3, <2>1, <2>2, <2>4
<1>4. QED
  BY <1>2, <1>3

(* The rows a ticket call leaves. *)
LEMMA KeptByChange ==
  ASSUME PcInv, NEW i \in PcUsed, NEW n \in PcRow, RowChanged(pc, pc', i, n, 0),
         n.generation = pc.rows[i].generation,
         n.state # "FREE" => n.order = pc.rows[i].order,
         pc.rows[i].state \in {"READY", "TAKEN"} => n.state = "FREE" \/ n.result = pc.rows[i].result
  PROVE  PcRowsKept
BY DEF PcRowsKept, RowChanged, PcUsed

(* The calls of the provider: a failure to start, a completion and the      *)
(* quiescence after a cancellation each give the row its result.            *)
LEMMA ReadyStep ==
  ASSUME PcInv, pc.alive, NEW t \in PcTickets,
         NEW from \in SUBSET {"INFLIGHT", "CANCEL_PENDING"}, NEW else, else # "OK",
         NEW outcome \in PcOutcome, NEW observed \in BOOLEAN, NEW status \in PcStatus,
         pc' = SetRow(pc, t, RowRc(pc, t, from, else),
                      pc_ready(pc.rows[t.slot], outcome, observed, status)).p,
         outcome # "NONE",
         pc.rows[t.slot].state \in from =>
           (outcome = "CANCELLED" <=> pc.rows[t.slot].state = "CANCEL_PENDING"),
         UNCHANGED <<pcCancelled, pcSettled>>,
         pcObserved' = IF RowRc(pc, t, from, else) = "OK" /\ observed
                       THEN pcObserved \union {PcOrderOf(t)} ELSE pcObserved
  PROVE  PcInv' /\ PcRowsKept
<1> DEFINE n == pc_ready(pc.rows[t.slot], outcome, observed, status)
           rc == RowRc(pc, t, from, else)
<1>1. /\ pc.rows[t.slot] \in PcRow
      /\ rc # "OK" => pc' = pc
      /\ rc = "OK" => /\ t.slot \in PcUsed /\ pc.rows[t.slot].state \in from
                      /\ n \in PcRow => RowChanged(pc, pc', t.slot, n, 0)
  BY TicketCall
<1>2. /\ n \in PcRow /\ n.state = "READY"
      /\ n.order = pc.rows[t.slot].order /\ n.generation = pc.rows[t.slot].generation
      /\ n.result.outcome = outcome /\ n.result.observed = observed
  BY <1>1, ReadyRow
<1>3. CASE rc # "OK"
  BY <1>1, <1>3, RefusedStep DEF pcHistory
<1>4. CASE rc = "OK"
  <2>1. /\ t.slot \in PcUsed /\ pc.rows[t.slot].state \in {"INFLIGHT", "CANCEL_PENDING"}
        /\ RowChanged(pc, pc', t.slot, n, 0)
        /\ outcome = "CANCELLED" <=> pc.rows[t.slot].state = "CANCEL_PENDING"
    BY <1>1, <1>2, <1>4
  <2>2. pcObserved' = IF observed THEN pcObserved \union {n.order} ELSE pcObserved
    BY <1>2, <1>4 DEF PcOrderOf
  <2>3. Earned(pc.rows[t.slot], pcCancelled, pcObserved)
    BY <2>1, VerdictByRow DEF PcInv, PcOneResult
  <2> HIDE DEF n, rc
  <2>4. /\ n.order \in pcCancelled <=> outcome = "CANCELLED"
        /\ n.order \notin pcObserved
    BY <1>2, <2>1, <2>3 DEF Earned
  <2>5. n.order \in pcObserved' <=> observed
    BY <2>2, <2>4
  <2>6. Earned(n, pcCancelled', pcObserved')
    BY <1>2, <2>4, <2>5 DEF Earned
  <2>7. PcInv'
    <3>1. pcObserved' \in {pcObserved, pcObserved \union {n.order}}
      BY <2>2
    <3>2. pcCancelled' \in {pcCancelled, pcCancelled \union {n.order}}
      OBVIOUS
    <3>3. QED
      BY <1>2, <2>1, <2>6, <3>1, <3>2, UsedStep
  <2>8. PcRowsKept
    BY <1>2, <2>1, KeptByChange
  <2>9. QED
    BY <2>7, <2>8
<1>5. QED
  BY <1>3, <1>4

(* A take finds a ready row whenever there is one. *)
LEMMA PcOldestIsReady ==
  ASSUME PcInv, PcReady(pc) # {}
  PROVE  PcOldest(pc) \in PcReady(pc)
<1> DEFINE S == {pc.rows[i].order : i \in PcReady(pc)}
<1>1. S \in SUBSET Nat /\ S # {}
  BY PcTypes DEF PcReady
<1>2. \E m \in S : \A k \in S : m <= k
  <2> HIDE DEF S
  <2>1. QED
    BY <1>1, MinExists
<1>3. \E i \in PcReady(pc) : \A j \in PcReady(pc) : pc.rows[i].order <= pc.rows[j].order
  BY <1>2
<1>4. QED
  BY <1>3 DEF PcOldest

(* A new portal satisfies the invariant. *)
LEMMA CreatePortal ==
  ASSUME NEW inc \in Nat, NEW p, p = tm_pc_create(inc)
  PROVE  /\ p \in PcPortal /\ p.alive /\ p.next_order = 1 /\ p.incarnation = inc
         /\ \A i \in PcSlot : p.rows[i].state = "FREE"
<1>1. PcEmptyRow \in PcRow /\ PcEmptyRow.state = "FREE"
  <2>1. "FREE" \in PcState /\ 0 \in 0 .. PcMaxGen /\ 0 \in Nat
    BY PcConstants DEF PcState
  <2>2. QED
    BY <2>1, NoResultTyped DEF PcEmptyRow, PcRow
<1>2. [i \in PcSlot |-> PcEmptyRow] \in [PcSlot -> PcRow]
  BY <1>1
<1>3. QED
  BY <1>1, <1>2 DEF tm_pc_create, PcPortal

PcFresh ==
  /\ pc \in PcPortal /\ pc.alive /\ pc.next_order = 1
  /\ \A i \in PcSlot : pc.rows[i].state = "FREE"
  /\ pcCancelled = {} /\ pcObserved = {} /\ pcSettled = {}

LEMMA FreshPcInv == PcFresh => PcInv
<1> SUFFICES ASSUME PcFresh PROVE PcInv
  OBVIOUS
<1>1. PcUsed = {}
  BY DEF PcFresh, PcUsed
<1>2. PcAccounted
  BY <1>1 DEF PcFresh, PcAccounted
<1>3. PcVerdict
  BY <1>1 DEF PcVerdict
<1>4. QED
  BY <1>2, <1>3 DEF PcFresh, PcInv, PcTypeOK, PcOneResult, PcDestroyDrained

(* Every step keeps the invariant, and the rows as PcRowsKept says. *)
LEMMA PcStep ==
  ASSUME PcInv, [PcNext]_pcVars
  PROVE  PcInv' /\ PcRowsKept
<1>1. /\ pc \in PcPortal /\ pc.next_order \in Nat \ {0} /\ pc.incarnation \in Nat
      /\ \A j \in PcSlot : pc.rows[j] \in PcRow
  BY PcTypes
<1>2. CASE UNCHANGED pcVars
  BY <1>2, RefusedStep DEF pcVars, pcHistory
<1>3. CASE PcBegin
  <2>1. CASE BeginRc(pc) # "OK"
    BY <1>3, <2>1, RefusedStep DEF PcBegin, tm_pc_begin, PcResult
  <2>2. CASE BeginRc(pc) = "OK"
    <3> DEFINE i == Min(PcFreeRows(pc))
               n == begin_row(pc.rows[i], pc.next_order)
    <3>1. PcFreeRows(pc) # {} /\ PcFreeRows(pc) \in SUBSET Nat
      BY <2>2, PcConstants DEF BeginRc, PcFreeRows, PcSlot
    <3>2. i \in PcFreeRows(pc)
      BY <3>1, MinIsLeast
    <3>3. i \in PcSlot /\ pc.rows[i].state = "FREE" /\ pc.rows[i].generation # PcMaxGen
      BY <3>2 DEF PcFreeRows
    <3>4. /\ pc' = [pc EXCEPT !.rows = [pc.rows EXCEPT ![i] = n],
                              !.next_order = pc.next_order + 1]
          /\ UNCHANGED pcHistory /\ pc.alive
      BY <1>1, <1>3, <2>2, <3>3 DEF PcBegin, tm_pc_begin, PcResult, PcPortal
    <3> HIDE DEF i
    <3>5. /\ n \in PcRow /\ n.state = "INFLIGHT" /\ n.order = pc.next_order
          /\ n.generation = pc.rows[i].generation + 1
      BY <1>1, <3>3, BeginRow
    <3> HIDE DEF n
    <3>6. RowChanged(pc, pc', i, n, 1)
      BY <1>1, <3>3, <3>4, <3>5, OnePcRowOrdered
    <3>7. PcInv'
      BY <3>3, <3>4, <3>5, <3>6, BeginStep
    <3>8. PcRowsKept
      BY <3>3, <3>5, <3>6 DEF PcRowsKept, RowChanged
    <3>9. QED
      BY <3>7, <3>8
  <2>3. QED
    BY <2>1, <2>2
<1>4. ASSUME NEW t \in PcTickets, NEW status \in PcStatus, PcFailStart(t, status)
      PROVE  PcInv' /\ PcRowsKept
  <2>1. /\ pc' = SetRow(pc, t, RowRc(pc, t, {"INFLIGHT"}, "EALREADY"),
                        pc_ready(pc.rows[t.slot], "START_FAILED", FALSE, status)).p
        /\ UNCHANGED <<pcCancelled, pcObserved, pcSettled>> /\ pc.alive
    BY <1>4 DEF PcFailStart, tm_pc_fail_start, FailStartRc, pcHistory
  <2>2. /\ "START_FAILED" \in PcOutcome /\ {"INFLIGHT"} \in SUBSET {"INFLIGHT", "CANCEL_PENDING"}
        /\ pc.rows[t.slot].state \in {"INFLIGHT"} =>
             ("START_FAILED" = "CANCELLED" <=> pc.rows[t.slot].state = "CANCEL_PENDING")
    BY DEF PcOutcome
  <2>3. pcObserved' = IF RowRc(pc, t, {"INFLIGHT"}, "EALREADY") = "OK" /\ FALSE
                      THEN pcObserved \union {PcOrderOf(t)} ELSE pcObserved
    BY <2>1
  <2>4. QED
    BY <2>1, <2>2, <2>3, ReadyStep
<1>5. ASSUME NEW t \in PcTickets, NEW status \in PcStatus, PcComplete(t, status)
      PROVE  PcInv' /\ PcRowsKept
  <2> DEFINE outcome == CompleteOutcome(pc.rows[t.slot])
  <2>1. /\ pc' = SetRow(pc, t, RowRc(pc, t, {"INFLIGHT", "CANCEL_PENDING"}, "EALREADY"),
                        pc_ready(pc.rows[t.slot], outcome, TRUE, status)).p
        /\ UNCHANGED <<pcCancelled, pcSettled>> /\ pc.alive
        /\ pcObserved' = IF RowRc(pc, t, {"INFLIGHT", "CANCEL_PENDING"}, "EALREADY") = "OK"
                         THEN pcObserved \union {PcOrderOf(t)} ELSE pcObserved
    BY <1>5 DEF PcComplete, tm_pc_complete, CompleteRc
  <2>2. /\ outcome \in PcOutcome /\ outcome # "NONE"
        /\ pc.rows[t.slot].state \in {"INFLIGHT", "CANCEL_PENDING"} =>
             (outcome = "CANCELLED" <=> pc.rows[t.slot].state = "CANCEL_PENDING")
    BY DEF CompleteOutcome, PcOutcome
  <2> HIDE DEF outcome
  <2>3. pcObserved' = IF RowRc(pc, t, {"INFLIGHT", "CANCEL_PENDING"}, "EALREADY") = "OK" /\ TRUE
                      THEN pcObserved \union {PcOrderOf(t)} ELSE pcObserved
    BY <2>1
  <2>4. QED
    BY <2>1, <2>2, <2>3, ReadyStep
<1>6. ASSUME NEW t \in PcTickets, PcRequestCancel(t)
      PROVE  PcInv' /\ PcRowsKept
  <2> DEFINE n == cancel_row(pc.rows[t.slot])
             rc == RowRc(pc, t, {"INFLIGHT"}, "EALREADY")
  <2>1. /\ pc' = SetRow(pc, t, rc, n).p /\ pc.alive
        /\ pcCancelled' = IF rc = "OK" THEN pcCancelled \union {PcOrderOf(t)} ELSE pcCancelled
        /\ UNCHANGED <<pcObserved, pcSettled>>
    BY <1>6 DEF PcRequestCancel, tm_pc_request_cancel, RequestCancelRc
  <2>2. /\ pc.rows[t.slot] \in PcRow
        /\ rc # "OK" => pc' = pc
        /\ rc = "OK" => /\ t.slot \in PcUsed /\ pc.rows[t.slot].state \in {"INFLIGHT"}
                        /\ n \in PcRow => RowChanged(pc, pc', t.slot, n, 0)
    BY <2>1, TicketCall
  <2>3. /\ n \in PcRow /\ n.state = "CANCEL_PENDING" /\ n.order = pc.rows[t.slot].order
        /\ n.generation = pc.rows[t.slot].generation /\ n.result = pc.rows[t.slot].result
    BY <2>2, CancelRow
  <2> HIDE DEF n, rc
  <2>4. CASE rc # "OK"
    BY <2>1, <2>2, <2>4, RefusedStep DEF pcHistory
  <2>5. CASE rc = "OK"
    <3>1. /\ t.slot \in PcUsed /\ pc.rows[t.slot].state = "INFLIGHT"
          /\ RowChanged(pc, pc', t.slot, n, 0) /\ pcCancelled' = pcCancelled \union {n.order}
      BY <2>1, <2>2, <2>3, <2>5 DEF PcOrderOf
    <3>2. Earned(pc.rows[t.slot], pcCancelled, pcObserved)
      BY <3>1, VerdictByRow DEF PcInv, PcOneResult
    <3>3. Earned(n, pcCancelled', pcObserved')
      BY <2>1, <2>3, <3>1, <3>2 DEF Earned
    <3>4. PcInv'
      BY <2>1, <2>3, <3>1, <3>3, UsedStep
    <3>5. PcRowsKept
      BY <2>3, <3>1, KeptByChange
    <3>6. QED
      BY <3>4, <3>5
  <2>6. QED
    BY <2>4, <2>5
<1>7. ASSUME NEW t \in PcTickets, PcCancelQuiesced(t)
      PROVE  PcInv' /\ PcRowsKept
  <2>1. /\ pc' = SetRow(pc, t, RowRc(pc, t, {"CANCEL_PENDING"}, "EALREADY"),
                        pc_ready(pc.rows[t.slot], "CANCELLED", FALSE, 0)).p
        /\ UNCHANGED <<pcCancelled, pcObserved, pcSettled>> /\ pc.alive
    BY <1>7 DEF PcCancelQuiesced, tm_pc_cancel_quiesced, CancelQuiescedRc, pcHistory
  <2>2. /\ "CANCELLED" \in PcOutcome /\ 0 \in PcStatus
        /\ {"CANCEL_PENDING"} \in SUBSET {"INFLIGHT", "CANCEL_PENDING"}
        /\ pc.rows[t.slot].state \in {"CANCEL_PENDING"} =>
             ("CANCELLED" = "CANCELLED" <=> pc.rows[t.slot].state = "CANCEL_PENDING")
    BY PcConstants DEF PcOutcome
  <2>3. pcObserved' = IF RowRc(pc, t, {"CANCEL_PENDING"}, "EALREADY") = "OK" /\ FALSE
                      THEN pcObserved \union {PcOrderOf(t)} ELSE pcObserved
    BY <2>1
  <2>4. QED
    BY <2>1, <2>2, <2>3, ReadyStep
<1>8. ASSUME NEW t \in PcTickets, PcSettle(t)
      PROVE  PcInv' /\ PcRowsKept
  <2> DEFINE n == settle_row(pc.rows[t.slot])
             rc == RowRc(pc, t, {"TAKEN"}, "EBUSY")
  <2>1. /\ pc' = SetRow(pc, t, rc, n).p /\ pc.alive
        /\ pcSettled' = IF rc = "OK" THEN pcSettled \union {PcOrderOf(t)} ELSE pcSettled
        /\ UNCHANGED <<pcCancelled, pcObserved>>
    BY <1>8 DEF PcSettle, tm_pc_settle, PcSettleRc
  <2>2. /\ pc.rows[t.slot] \in PcRow
        /\ rc # "OK" => pc' = pc
        /\ rc = "OK" => /\ t.slot \in PcUsed
                        /\ n \in PcRow => RowChanged(pc, pc', t.slot, n, 0)
    BY <2>1, TicketCall
  <2>3. n \in PcRow /\ n.state = "FREE" /\ n.generation = pc.rows[t.slot].generation
    BY <2>2, SettleRow
  <2> HIDE DEF n, rc
  <2>4. CASE rc # "OK"
    BY <2>1, <2>2, <2>4, RefusedStep DEF pcHistory
  <2>5. CASE rc = "OK"
    <3>1. /\ t.slot \in PcUsed /\ RowChanged(pc, pc', t.slot, n, 0)
          /\ pcSettled' = pcSettled \union {pc.rows[t.slot].order}
      BY <2>1, <2>2, <2>3, <2>5 DEF PcOrderOf
    <3>2. PcInv'
      BY <2>1, <2>3, <3>1, SettleStep
    <3>3. PcRowsKept
      BY <2>3, <3>1, KeptByChange
    <3>4. QED
      BY <3>2, <3>3
  <2>6. QED
    BY <2>4, <2>5
<1>9. CASE PcTake
  <2>1. CASE PcReady(pc) = {}
    BY <1>9, <2>1, RefusedStep DEF PcTake, tm_pc_take, PcResult
  <2>2. CASE PcReady(pc) # {}
    <3> DEFINE i == PcOldest(pc)
               n == taken_row(pc.rows[i])
    <3>1. i \in PcSlot /\ pc.rows[i].state = "READY" /\ i \in PcUsed
      BY <2>2, PcOldestIsReady DEF PcReady, PcUsed
    <3>2. /\ pc' = [pc EXCEPT !.rows = [pc.rows EXCEPT ![i] = n]]
          /\ UNCHANGED <<pcCancelled, pcObserved, pcSettled>> /\ pc.alive
      BY <1>1, <1>9, <2>2, <3>1 DEF PcTake, tm_pc_take, PcResult, PcPortal, pcHistory
    <3> HIDE DEF i
    <3>3. /\ n \in PcRow /\ n.state = "TAKEN" /\ n.order = pc.rows[i].order
          /\ n.generation = pc.rows[i].generation /\ n.result = pc.rows[i].result
      BY <1>1, <3>1, TakenRow
    <3> HIDE DEF n
    <3>4. RowChanged(pc, pc', i, n, 0)
      BY <1>1, <3>1, <3>2, <3>3, OnePcRow
    <3>5. Earned(pc.rows[i], pcCancelled, pcObserved)
      BY <3>1, VerdictByRow DEF PcInv, PcOneResult
    <3>6. Earned(n, pcCancelled', pcObserved')
      BY <3>1, <3>2, <3>3, <3>5 DEF Earned
    <3>7. PcInv'
      BY <3>1, <3>2, <3>3, <3>4, <3>6, UsedStep
    <3>8. PcRowsKept
      BY <3>1, <3>3, <3>4, KeptByChange
    <3>9. QED
      BY <3>7, <3>8
  <2>3. QED
    BY <2>1, <2>2
<1>10. CASE PcSeal
  <2>1. /\ pc' \in PcPortal /\ pc'.rows = pc.rows /\ pc'.next_order = pc.next_order
        /\ pc'.alive /\ pc'.incarnation = pc.incarnation /\ UNCHANGED pcHistory
    BY <1>1, <1>10 DEF PcSeal, tm_pc_seal, PcPortal
  <2>2. PcInv'
    BY <2>1, SamePcRows DEF PcDestroyDrained
  <2>3. QED
    BY <2>1, <2>2 DEF PcRowsKept
<1>11. CASE PcDestroy
  <2>1. CASE ~PcDestroyable(pc)
    BY <1>11, <2>1, RefusedStep DEF PcDestroy, tm_pc_destroy
  <2>2. CASE PcDestroyable(pc)
    <3>1. /\ pc' = [pc EXCEPT !.alive = FALSE] /\ UNCHANGED pcHistory
          /\ \A i \in PcSlot : pc.rows[i].state = "FREE"
      BY <1>11, <2>2 DEF PcDestroy, tm_pc_destroy, PcDestroyable, PcDrained
    <3>2. /\ pc' \in PcPortal /\ pc'.rows = pc.rows /\ pc'.next_order = pc.next_order
          /\ pc'.incarnation = pc.incarnation
      BY <1>1, <3>1 DEF PcPortal
    <3>3. pcSettled = 1 .. pc.next_order - 1
      <4>1. PcUsed = {}
        BY <3>1 DEF PcUsed
      <4>2. QED
        BY <4>1 DEF PcInv, PcOneResult, PcAccounted
    <3>4. PcInv'
      BY <3>1, <3>2, <3>3, SamePcRows DEF PcDestroyDrained, pcHistory
    <3>5. QED
      BY <3>2, <3>4 DEF PcRowsKept
  <2>3. QED
    BY <2>1, <2>2
<1>12. CASE PcCreate
  <2>1. /\ pc' \in PcPortal /\ pc'.alive /\ pc'.next_order = 1
        /\ pc'.incarnation = pc.incarnation + 1
        /\ \A i \in PcSlot : pc'.rows[i].state = "FREE"
        /\ pcCancelled' = {} /\ pcObserved' = {} /\ pcSettled' = {}
    BY <1>1, <1>12, CreatePortal DEF PcCreate
  <2>2. PcFresh'
    BY <2>1 DEF PcFresh
  <2>3. PcInv'
    BY <2>2, FreshPcInv, PTL
  <2>4. QED
    BY <2>1, <2>3 DEF PcRowsKept
<1>13. QED
  BY <1>2, <1>3, <1>4, <1>5, <1>6, <1>7, <1>8, <1>9, <1>10, <1>11, <1>12 DEF PcNext

(* The portal's inductive invariant holds of every interleaving. *)
THEOREM PcInvariant == PcSpec => []PcInv
<1>1. PcInit => PcInv
  <2>1. PcInit => PcFresh
    BY CreatePortal DEF PcInit, PcFresh
  <2>2. QED
    BY <2>1, FreshPcInv
<1>2. PcInv /\ [PcNext]_pcVars => PcInv'
  BY PcStep
<1>3. QED
  BY <1>1, <1>2, PTL DEF PcSpec

(* One result for every operation: nothing begun is lost or delivered twice *)
(* (tm_pc_begin, tm_pc_settle), the verdict is the one the race between     *)
(* tm_pc_complete and tm_pc_request_cancel earned, and tm_pc_destroy leaves *)
(* no operation behind.                                                     *)
THEOREM PcOneResultCorrect == PcSpec => []PcOneResult
<1>1. PcInv => PcOneResult
  BY DEF PcInv
<1>2. QED
  BY <1>1, PcInvariant, PTL

(* A ticket that pc_find refuses stays refused, whatever the call. *)
LEMMA StaleTicketStays ==
  ASSUME PcInv, [PcNext]_pcVars
  PROVE  PcStaleForever
<1> SUFFICES ASSUME NEW t \in PcTickets, ~pc_find(pc, t)
             PROVE  ~pc_find(pc', t)
  BY DEF PcStaleForever
<1>1. pc \in PcPortal /\ pc.incarnation \in Nat
  BY PcTypes
<1>2. /\ t.slot \in PcSlot /\ t.generation \in Nat \ {0} /\ t.incarnation <= pc.incarnation
      /\ (t.incarnation = pc.incarnation) => (t.generation <= pc.rows[t.slot].generation)
  BY <1>1, PcTicketSlot
<1>3. pc.rows[t.slot].generation \in Nat
  BY <1>2, PcTypes
<1>4. PcRowsKept
  BY PcStep
<1>5. CASE \A j \in PcSlot : pc'.rows[j].state = "FREE"
  BY <1>2, <1>5 DEF pc_find
<1>6. CASE /\ pc'.incarnation = pc.incarnation
           /\ pc'.rows[t.slot].generation = pc.rows[t.slot].generation
           /\ pc.rows[t.slot].state = "FREE" => pc'.rows[t.slot].state = "FREE"
  BY <1>6 DEF pc_find
<1>7. CASE /\ pc'.incarnation = pc.incarnation
           /\ pc'.rows[t.slot].generation = pc.rows[t.slot].generation + 1
  <2>1. (t.incarnation = pc.incarnation) => (t.generation # pc'.rows[t.slot].generation)
    BY <1>2, <1>3, <1>7
  <2>2. QED
    BY <1>7, <2>1 DEF pc_find
<1>8. QED
  BY <1>2, <1>4, <1>5, <1>6, <1>7 DEF PcRowsKept

(* A result that is there is not changed by any later call. *)
LEMMA ResultStays ==
  ASSUME PcInv, [PcNext]_pcVars
  PROVE  PcResultStable
<1> SUFFICES ASSUME NEW i \in PcHasResult, pc'.rows[i].state # "FREE",
                    pc'.rows[i].generation = pc.rows[i].generation
             PROVE  pc'.rows[i].result = pc.rows[i].result
  BY DEF PcResultStable
<1>1. i \in PcSlot /\ pc.rows[i].state \in {"READY", "TAKEN"}
  BY DEF PcHasResult
<1>2. PcRowsKept
  BY PcStep
<1>3. QED
  BY <1>1, <1>2 DEF PcRowsKept

(* The whole promise of the portal, for any number of rows, providers and   *)
(* operations: one result for every operation, which no late call changes   *)
(* and no stale ticket reaches.                                             *)
THEOREM PcSettlesOnceCorrect == PcSpec => PcSettlesOnce
<1>1. PcInv /\ [PcNext]_pcVars => [PcOneResult' /\ PcResultStable /\ PcStaleForever]_pcVars
  <2> SUFFICES ASSUME PcInv, [PcNext]_pcVars
               PROVE  PcOneResult' /\ PcResultStable /\ PcStaleForever
    OBVIOUS
  <2>1. PcOneResult'
    BY PcStep DEF PcInv
  <2>2. QED
    BY <2>1, ResultStays, StaleTicketStays
<1>2. QED
  BY <1>1, PcInvariant, PTL DEF PcSpec, PcSettlesOnce
=============================================================================
