------------------------- MODULE ProviderCompletion -------------------------
(***************************************************************************)
(* The completion portal of StreamGraph v2                                  *)
(* (turbo_streamgraph_provider_completion.c): the owner begins an operation *)
(* of an asynchronous provider and gets a ticket; the provider's threads    *)
(* report its failure to start, its completion or its quiescence after a    *)
(* cancellation, in any order and as often as they like; the owner takes    *)
(* one result for each operation and settles it.  As in the inbox, a call   *)
(* holds the portal's spin lock throughout and is one step.                 *)
(*                                                                          *)
(* The correlation that the caller passes to begin, and that every result   *)
(* carries back, is the operation's order here: it only names the operation.*)
(***************************************************************************)
EXTENDS Integers, FiniteSets, FiniteSetsExt

CONSTANTS
  PcCapacity,   \* config.capacity
  PcStatus,     \* the status values a provider reports
  PcMaxGen,     \* UINT32_MAX, the last generation of a row
  PcMaxOrder,   \* UINT64_MAX, the value of next_order that admits no operation
  PcMaxInc      \* bound: portals created one after the other

ASSUME PcConstants ==
  /\ PcCapacity \in Nat \ {0}
  /\ 0 \in PcStatus
  /\ PcMaxGen \in Nat \ {0}
  /\ PcMaxOrder \in Nat \ {0}
  /\ PcMaxInc \in Nat \ {0}

VARIABLES
  pc,           \* the portal
  pcCancelled,  \* history: the orders whose cancellation was accepted
  pcObserved,   \* history: the orders whose completion was accepted
  pcSettled     \* history: the orders whose result was delivered and settled

pcHistory == <<pcCancelled, pcObserved, pcSettled>>
pcVars == <<pc, pcCancelled, pcObserved, pcSettled>>

-----------------------------------------------------------------------------
PcSlot == 0 .. PcCapacity - 1

PcState == {"FREE", "INFLIGHT", "CANCEL_PENDING", "READY", "TAKEN"}

PcOutcome == {"NONE", "START_FAILED", "COMPLETED", "CANCELLED"}

PcRow == [state : PcState, generation : 0 .. PcMaxGen, order : Nat,
          result : [outcome : PcOutcome, observed : BOOLEAN, status : PcStatus]]

PcPortal == [alive : BOOLEAN, incarnation : Nat, sealed : BOOLEAN,
             next_order : Nat \ {0}, rows : [PcSlot -> PcRow]]

PcNoResult == [outcome |-> "NONE", observed |-> FALSE, status |-> 0]

PcEmptyRow == [state |-> "FREE", generation |-> 0, order |-> 0, result |-> PcNoResult]

tm_pc_create(inc) ==
  [alive |-> TRUE, incarnation |-> inc, sealed |-> FALSE, next_order |-> 1,
   rows |-> [i \in PcSlot |-> PcEmptyRow]]

PcResult(rc, p) == [rc |-> rc, p |-> p]

pc_find(p, t) ==
  /\ t.incarnation = p.incarnation
  /\ t.generation # 0
  /\ p.rows[t.slot].state # "FREE"
  /\ p.rows[t.slot].generation = t.generation

pc_ready(r, outcome, observed, status) ==
  [r EXCEPT !.result = [outcome |-> outcome, observed |-> observed, status |-> status],
            !.state = "READY"]

PcFreeRows(p) ==
  {i \in PcSlot : p.rows[i].state = "FREE" /\ p.rows[i].generation # PcMaxGen}

BeginRc(p) ==
  IF p.sealed THEN "ESHUTDOWN"
  ELSE IF p.next_order = PcMaxOrder THEN "EEXHAUSTED"
  ELSE IF PcFreeRows(p) = {} THEN "EFULL"
  ELSE "OK"

begin_row(r, n) ==
  [r EXCEPT !.state = "INFLIGHT", !.generation = @ + 1, !.order = n, !.result = PcNoResult]

tm_pc_begin(p) ==
  IF BeginRc(p) = "OK"
  THEN PcResult("OK", [p EXCEPT !.rows[Min(PcFreeRows(p))] = begin_row(@, p.next_order),
                                !.next_order = @ + 1])
  ELSE PcResult(BeginRc(p), p)

(* The status of a call on a ticket whose row must be in one of the states  *)
(* `from`, and the call's effect on that row.                               *)
RowRc(p, t, from, else) ==
  IF ~pc_find(p, t) THEN "ESTALE" ELSE IF p.rows[t.slot].state \notin from THEN else ELSE "OK"

SetRow(p, t, rc, row) ==
  IF rc = "OK" THEN PcResult(rc, [p EXCEPT !.rows[t.slot] = row]) ELSE PcResult(rc, p)

FailStartRc(p, t) == RowRc(p, t, {"INFLIGHT"}, "EALREADY")

tm_pc_fail_start(p, t, status) ==
  SetRow(p, t, FailStartRc(p, t), pc_ready(p.rows[t.slot], "START_FAILED", FALSE, status))

(* Mutant: a completion after a cancellation is a plain completion. *)
CompleteOutcomePlain(row) == "COMPLETED"

CompleteRc(p, t) == RowRc(p, t, {"INFLIGHT", "CANCEL_PENDING"}, "EALREADY")
CompleteOutcome(row) == IF row.state = "INFLIGHT" THEN "COMPLETED" ELSE "CANCELLED"

tm_pc_complete(p, t, status) ==
  SetRow(p, t, CompleteRc(p, t),
         pc_ready(p.rows[t.slot], CompleteOutcome(p.rows[t.slot]), TRUE, status))

RequestCancelRc(p, t) == RowRc(p, t, {"INFLIGHT"}, "EALREADY")

cancel_row(r) == [r EXCEPT !.state = "CANCEL_PENDING"]

tm_pc_request_cancel(p, t) == SetRow(p, t, RequestCancelRc(p, t), cancel_row(p.rows[t.slot]))

CancelQuiescedRc(p, t) == RowRc(p, t, {"CANCEL_PENDING"}, "EALREADY")

tm_pc_cancel_quiesced(p, t) ==
  SetRow(p, t, CancelQuiescedRc(p, t), pc_ready(p.rows[t.slot], "CANCELLED", FALSE, 0))

PcReady(p) == {i \in PcSlot : p.rows[i].state = "READY"}

(* The ready row begun first. *)
PcOldest(p) ==
  CHOOSE i \in PcReady(p) : \A j \in PcReady(p) : p.rows[i].order <= p.rows[j].order

taken_row(r) == [r EXCEPT !.state = "TAKEN"]

tm_pc_take(p) ==
  IF PcReady(p) = {}
  THEN PcResult("EBUSY", p)
  ELSE PcResult("OK", [p EXCEPT !.rows[PcOldest(p)] = taken_row(@)])

TakenPcTicket(p) ==
  [incarnation |-> p.incarnation, slot |-> PcOldest(p),
   generation |-> p.rows[PcOldest(p)].generation]

PcSettleRc(p, t) == RowRc(p, t, {"TAKEN"}, "EBUSY")

settle_row(r) == [r EXCEPT !.state = "FREE", !.order = 0, !.result = PcNoResult]

tm_pc_settle(p, t) == SetRow(p, t, PcSettleRc(p, t), settle_row(p.rows[t.slot]))

tm_pc_seal(p) == [p EXCEPT !.sealed = TRUE]

(* What tm_pc_snapshot reports as drained. *)
PcDrained(p) == \A i \in PcSlot : p.rows[i].state = "FREE"

PcDestroyable(p) == p.sealed /\ PcDrained(p)

tm_pc_destroy(p) == IF PcDestroyable(p) THEN [p EXCEPT !.alive = FALSE] ELSE p

-----------------------------------------------------------------------------
PcTicket == [incarnation : 1 .. PcMaxInc, slot : PcSlot, generation : 1 .. PcMaxGen]

(* The tickets handed out so far, and any ticket of a portal before. *)
PcTickets ==
  {t \in PcTicket : \/ t.incarnation < pc.incarnation
                    \/ /\ t.incarnation = pc.incarnation
                       /\ t.generation <= pc.rows[t.slot].generation}

(* The order of the operation a ticket names. *)
PcOrderOf(t) == pc.rows[t.slot].order

PcInit ==
  /\ pc = tm_pc_create(1)
  /\ pcCancelled = {}
  /\ pcObserved = {}
  /\ pcSettled = {}

PcBegin ==
  /\ pc.alive
  /\ pc' = tm_pc_begin(pc).p
  /\ UNCHANGED pcHistory

PcFailStart(t, status) ==
  /\ pc.alive
  /\ pc' = tm_pc_fail_start(pc, t, status).p
  /\ UNCHANGED pcHistory

PcComplete(t, status) ==
  /\ pc.alive
  /\ pc' = tm_pc_complete(pc, t, status).p
  /\ pcObserved' = IF CompleteRc(pc, t) = "OK" THEN pcObserved \union {PcOrderOf(t)} ELSE pcObserved
  /\ UNCHANGED <<pcCancelled, pcSettled>>

PcRequestCancel(t) ==
  /\ pc.alive
  /\ pc' = tm_pc_request_cancel(pc, t).p
  /\ pcCancelled' =
       IF RequestCancelRc(pc, t) = "OK" THEN pcCancelled \union {PcOrderOf(t)} ELSE pcCancelled
  /\ UNCHANGED <<pcObserved, pcSettled>>

PcCancelQuiesced(t) ==
  /\ pc.alive
  /\ pc' = tm_pc_cancel_quiesced(pc, t).p
  /\ UNCHANGED pcHistory

PcTake ==
  /\ pc.alive
  /\ pc' = tm_pc_take(pc).p
  /\ UNCHANGED pcHistory

PcSettle(t) ==
  /\ pc.alive
  /\ pc' = tm_pc_settle(pc, t).p
  /\ pcSettled' = IF PcSettleRc(pc, t) = "OK" THEN pcSettled \union {PcOrderOf(t)} ELSE pcSettled
  /\ UNCHANGED <<pcCancelled, pcObserved>>

PcSeal ==
  /\ pc.alive
  /\ pc' = tm_pc_seal(pc)
  /\ UNCHANGED pcHistory

PcDestroy ==
  /\ pc.alive
  /\ pc' = tm_pc_destroy(pc)
  /\ UNCHANGED pcHistory

PcCreate ==
  /\ ~pc.alive
  /\ pc.incarnation < PcMaxInc
  /\ pc' = tm_pc_create(pc.incarnation + 1)
  /\ pcCancelled' = {}
  /\ pcObserved' = {}
  /\ pcSettled' = {}

PcNext ==
  \/ PcBegin
  \/ \E t \in PcTickets : \/ \E status \in PcStatus : \/ PcFailStart(t, status)
                                                      \/ PcComplete(t, status)
                          \/ PcRequestCancel(t)
                          \/ PcCancelQuiesced(t)
                          \/ PcSettle(t)
  \/ PcTake
  \/ PcSeal
  \/ PcDestroy
  \/ PcCreate

PcSpec == PcInit /\ [][PcNext]_pcVars

-----------------------------------------------------------------------------
(* Properties *)

(* The portal has the type of tm_pc_portal, and its history only names      *)
(* operations begun.                                                        *)
PcTypeOK ==
  /\ pc \in PcPortal
  /\ pcCancelled \subseteq 1 .. pc.next_order - 1
  /\ pcObserved \subseteq 1 .. pc.next_order - 1

PcUsed == {i \in PcSlot : pc.rows[i].state # "FREE"}

PcHasResult == {i \in PcSlot : pc.rows[i].state \in {"READY", "TAKEN"}}

(* No operation is lost or delivered twice: every operation begun is either *)
(* in exactly one row or settled, never both.                               *)
PcAccounted ==
  /\ {pc.rows[i].order : i \in PcUsed} \union pcSettled = 1 .. pc.next_order - 1
  /\ \A i \in PcUsed : pc.rows[i].order \notin pcSettled
  /\ \A i, j \in PcUsed : pc.rows[i].order = pc.rows[j].order => i = j

(* The verdict is the one the race between the provider and the canceller   *)
(* earned: CANCELLED exactly if the cancellation was accepted, and observed *)
(* exactly if the provider's completion was; an operation that has no       *)
(* result yet was not completed.                                            *)
PcVerdict ==
  \A i \in PcUsed :
    LET row == pc.rows[i]
    IN  /\ i \in PcHasResult =>
             /\ row.result.outcome # "NONE"
             /\ row.result.outcome = "CANCELLED" <=> row.order \in pcCancelled
             /\ row.result.observed <=> row.order \in pcObserved
        /\ row.state = "CANCEL_PENDING" => row.order \in pcCancelled
        /\ row.state = "INFLIGHT" => row.order \notin pcCancelled
        /\ i \notin PcHasResult => row.order \notin pcObserved

(* A result never changes once it is there: late completions, second        *)
(* cancellations and failures to start that race it are all refused.        *)
PcResultStable ==
  \A i \in PcHasResult :
    pc'.rows[i].state # "FREE" /\ pc'.rows[i].generation = pc.rows[i].generation
      => pc'.rows[i].result = pc.rows[i].result

(* A ticket that pc_find refuses is refused for ever: a provider's callback *)
(* that comes after the settlement never hits the row's next operation.     *)
PcStaleForever == \A t \in PcTickets : ~pc_find(pc, t) => ~pc_find(pc', t)

(* The portal is destroyed only after every operation begun was delivered.  *)
PcDestroyDrained == ~pc.alive => pcSettled = 1 .. pc.next_order - 1

(* What the portal promises: one result for every operation, the verdict    *)
(* that the race earned, and none left behind.                              *)
PcOneResult == PcAccounted /\ PcVerdict /\ PcDestroyDrained

(* The inductive invariant of the proofs. *)
PcInv == PcTypeOK /\ PcOneResult

(* The whole promise: one result for every operation, which no late call    *)
(* changes and no stale ticket reaches.                                     *)
PcSettlesOnce == [][PcOneResult' /\ PcResultStable /\ PcStaleForever]_pcVars

=============================================================================
