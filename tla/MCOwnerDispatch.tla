-------------------------- MODULE MCOwnerDispatch --------------------------
(* The whole owner lane on a small instance: one recorder branch.           *)
EXTENDS OwnerDispatch

MCDepth == 0 :> 1
MCPolicy == 0 :> "ORDERED_LOSSLESS"
MCSampleEvery == 0 :> 0

(* One command of every kind; the sink pump of a branch the graph does not  *)
(* have passes the inbox, which only knows the limit of eight.              *)
MCHoCommand ==
  {[kind |-> "PUMP_SOURCE", branch |-> 0, has_frame |-> 0, frame |-> 0],
   [kind |-> "PUMP_SINK", branch |-> 0, has_frame |-> 0, frame |-> 0],
   [kind |-> "PUMP_SINK", branch |-> 7, has_frame |-> 0, frame |-> 0],
   [kind |-> "STOP", branch |-> 0, has_frame |-> 0, frame |-> 0],
   [kind |-> "FRAME_NOTICE", branch |-> 0, has_frame |-> 1, frame |-> 2]}

(* tm_od_create is given an executor that may have run before: two frames   *)
(* were pumped, the branch holds the first one and the second one waits for *)
(* room.  The portal of that host is sealed.                                *)
MCRef(n) == [frame_id |-> n, slot |-> n - 1, store |-> 1, slot_generation |-> 1]

MCUsedInit ==
  /\ ex = [tm_ex_create EXCEPT !.pending = MCRef(2), !.sourced = 2, !.processed = 2, !.submitted = 1]
  /\ fo = [tm_fo_create(1) EXCEPT
             !.rows[0][0] = [generation |-> 1, pin |-> [store |-> 1, id |-> 2], order |-> 1,
                             state |-> "READY", ref |-> MCRef(1)],
             !.next_order = 2, !.stats[0].ready = 1, !.stats[0].admitted = 1]
  /\ fs = [tm_fs_create(1) EXCEPT
             !.slots[0] = [frame_id |-> 1, state |-> "RETIRING", pins |-> 1, leases |-> 0, slot_generation |-> 1],
             !.slots[1] = [frame_id |-> 2, state |-> "READY", pins |-> 0, leases |-> 0, slot_generation |-> 1],
             !.pins = {[slot |-> 0, generation |-> 1, token |-> 2]},
             !.next_frame_id = 2, !.next_ticket_id = 3]
  /\ fsRefs = {MCRef(1), MCRef(2)}
  /\ exHost = {}
  /\ HoInit
  /\ pc = tm_pc_seal(tm_pc_create(1)) /\ pcCancelled = {} /\ pcObserved = {} /\ pcSettled = {}
  /\ od = tm_od_create /\ odEmitted = <<>>

MCOwnerSpec == (OdInit \/ MCUsedInit) /\ [][OdNext]_odVars /\ OdFairness
=============================================================================
