--------------------------- MODULE OwnerDispatch ---------------------------
(***************************************************************************)
(* The owner dispatcher of StreamGraph v2                                   *)
(* (turbo_streamgraph_owner_dispatch.c), composed with the command inbox,   *)
(* the executor over its fanout and frame store, and the completion portal. *)
(* One thread, the media owner, runs tm_od_step and tm_od_step_completion.  *)
(* Producer threads fill the inbox and provider threads answer in the       *)
(* portal while a step is under way, so a step is cut where the owner takes *)
(* the lock of the inbox or of the portal again and at its callbacks: take, *)
(* execute, callback, settle.                                               *)
(*                                                                          *)
(* The frame that a FRAME_NOTICE names is the field `frame` of the command, *)
(* the frame_id of a reference that the producer has seen.                  *)
(***************************************************************************)
EXTENDS Executor, Handoff, ProviderCompletion

CONSTANT
  OdVisitor     \* whether config.visit_frame is given

ASSUME OdConstants == OdVisitor \in BOOLEAN

VARIABLES
  od,           \* the dispatcher
  odEmitted     \* history: the orders of the results given to terminal_emit

hoAll == <<ho, hoLog, hoLast>>
pcAll == <<pc, pcCancelled, pcObserved, pcSettled>>
exAll == <<fs, fsRefs, fo, ex, exHost>>
odVars == <<fs, fsRefs, fo, ex, exHost, ho, hoLog, hoLast,
            pc, pcCancelled, pcObserved, pcSettled, od, odEmitted>>

-----------------------------------------------------------------------------
(* State.  `at` says where the step under way is; in_step is at # "idle".   *)

NoHoTicket == [incarnation |-> 0, slot |-> 0, generation |-> 0]

tm_od_create ==
  [alive |-> TRUE, at |-> "idle", source_ended |-> FALSE, owner_failed |-> FALSE,
   ticket |-> NoHoTicket, command |-> HoNone, outcome |-> "NONE",
   pin |-> NoPin, lease |-> NoPin, bound |-> FALSE, pending_completion |-> NoHoTicket]

OdIdle(d) == [d EXCEPT !.at = "idle", !.ticket = NoHoTicket, !.command = HoNone,
                       !.outcome = "NONE", !.pin = NoPin, !.lease = NoPin]

(* What tm_od_step makes of the executor's status. *)
OdOutcomeOf(rc) ==
  IF rc = "OK" THEN "COMPLETED"
  ELSE IF rc \in {"EFULL", "EBUSY"} THEN "BACKPRESSURE"
  ELSE IF rc = "EOS" THEN "EOS"
  ELSE IF rc = "ESTATE" THEN "REJECTED"
  ELSE "FAILED"

(* The reference a frame notice carries. *)
OdNoticeRef(c) == CHOOSE r \in fsRefs : r.frame_id = c.frame

OdInit ==
  /\ ExInit /\ HoInit /\ PcInit
  /\ od = tm_od_create
  /\ odEmitted = <<>>

-----------------------------------------------------------------------------
(* tm_od_step *)

(* The executor after the call r, stopped as well when the call failed. *)
OdExecutorEffect(r, failed) ==
  \E r1 \in {IF failed THEN tm_ex_stop(r.x, r.o, r.s) ELSE r} :
    /\ ex' = r1.x
    /\ fo' = r1.o
    /\ fs' = r1.s
    /\ fsRefs' = IF r1.x.pending = NoRef THEN fsRefs ELSE fsRefs \union {r1.x.pending}
    /\ UNCHANGED exHost

OdSealIf(p) == ho' = IF p THEN tm_ho_seal(ho) ELSE ho

(* What follows the executor's call for a command of this kind: a callback, *)
(* or the end of the execution with the call's status.                      *)
OdExecuted(r, kind) ==
  LET failed == OdOutcomeOf(r.rc) = "FAILED"
      ended  == kind = "STOP" \/ (kind = "PUMP_SOURCE" /\ r.rc = "EOS")
  IN  IF r.rc = "CALL"
      THEN /\ od' = [od EXCEPT !.at = "callback"]
           /\ OdExecutorEffect(r, FALSE)
           /\ UNCHANGED ho
      ELSE /\ od' = [od EXCEPT !.at = "settle", !.outcome = OdOutcomeOf(r.rc),
                               !.owner_failed = @ \/ failed, !.source_ended = @ \/ ended]
           /\ OdExecutorEffect(r, failed)
           /\ OdSealIf(failed \/ ended)

OdRest == UNCHANGED <<hoLog, hoLast, odEmitted>> /\ UNCHANGED pcAll

(* Mutant: after a failure the owner takes no more commands. *)
OdTake_failed ==
  /\ od.alive /\ od.at = "idle" /\ ~od.owner_failed
  /\ HoReady(ho) # {}
  /\ HoTake
  /\ od' = [od EXCEPT !.at = "taken", !.ticket = TakenTicket(ho), !.command = TakenCommand(ho)]
  /\ UNCHANGED <<exAll, pcAll, odEmitted>>

(* The owner takes the oldest command; with an empty inbox nothing happens. *)
OdTake ==
  /\ od.alive /\ od.at = "idle"
  /\ HoReady(ho) # {}
  /\ HoTake
  /\ od' = [od EXCEPT !.at = "taken", !.ticket = TakenTicket(ho), !.command = TakenCommand(ho)]
  /\ UNCHANGED <<exAll, pcAll, odEmitted>>

(* A PUMP or STOP command runs up to its first callback or to its end. *)
OdExecute ==
  /\ od.at = "taken"
  /\ od.command.kind # "FRAME_NOTICE"
  /\ LET kind == od.command.kind
     IN  \E r \in {IF kind = "STOP" THEN tm_ex_stop(ex, fo, fs)
                   ELSE IF kind = "PUMP_SOURCE" /\ ~od.source_ended /\ ~od.owner_failed
                   THEN tm_ex_pump_source(ex, fo, fs)
                   ELSE IF kind = "PUMP_SINK" /\ ~od.owner_failed
                   THEN IF od.command.branch \in FoBranch
                        THEN tm_ex_pump_sink(ex, fo, fs, od.command.branch)
                        ELSE ExResult("EINVAL", ex, fo, fs)
                   ELSE ExResult("ESTATE", ex, fo, fs)} :
           OdExecuted(r, kind)
  /\ OdRest

(* A callback of the executor returns, and the pump goes on. *)
OdCallbackReturns ==
  /\ od.at = "callback"
  /\ \/ /\ ex.at = "source"
        /\ \E result \in {"FRAME", "EOS", "FAILED"} :
             \E r \in {source_returned(ex, fo, fs, result)} : OdExecuted(r, "PUMP_SOURCE")
     \/ /\ ex.at = "process"
        /\ \E good \in BOOLEAN :
             \E r \in {process_returned(ex, fo, fs, good)} : OdExecuted(r, "PUMP_SOURCE")
     \/ /\ ex.at = "sink"
        /\ \E good \in BOOLEAN :
             \E r \in {sink_returned(ex, fo, fs, good)} : OdExecuted(r, "PUMP_SINK")
  /\ OdRest

(* od_frame_notice up to the visitor: the weak reference becomes a pin, the *)
(* pin a lease.                                                             *)
OdNotice ==
  /\ od.at = "taken"
  /\ od.command.kind = "FRAME_NOTICE"
  /\ LET p     == tm_fs_reserve_pin(fs, OdNoticeRef(od.command))
         pin   == [store |-> fs.generation, id |-> p.id]
         l     == tm_fs_acquire_pinned(p.s, pin)
         lease == [store |-> fs.generation, id |-> l.id]
         undo  == tm_fs_release_pin(p.s, pin).s
     IN  IF od.source_ended \/ od.owner_failed \/ ~OdVisitor
         THEN /\ od' = [od EXCEPT !.at = "settle", !.outcome = "REJECTED"]
              /\ UNCHANGED <<ho, exAll>>
         ELSE IF p.rc # "OK"
         THEN /\ od' = [od EXCEPT !.at = "settle",
                          !.outcome = IF p.rc \in {"ESTALE", "EBUSY"} THEN "STALE_FRAME" ELSE "FAILED"]
              /\ UNCHANGED <<ho, exAll>>
         ELSE IF l.rc # "OK"
         THEN /\ od' = [od EXCEPT !.at = "settle", !.outcome = "FAILED", !.owner_failed = TRUE]
              /\ OdSealIf(TRUE)
              /\ OdExecutorEffect(ExResult("OK", ex, fo, undo), TRUE)
         ELSE /\ od' = [od EXCEPT !.at = "visit", !.pin = pin, !.lease = lease]
              /\ fs' = l.s
              /\ UNCHANGED <<ho, fsRefs, fo, ex, exHost>>
  /\ OdRest


OdUnvisit(s) == tm_fs_release_pin(tm_fs_release_lease(s, od.lease).s, od.pin).s

(* The visitor returns; a failure of it stops everything. *)
OdVisitReturns(good) ==
  /\ od.at = "visit"
  /\ od' = [od EXCEPT !.at = "settle", !.outcome = IF good THEN "COMPLETED" ELSE "FAILED",
                      !.owner_failed = @ \/ ~good, !.pin = NoPin, !.lease = NoPin]
  /\ OdSealIf(~good)
  /\ OdExecutorEffect(ExResult("OK", ex, fo, OdUnvisit(fs)), ~good)
  /\ OdRest

(* The command's row is given back, whatever came of the command. *)
OdSettle ==
  /\ od.at = "settle"
  /\ LET r == tm_ho_settle(ho, od.ticket)
     IN  /\ ho' = r.q
         /\ od' = [OdIdle(od) EXCEPT !.owner_failed = @ \/ r.rc # "OK"]
  /\ UNCHANGED exAll
  /\ OdRest

-----------------------------------------------------------------------------
(* tm_od_step_completion and the settlement of a delivery that failed *)

(* tm_od_bind_completion: the portal is bound once. *)
OdBind ==
  /\ od.alive /\ od.at = "idle" /\ ~od.bound
  /\ od' = [od EXCEPT !.bound = TRUE]
  /\ UNCHANGED <<exAll, hoAll, pcAll, odEmitted>>

OdMayTakeResult == od.bound /\ od.at = "idle" /\ od.pending_completion = NoHoTicket

OdTakeResult ==
  /\ od.alive /\ OdMayTakeResult
  /\ PcReady(pc) # {}
  /\ PcTake
  /\ od' = [od EXCEPT !.at = "emit", !.pending_completion = TakenPcTicket(pc)]
  /\ odEmitted' = Append(odEmitted, pc.rows[PcOldest(pc)].order)
  /\ UNCHANGED <<exAll, hoAll>>

(* tm_pc_settle of the pending ticket. *)
OdSettleResult ==
  /\ PcSettle(od.pending_completion)
  /\ od' = IF PcSettleRc(pc, od.pending_completion) = "OK"
           THEN [od EXCEPT !.at = "idle", !.pending_completion = NoHoTicket]
           ELSE [od EXCEPT !.at = "idle"]

(* Mutant: a failed delivery is tried again. *)
OdEmitReturns_again(delivered) ==
  /\ od.at = "emit"
  /\ \/ delivered /\ OdSettleResult /\ UNCHANGED odEmitted
     \/ /\ ~delivered
        /\ odEmitted' = Append(odEmitted, odEmitted[Len(odEmitted)])
        /\ UNCHANGED <<od, pcAll>>
  /\ UNCHANGED <<exAll, hoAll>>

(* terminal_emit returns: after a failed delivery the result stays TAKEN. *)
OdEmitReturns(delivered) ==
  /\ od.at = "emit"
  /\ \/ delivered /\ OdSettleResult
     \/ ~delivered /\ od' = [od EXCEPT !.at = "idle"] /\ UNCHANGED pcAll
  /\ UNCHANGED <<exAll, hoAll, odEmitted>>

(* tm_od_settle_pending_completion: the host has reconciled the delivery. *)
OdSettlePending ==
  /\ od.alive /\ od.at = "idle" /\ od.pending_completion # NoHoTicket
  /\ OdSettleResult
  /\ UNCHANGED <<exAll, hoAll, odEmitted>>

OdDestroyable ==
  /\ od.at = "idle" /\ od.pending_completion = NoHoTicket
  /\ ho.sealed /\ HoDrained(ho)
  /\ od.bound => pc.sealed /\ PcDrained(pc)

OdDestroy ==
  /\ od.alive /\ OdDestroyable
  /\ od' = [od EXCEPT !.alive = FALSE]
  /\ UNCHANGED <<exAll, hoAll, pcAll, odEmitted>>

-----------------------------------------------------------------------------
(* The other threads: producers of commands, the provider, and the host.    *)

OdProducer ==
  /\ \/ HoReserve
     \/ \E t \in HoTickets : \/ HoAbort(t)
                             \/ \E c \in HoCommand :
                                  /\ c.has_frame = 1 => \E r \in fsRefs : r.frame_id = c.frame
                                  /\ HoPublish(t, c)
  /\ UNCHANGED <<exAll, pcAll, od, odEmitted>>

OdProvider ==
  /\ \/ PcBegin
     \/ \E t \in PcTickets : \/ \E status \in PcStatus : PcFailStart(t, status) \/ PcComplete(t, status)
                             \/ PcRequestCancel(t)
                             \/ PcCancelQuiesced(t)
  /\ UNCHANGED <<exAll, hoAll, od, odEmitted>>

OdHostSeal ==
  /\ \/ PcSeal /\ UNCHANGED hoAll
     \/ HoSeal /\ UNCHANGED pcAll
  /\ UNCHANGED <<exAll, od, odEmitted>>

OdOwner ==
  \/ OdTake
  \/ OdExecute
  \/ OdCallbackReturns
  \/ OdNotice
  \/ \E good \in BOOLEAN : OdVisitReturns(good)
  \/ OdSettle
  \/ OdTakeResult
  \/ \E delivered \in BOOLEAN : OdEmitReturns(delivered)

OdNext ==
  \/ OdOwner
  \/ OdBind
  \/ OdSettlePending
  \/ OdDestroy
  \/ OdProducer
  \/ OdProvider
  \/ OdHostSeal

OdSpec == OdInit /\ [][OdNext]_odVars

(* The owner's thread keeps running both steps and its callbacks return;    *)
(* the host reconciles failed deliveries, seals the portal and retries the  *)
(* destruction; a producer that can no longer publish aborts; and the       *)
(* provider answers what was begun.                                         *)
OdFairness ==
  /\ WF_odVars(OdTake) /\ WF_odVars(OdExecute) /\ WF_odVars(OdCallbackReturns)
  /\ WF_odVars(OdNotice) /\ WF_odVars(\E good \in BOOLEAN : OdVisitReturns(good))
  /\ WF_odVars(OdSettle)
  /\ SF_odVars(OdTakeResult) /\ WF_odVars(\E d \in BOOLEAN : OdEmitReturns(d))
  /\ SF_odVars(OdSettlePending)
  /\ WF_odVars(OdDestroy)
  /\ WF_odVars(PcSeal /\ UNCHANGED <<exAll, hoAll, od, odEmitted>>)
  /\ \A t \in HoTicket : WF_odVars(HoAbort(t) /\ UNCHANGED <<exAll, pcAll, od, odEmitted>>)
  /\ \A t \in PcTicket : WF_odVars(PcComplete(t, 0) /\ UNCHANGED <<exAll, hoAll, od, odEmitted>>)

OdFairSpec == OdSpec /\ OdFairness

-----------------------------------------------------------------------------
(* Properties *)

(* A taken row of the inbox is always the one of the step under way, and a  *)
(* taken row of the portal the one of the pending delivery: no outcome of a *)
(* command, no failed delivery and no callback strands a credit, which      *)
(* would keep the inbox or the portal from ever being destroyed.            *)
OdTakenOwned ==
  /\ \A i \in HoSlot : ho.rows[i].state = "TAKEN" <=>
        /\ od.at \in {"taken", "callback", "visit", "settle"}
        /\ od.ticket = [incarnation |-> ho.incarnation, slot |-> i,
                        generation |-> ho.rows[i].generation]
  /\ \A i \in PcSlot : pc.rows[i].state = "TAKEN" <=>
        od.pending_completion = [incarnation |-> pc.incarnation, slot |-> i,
                                 generation |-> pc.rows[i].generation]

(* Every result is given to terminal_emit at most once, and its operation   *)
(* is settled only after that: a failed delivery is not repeated by later   *)
(* steps and not lost either.                                               *)
OdEmittedOnce ==
  /\ \A i, j \in 1 .. Len(odEmitted) : odEmitted[i] = odEmitted[j] => i = j
  /\ pcSettled \subseteq ToSet(odEmitted)

(* Once the source has ended or a command has failed, the inbox admits no   *)
(* further command and the executor and its fanout admit no further frame.  *)
OdEndedSealed ==
  od.source_ended \/ od.owner_failed => ho.sealed /\ ex.stopped /\ fo.sealed

(* What the visitor of a frame notice is shown is the frame the notice      *)
(* names, and the dispatcher holds a pin and a lease only for that visit.   *)
OdVisitBorrows ==
  /\ od.at = "visit" => tm_fs_map_cpu(fs, od.lease) = od.command.frame
  /\ Cardinality(fs.pins) = Cardinality(FoUsedRows) + One(od.at = "visit")
  /\ Cardinality(fs.leases) = One(od.at = "visit") + One(ex.at \in {"process", "sink"})

(* Every command accepted is executed and settled in the end. *)
OdCommandsDone ==
  \A n \in 1 .. HoMaxOrder : (n < ho.next_order) ~> (hoLast >= n /\ od.at = "idle")

(* Once the inbox is sealed, by the host, by STOP, at the end of the source *)
(* or after a failure, the dispatcher is destroyed in the end.              *)
OdShutdownCompletes == ho.sealed ~> ~od.alive

(* Whatever a step of the dispatcher meets, it strands no credit, admits    *)
(* nothing after the end and borrows a frame for no longer than its visit.  *)
OdSound == OdTakenOwned /\ OdEndedSealed /\ OdVisitBorrows

(* The owner loop gets done: accepted commands are executed, and a sealed   *)
(* inbox leads to the destruction of the dispatcher.                        *)
OdFinishes == OdCommandsDone /\ OdShutdownCompletes
=============================================================================
