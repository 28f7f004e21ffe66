------------------------------ MODULE Executor ------------------------------
(***************************************************************************)
(* The executor of StreamGraph v2 (turbo_streamgraph_executor.c): one       *)
(* source, a chain of processors and one sink for every branch of a fanout, *)
(* driven by the owner's calls tm_ex_pump_source and tm_ex_pump_sink.       *)
(*                                                                          *)
(* A pump calls foreign code (source_next, the processors' visits, a sink's *)
(* visit) in the middle of its work, so it is modelled as the code before   *)
(* the callback, the callback, and the code after it.  While `at` names a   *)
(* callback (in_callback = 1) every call on the executor is refused, but    *)
(* the host's code may call the frame store, which it owns.                 *)
(*                                                                          *)
(* The processors of one visit run one after the other between the same two *)
(* executor steps and only their first failure matters: the chain is one    *)
(* callback here.  Of the scratch buffer only whether it holds a frame      *)
(* (pending_bytes # 0) is kept; the counter `backpressure` is left out.     *)
(***************************************************************************)
EXTENDS Fanout

VARIABLES
  ex,       \* the executor
  exHost    \* the pins and leases that the host holds itself

exVars == <<fs, fsRefs, fo, ex, exHost>>

-----------------------------------------------------------------------------
(* State.  `at` says where a suspended pump is; lease, ticket and ref are   *)
(* its local variables.                                                     *)

NoTicket == [incarnation |-> 0, branch |-> 0, slot |-> 0, slot_generation |-> 0]

tm_ex_create ==
  [alive |-> TRUE, stopped |-> FALSE, at |-> "idle",
   pending |-> NoRef, pending_bytes |-> FALSE,
   sourced |-> 0, processed |-> 0, submitted |-> 0, delivered |-> 0,
   lease |-> NoPin, ticket |-> NoTicket, ref |-> NoRef]

(* F(v), with v evaluated once. *)
Once(v, F(_)) == CHOOSE r \in {F(x) : x \in {v}} : TRUE

(* A result: the status and the executor, its fanout and its store after    *)
(* the call; "CALL" means that the call is now in a callback.               *)
ExResult(rc, x, o, s) == [rc |-> rc, x |-> x, o |-> o, s |-> s]

fo_code(rc) ==
  IF rc \in {"OK", "EFULL", "EBUSY"} THEN rc
  ELSE IF rc = "ESHUTDOWN" THEN "ESTATE"
  ELSE "EFRAME"

Idle(x) == [x EXCEPT !.at = "idle", !.lease = NoPin, !.ticket = NoTicket, !.ref = NoRef]

(* Retirement in use (EBUSY) is as good as done: the last holder frees it.  *)
retire_ref(x, o, s) ==
  LET r == tm_fs_retire(s, x.pending)
  IN  IF r.rc \notin {"OK", "EBUSY"}
      THEN ExResult("EFRAME", x, o, s)
      ELSE ExResult("OK", [x EXCEPT !.pending = NoRef], o, r.s)

tm_ex_stop(x, o, s) ==
  LET halted  == [x EXCEPT !.stopped = TRUE, !.pending_bytes = FALSE]
      retired == IF x.pending = NoRef THEN ExResult("OK", halted, o, s)
                 ELSE retire_ref(halted, o, s)
  IN  IF x.at # "idle" THEN ExResult("EINVAL", x, o, s)
      ELSE IF x.stopped THEN ExResult("OK", x, o, s)
      ELSE IF retired.rc # "OK" THEN retired
      ELSE [retired EXCEPT !.o = tm_fo_seal(@)]

(* (void)tm_ex_stop(o); return rc; *)
StopWith(rc, x, o, s) == [tm_ex_stop(x, o, s) EXCEPT !.rc = rc]

-----------------------------------------------------------------------------
(* tm_ex_pump_source *)

(* The pending frame goes to the fanout; a refusal keeps it pending. *)
submit_pending(x, o, s) ==
  LET r == tm_fo_submit(o, s, x.pending)
  IN  IF r.rc # "OK" THEN ExResult(fo_code(r.rc), x, r.o, r.s)
      ELSE retire_ref([x EXCEPT !.submitted = @ + 1], r.o, r.s)

(* The frame in the scratch buffer is published, leased and shown to the    *)
(* processors.                                                              *)
publish_pending(x, o, s) ==
  LET p     == tm_fs_publish_cpu(s)
      x1    == [x EXCEPT !.pending = PublishedRef(s), !.pending_bytes = FALSE]
      w     == tm_fs_acquire_weak(p.s, x1.pending)
      lease == [store |-> s.generation, id |-> w.id]
  IN  IF p.rc = "EFULL" THEN ExResult("EFULL", x, o, s)
      ELSE IF p.rc # "OK" THEN StopWith("EFRAME", x, o, s)
      ELSE IF w.rc # "OK" THEN StopWith("EFRAME", x1, o, p.s)
      ELSE IF tm_fs_map_cpu(w.s, lease) = 0
           THEN StopWith("EFRAME", x1, o, tm_fs_release_lease(w.s, lease).s)
      ELSE ExResult("CALL", [x1 EXCEPT !.at = "process", !.lease = lease], o, w.s)

(* Mutant: a frame that waits for a free slot is not kept. *)
tm_ex_pump_source_repolls(x, o, s) ==
  IF x.at # "idle" THEN ExResult("EINVAL", x, o, s)
  ELSE IF x.stopped THEN ExResult("EOS", x, o, s)
  ELSE IF x.pending # NoRef THEN submit_pending(x, o, s)
  ELSE ExResult("CALL", [x EXCEPT !.at = "source"], o, s)

tm_ex_pump_source(x, o, s) ==
  IF x.at # "idle" THEN ExResult("EINVAL", x, o, s)
  ELSE IF x.stopped THEN ExResult("EOS", x, o, s)
  ELSE IF x.pending # NoRef THEN submit_pending(x, o, s)
  ELSE IF x.pending_bytes THEN publish_pending(x, o, s)
  ELSE ExResult("CALL", [x EXCEPT !.at = "source"], o, s)


(* source_next has returned a frame, the end of the stream or a failure. *)
source_returned(x, o, s, result) ==
  LET x1 == Idle(x)
  IN  IF result = "EOS" THEN ExResult("EOS", [x1 EXCEPT !.stopped = TRUE], tm_fo_seal(o), s)
      ELSE IF result # "FRAME" THEN StopWith("EPROVIDER", x1, o, s)
      ELSE publish_pending([x1 EXCEPT !.pending_bytes = TRUE, !.sourced = @ + 1], o, s)

(* The last processor has returned, or one has failed. *)
process_returned(x, o, s, good) ==
  LET s1 == tm_fs_release_lease(s, x.lease).s
      x1 == Idle(x)
  IN  IF ~good THEN StopWith("EPROVIDER", x1, o, s1)
      ELSE submit_pending([x1 EXCEPT !.processed = @ + 1], o, s1)

-----------------------------------------------------------------------------
(* tm_ex_pump_sink *)

tm_ex_pump_sink(x, o, s, b) ==
  LET ticket == FoTakenTicket(o, b)
      leased(taken, l) ==
        LET lease  == [store |-> s.generation, id |-> l.id]
            undone == tm_fo_settle(taken.o,
                                   IF l.rc = "OK" THEN tm_fs_release_lease(l.s, lease).s ELSE s,
                                   ticket)
        IN  IF l.rc # "OK" \/ tm_fs_map_cpu(l.s, lease) = 0
            THEN StopWith("EFRAME", x, undone.o, undone.s)
            ELSE ExResult("CALL", [x EXCEPT !.at = "sink", !.lease = lease, !.ticket = ticket,
                                            !.ref = FoTakenRef(o, b)], taken.o, l.s)
      take(taken) ==
        IF taken.rc # "OK" THEN ExResult(fo_code(taken.rc), x, o, s)
        ELSE Once(tm_fo_acquire_lease(taken.o, s, ticket), LAMBDA l : leased(taken, l))
  IN  IF x.at # "idle" THEN ExResult("EINVAL", x, o, s) ELSE Once(tm_fo_take(o, s, b), take)

sink_returned(x, o, s, good) ==
  LET x1 == Idle(x)
      settle(settled) ==
        IF settled.rc # "OK" THEN StopWith("EFRAME", x1, settled.o, settled.s)
        ELSE IF ~good THEN StopWith("EPROVIDER", x1, settled.o, settled.s)
        ELSE ExResult("OK", [x1 EXCEPT !.delivered = @ + 1], settled.o, settled.s)
      release(released) ==
        IF released.rc # "OK" THEN StopWith("EFRAME", x1, o, s)
        ELSE Once(tm_fo_settle(o, released.s, x.ticket), settle)
  IN  Once(tm_fs_release_lease(s, x.lease), release)

tm_ex_discard_ready(x, o, s, b) ==
  LET r == tm_fo_discard_ready(o, s, b)
  IN  IF x.at # "idle" THEN ExResult("EINVAL", x, o, s)
      ELSE IF ~x.stopped THEN ExResult("ESTATE", x, o, s)
      ELSE ExResult(fo_code(r.rc), x, r.o, r.s)

tm_ex_destroy(x, o, s) ==
  LET r == tm_fo_destroy(o)
  IN  IF x.at # "idle" THEN ExResult("EINVAL", x, o, s)
      ELSE IF ~x.stopped THEN ExResult("EBUSY", x, o, s)
      ELSE IF r.rc # "OK" THEN ExResult(fo_code(r.rc), x, o, s)
      ELSE ExResult("OK", [x EXCEPT !.alive = FALSE], r.o, s)

-----------------------------------------------------------------------------
(* The executor and a host that drives it and uses the store beside it.     *)

ExInit ==
  /\ FoInit
  /\ ex = tm_ex_create
  /\ exHost = {}

(* The references the host knows: those the callbacks were shown. *)
ExEffect(call) ==
  \E r \in {call} :
    /\ ex' = r.x
    /\ fo' = r.o
    /\ fs' = r.s
    /\ fsRefs' = IF r.x.pending = NoRef THEN fsRefs ELSE fsRefs \union {r.x.pending}
    /\ UNCHANGED exHost

ExPumpSource ==
  ex.alive /\ ExEffect(tm_ex_pump_source(ex, fo, fs))

ExSourceReturns(result) ==
  ex.at = "source" /\ ExEffect(source_returned(ex, fo, fs, result))

ExProcessReturns(good) ==
  ex.at = "process" /\ ExEffect(process_returned(ex, fo, fs, good))

ExPumpSink(b) ==
  ex.alive /\ ExEffect(tm_ex_pump_sink(ex, fo, fs, b))

ExSinkReturns(good) ==
  ex.at = "sink" /\ ExEffect(sink_returned(ex, fo, fs, good))

ExStop ==
  ex.alive /\ ExEffect(tm_ex_stop(ex, fo, fs))

ExDiscardReady(b) ==
  ex.alive /\ ExEffect(tm_ex_discard_ready(ex, fo, fs, b))

ExDestroy ==
  ex.alive /\ ExEffect(tm_ex_destroy(ex, fo, fs))

(* The host's own use of the store, between the executor's steps and inside *)
(* the callbacks.                                                           *)
ExHostPin(ref) ==
  /\ FsReservePin(ref)
  /\ exHost' = IF tm_fs_reserve_pin(fs, ref).rc = "OK"
               THEN exHost \union {[store |-> fs.generation, id |-> tm_fs_reserve_pin(fs, ref).id]}
               ELSE exHost
  /\ UNCHANGED <<fo, ex>>

ExHostLease(ref) ==
  /\ FsAcquireWeak(ref)
  /\ exHost' = IF tm_fs_acquire_weak(fs, ref).rc = "OK"
               THEN exHost \union {[store |-> fs.generation, id |-> tm_fs_acquire_weak(fs, ref).id]}
               ELSE exHost
  /\ UNCHANGED <<fo, ex>>

ExHostRelease(t) ==
  /\ FsReleasePin(t) \/ FsReleaseLease(t)
  /\ exHost' = IF fs' = fs THEN exHost ELSE exHost \ {t}
  /\ UNCHANGED <<fo, ex>>

ExHostSeal ==
  /\ FsSeal
  /\ UNCHANGED <<fo, ex, exHost>>

ExNext ==
  \/ ExPumpSource
  \/ \E result \in {"FRAME", "EOS", "FAILED"} : ExSourceReturns(result)
  \/ \E good \in BOOLEAN : ExProcessReturns(good) \/ ExSinkReturns(good)
  \/ \E b \in FoBranch : ExPumpSink(b) \/ ExDiscardReady(b)
  \/ ExStop
  \/ ExDestroy
  \/ \E ref \in fsRefs : ExHostPin(ref) \/ ExHostLease(ref)
  \/ \E t \in exHost : ExHostRelease(t)
  \/ ExHostSeal

ExSpec == ExInit /\ [][ExNext]_exVars

(* A sink's callback returns, the owner keeps pumping the sinks that have   *)
(* frames, and the host keeps trying to destroy the executor.  The guards   *)
(* repeat what the calls test; nothing is asked of the source.              *)
ExFairness ==
  /\ WF_exVars(\E good \in BOOLEAN : ExSinkReturns(good))
  /\ \A b \in FoBranch : WF_exVars(ex.at = "idle" /\ FoReady(fo, b) # {} /\ ExPumpSink(b))
  /\ WF_exVars(ex.at = "idle" /\ FoDestroyable(fo) /\ ExDestroy)

ExFairSpec == ExSpec /\ ExFairness

-----------------------------------------------------------------------------
(* Properties *)

One(p) == IF p THEN 1 ELSE 0

(* While the executor runs, every frame that the source produced is in      *)
(* exactly one place: waiting in the scratch buffer, with the processors,   *)
(* pending, or submitted.  However often the pumps meet a full store or a   *)
(* full branch, no frame is lost, processed twice or submitted twice.       *)
ExFrameConserved ==
  /\ ~ex.stopped =>
       /\ ex.sourced = ex.processed + One(ex.pending_bytes) + One(ex.at = "process")
       /\ ex.processed = ex.submitted + One(ex.pending # NoRef /\ ex.at # "process")
  /\ ex.submitted = fo.next_order - 1

(* The executor leaks neither slots nor credits.  The only frame that       *)
(* nobody has retired yet is the pending one; with FsNoStrandedSlot, which  *)
(* says that every other slot in use has a holder, all slots are free once  *)
(* the branches are drained.  Every pin and lease is a row's, a suspended   *)
(* callback's or the host's, and a suspended callback is still shown the    *)
(* frame it was called for, whatever the host does to the store meanwhile.  *)
ExNoLeak ==
  /\ \A i \in Slot : fs.slots[i].state = "READY" =>
       ex.pending.slot = i /\ ex.pending.slot_generation = fs.slots[i].slot_generation
  /\ Cardinality(fs.pins) + Cardinality(fs.leases)
       = Cardinality(FoUsedRows) + One(ex.at \in {"process", "sink"}) + Cardinality(exHost)
  /\ ex.at = "process" => tm_fs_map_cpu(fs, ex.lease) = ex.pending.frame_id
  /\ ex.at = "sink" => tm_fs_map_cpu(fs, ex.lease) = ex.ref.frame_id


(* The pumps of the executor lose, repeat and leak nothing. *)
ExConserves == ExFrameConserved /\ ExNoLeak
=============================================================================
