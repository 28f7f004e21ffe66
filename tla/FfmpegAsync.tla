----------------------------- MODULE FfmpegAsync -----------------------------
(***************************************************************************)
(* The asynchronous MJPEG decoder of StreamGraph v2                         *)
(* (adapters/ffmpeg/src/turbo_streamgraph_ffmpeg_async.c): the host's       *)
(* worker threads run one operation each, a packet or the end of the        *)
(* stream, on the synchronous source, leave the picture in one slot and     *)
(* report to the completion portal; the media owner accepts the picture by  *)
(* its ticket and copies it out.                                            *)
(*                                                                          *)
(* A run is a sequence of steps: the atomic gate worker_active, sections    *)
(* under the metadata lock, calls of the source, which are not locked, and  *)
(* the calls of the portal and of the host's wake function.                 *)
(*                                                                          *)
(* A picture is the ticket of the operation whose packet it came from.      *)
(***************************************************************************)
EXTENDS FfmpegSource, ProviderCompletion

CONSTANT FfaWorker   \* the host's worker threads

(* The portal carries every tm_ff_status. *)
ASSUME FfaConstants == 0 .. 3 \subseteq PcStatus

VARIABLES
  ffa,          \* the decoder
  ffaRun,       \* the locals of every worker's run
  ffaAdmitted,  \* history: the tickets whose run was admitted
  ffaAccepted,  \* history: the ticket that tm_ffa_owner_accept armed last
  ffaDelivered  \* history: the tickets whose picture was copied out

pcAll == <<pc, pcCancelled, pcObserved, pcSettled>>
ffaVars == <<ff, ffCalls, ffHeld, pc, pcCancelled, pcObserved, pcSettled,
             ffa, ffaRun, ffaAdmitted, ffaAccepted, ffaDelivered>>

-----------------------------------------------------------------------------
FfaNoTicket == [incarnation |-> 0, slot |-> 0, generation |-> 0]

(* packet, work and published: whose bytes the codec's packet buffer, the   *)
(* worker's buffer and the slot hold.                                       *)
tm_ffa_create ==
  [alive |-> TRUE, worker_active |-> FALSE, state |-> "EMPTY", armed |-> FALSE,
   cancelled |-> FALSE, eof_admitted |-> FALSE, ticket |-> FfaNoTicket,
   packet |-> FfaNoTicket, work |-> FfaNoTicket, published |-> FfaNoTicket,
   decoded |-> 0, delivered |-> 0, discarded |-> 0]

FfaOut == [at |-> "out", op |-> "none", ticket |-> FfaNoTicket, status |-> "OK"]

(* tm_ff_status, as the number that goes through the portal. *)
FfaCode(status) == CHOOSE n \in 0 .. 3 : <<"OK", "ESTATE", "ECODEC", "EOF">>[n + 1] = status

FfaInit ==
  /\ FfInit
  /\ PcInit
  /\ ffa = tm_ffa_create
  /\ ffaRun = [w \in FfaWorker |-> FfaOut]
  /\ ffaAdmitted = {}
  /\ ffaAccepted = FfaNoTicket
  /\ ffaDelivered = {}

Goto(w, at) == ffaRun' = [ffaRun EXCEPT ![w].at = at]
GotoWith(w, at, status) == ffaRun' = [ffaRun EXCEPT ![w].at = at, ![w].status = status]

-----------------------------------------------------------------------------
(* tm_ffa_run_mjpeg and tm_ffa_run_eof *)

(* The host gives each ticket to one run.  A worker that finds the gate     *)
(* taken returns EFULL and has done nothing.                                *)
FfaEnter(w, op, t) ==
  /\ ffa.alive /\ ffaRun[w].at = "out"
  /\ t \notin ffaAdmitted /\ \A v \in FfaWorker : ffaRun[v].ticket # t
  /\ ~ffa.worker_active
  /\ ffa' = [ffa EXCEPT !.worker_active = TRUE]
  /\ ffaRun' = [ffaRun EXCEPT ![w] = [at |-> "admit", op |-> op, ticket |-> t, status |-> "OK"]]
  /\ UNCHANGED <<ff, ffCalls, ffHeld, pcAll, ffaAdmitted, ffaAccepted, ffaDelivered>>

FfaAdmissible == ffa.state = "EMPTY" /\ ~ffa.cancelled /\ ~ffa.eof_admitted

FfaAdmit(w) ==
  LET run == ffaRun[w]
  IN  /\ run.at = "admit"
      /\ \/ /\ FfaAdmissible
            /\ ffa' = [ffa EXCEPT !.state = "DECODING", !.ticket = run.ticket,
                                  !.eof_admitted = (run.op = "eof")]
            /\ Goto(w, "submit")
            /\ ffaAdmitted' = ffaAdmitted \union {run.ticket}
         \/ /\ ~FfaAdmissible
            /\ GotoWith(w, "release", "ESTATE")
            /\ UNCHANGED <<ffa, ffaAdmitted>>
      /\ UNCHANGED <<ff, ffCalls, ffHeld, pcAll, ffaAccepted, ffaDelivered>>

(* Mutant: a packet that the source refuses is not reported. *)
FfaSubmit_silent(w, fits) ==
  LET run == ffaRun[w]
      r   == IF run.op = "eof" THEN tm_ff_finish(ff) ELSE tm_ff_submit_mjpeg(ff, fits)
  IN  /\ run.at = "submit"
      /\ ff' = r.s
      /\ ffa' = [ffa EXCEPT !.packet = IF run.op = "mjpeg" /\ r.rc = "OK" THEN run.ticket ELSE @]
      /\ Goto(w, IF r.rc = "OK" THEN "decode" ELSE "release")
      /\ UNCHANGED <<ffCalls, ffHeld, pcAll, ffaAdmitted, ffaAccepted, ffaDelivered>>

(* tm_ff_submit_mjpeg or tm_ff_finish, on the worker and without the lock.  *)
(* A packet over the limit is EFULL, which is ECODEC's equal here.          *)
FfaSubmit(w, fits) ==
  LET run == ffaRun[w]
      r   == IF run.op = "eof" THEN tm_ff_finish(ff) ELSE tm_ff_submit_mjpeg(ff, fits)
  IN  /\ run.at = "submit"
      /\ ff' = r.s
      /\ ffa' = [ffa EXCEPT !.packet = IF run.op = "mjpeg" /\ r.rc = "OK" THEN run.ticket ELSE @]
      /\ IF r.rc = "OK" THEN Goto(w, "decode")
         ELSE GotoWith(w, "publish", IF r.rc = "EFULL" THEN "ECODEC" ELSE r.rc)
      /\ UNCHANGED <<ffCalls, ffHeld, pcAll, ffaAdmitted, ffaAccepted, ffaDelivered>>

FfaDecodeStatus(op, rc) ==
  IF op = "mjpeg" /\ rc = "FRAME" THEN "OK"
  ELSE IF op = "eof" /\ rc = "EOS" THEN "EOF"
  ELSE "ECODEC"

FfaDecode(w) ==
  /\ ffaRun[w].at = "decode"
  /\ \E a \in FfCodecAnswers(ffHeld, FfNextStep(ff, TRUE)) :
       LET rc == tm_ff_next_cpu_luma(ff, TRUE, a[1], a[2]).rc
       IN  /\ FfCall(TRUE, a)
           /\ ffa' = [ffa EXCEPT !.work = IF rc = "FRAME" THEN ffa.packet ELSE @]
           /\ GotoWith(w, "publish", FfaDecodeStatus(ffaRun[w].op, rc))
  /\ UNCHANGED <<pcAll, ffaAdmitted, ffaAccepted, ffaDelivered>>

(* Mutant: the portal learns of the picture before it is in the slot. *)
FfaPublish_late(w) ==
  /\ ffaRun[w].at = "publish"
  /\ PcComplete(ffaRun[w].ticket, FfaCode(ffaRun[w].status))
  /\ Goto(w, "wake")
  /\ UNCHANGED <<ff, ffCalls, ffHeld, ffa, ffaAdmitted, ffaAccepted, ffaDelivered>>

(* The locked section after the decode: the picture is left in the slot     *)
(* unless the owner has cancelled meanwhile.                                *)
FfaPublish(w) ==
  LET run   == ffaRun[w]
      ready == run.op = "mjpeg" /\ run.status = "OK" /\ ~ffa.cancelled
  IN  /\ run.at = "publish"
      /\ ffa' = [ffa EXCEPT !.state = IF ready THEN "READY" ELSE "EMPTY",
                            !.published = IF ready THEN ffa.work ELSE @,
                            !.decoded = IF ready THEN @ + 1 ELSE @,
                            !.discarded = IF run.op = "mjpeg" /\ ffa.cancelled THEN @ + 1 ELSE @]
      /\ GotoWith(w, "complete", IF ffa.cancelled THEN "ESTATE" ELSE run.status)
      /\ UNCHANGED <<ff, ffCalls, ffHeld, pcAll, ffaAdmitted, ffaAccepted, ffaDelivered>>

FfaComplete(w) ==
  LET run == ffaRun[w]
  IN  /\ run.at = "complete"
      /\ PcComplete(run.ticket, FfaCode(run.status))
      /\ IF CompleteRc(pc, run.ticket) = "OK" THEN Goto(w, "wake")
         ELSE GotoWith(w, IF run.op = "mjpeg" THEN "rollback" ELSE "wake", "ESTATE")
      /\ UNCHANGED <<ff, ffCalls, ffHeld, ffa, ffaAdmitted, ffaAccepted, ffaDelivered>>

(* The portal has refused the completion: the picture is taken back. *)
FfaRollback(w) ==
  LET run == ffaRun[w]
      own == ffa.state = "READY" /\ ffa.ticket = run.ticket
  IN  /\ run.at = "rollback"
      /\ ffa' = IF own THEN [ffa EXCEPT !.state = "EMPTY", !.armed = FALSE, !.discarded = @ + 1]
                ELSE ffa
      /\ Goto(w, "wake")
      /\ UNCHANGED <<ff, ffCalls, ffHeld, pcAll, ffaAdmitted, ffaAccepted, ffaDelivered>>

(* The host's wake function returns; a failure is only counted. *)
FfaWake(w) ==
  /\ ffaRun[w].at = "wake"
  /\ Goto(w, "release")
  /\ UNCHANGED <<ff, ffCalls, ffHeld, pcAll, ffa, ffaAdmitted, ffaAccepted, ffaDelivered>>

FfaRelease(w) ==
  /\ ffaRun[w].at = "release"
  /\ ffa' = [ffa EXCEPT !.worker_active = FALSE]
  /\ ffaRun' = [ffaRun EXCEPT ![w] = FfaOut]
  /\ UNCHANGED <<ff, ffCalls, ffHeld, pcAll, ffaAdmitted, ffaAccepted, ffaDelivered>>

-----------------------------------------------------------------------------
(* The media owner *)

(* The owner accepts on a result it has taken. *)
FfaResultTaken(t) ==
  \/ pc.rows[t.slot].generation > t.generation
  \/ pc.rows[t.slot].generation = t.generation /\ pc.rows[t.slot].state \in {"TAKEN", "FREE"}

FfaAcceptable(t) == ffa.state = "READY" /\ ffa.ticket = t /\ ~ffa.cancelled

FfaOwnerAccept(t) ==
  /\ ffa.alive /\ FfaResultTaken(t) /\ FfaAcceptable(t)
  /\ ffa' = [ffa EXCEPT !.armed = TRUE]
  /\ ffaAccepted' = IF ffa.armed THEN ffaAccepted ELSE t
  /\ UNCHANGED <<ff, ffCalls, ffHeld, pcAll, ffaRun, ffaAdmitted, ffaDelivered>>

(* A buffer that is too small, like a slot that is not armed, changes       *)
(* nothing.                                                                 *)
FfaOwnerNextLuma ==
  /\ ffa.alive /\ ffa.state = "READY" /\ ffa.armed /\ ~ffa.cancelled
  /\ ffa' = [ffa EXCEPT !.state = "EMPTY", !.armed = FALSE, !.ticket = FfaNoTicket,
                        !.delivered = @ + 1]
  /\ ffaDelivered' = ffaDelivered \union {ffa.published}
  /\ UNCHANGED <<ff, ffCalls, ffHeld, pcAll, ffaRun, ffaAdmitted, ffaAccepted>>

FfaOwnerCancel ==
  /\ ffa.alive
  /\ ffa' = IF ffa.state = "READY"
            THEN [ffa EXCEPT !.cancelled = TRUE, !.state = "EMPTY", !.armed = FALSE,
                             !.discarded = @ + 1, !.ticket = FfaNoTicket]
            ELSE [ffa EXCEPT !.cancelled = TRUE]
  /\ UNCHANGED <<ff, ffCalls, ffHeld, pcAll, ffaRun, ffaAdmitted, ffaAccepted, ffaDelivered>>

(* Refused while a run holds the gate or a picture waits. *)
FfaDestroyable == ~ffa.worker_active /\ ffa.state = "EMPTY"

FfaDestroy ==
  /\ ffa.alive /\ FfaDestroyable
  /\ ffa' = [ffa EXCEPT !.alive = FALSE]
  /\ UNCHANGED <<ff, ffCalls, ffHeld, pcAll, ffaRun, ffaAdmitted, ffaAccepted, ffaDelivered>>

-----------------------------------------------------------------------------
(* The host: it begins operations and may cancel them, report quiescence,   *)
(* take results and settle them at any time.                                *)
FfaHost ==
  /\ \/ PcBegin
     \/ \E t \in PcTickets : PcRequestCancel(t) \/ PcCancelQuiesced(t) \/ PcSettle(t)
     \/ PcTake
  /\ UNCHANGED <<ff, ffCalls, ffHeld, ffa, ffaRun, ffaAdmitted, ffaAccepted, ffaDelivered>>

FfaStep(w) ==
  \/ FfaAdmit(w)
  \/ \E fits \in BOOLEAN : FfaSubmit(w, fits)
  \/ FfaDecode(w)
  \/ FfaPublish(w)
  \/ FfaComplete(w)
  \/ FfaRollback(w)
  \/ FfaWake(w)
  \/ FfaRelease(w)

FfaNext ==
  \/ \E w \in FfaWorker : \/ \E op \in {"mjpeg", "eof"}, t \in PcTickets : FfaEnter(w, op, t)
                          \/ FfaStep(w)
  \/ \E t \in PcTickets : FfaOwnerAccept(t)
  \/ FfaOwnerNextLuma
  \/ FfaOwnerCancel
  \/ FfaDestroy
  \/ FfaHost

FfaSpec == FfaInit /\ [][FfaNext]_ffaVars

(* A worker goes on with its run: libavcodec and the host's wake function   *)
(* return.                                                                  *)
FfaFairSpec == FfaSpec /\ \A w \in FfaWorker : WF_ffaVars(FfaStep(w))

-----------------------------------------------------------------------------
(* Properties *)

FfaInside == {w \in FfaWorker : ffaRun[w].at # "out"}

(* One worker at a time is in the decoder, from the admission to the end of *)
(* the wake function, and the decoder is not freed under it.                *)
FfaOneUser ==
  /\ \A v, w \in FfaInside : v = w
  /\ FfaInside # {} => ffa.alive /\ ffa.worker_active

(* The picture that the owner is about to copy is the one decoded for the   *)
(* very ticket it has accepted, whatever was cancelled, refused or reused   *)
(* in between; a cancelled decoder offers none; and every picture decoded   *)
(* is in the slot, delivered or counted as discarded.                       *)
FfaExactPicture ==
  LET waiting == IF ffa.state = "READY" THEN 1 ELSE 0
  IN  /\ ffa.armed => /\ ffa.state = "READY"
                      /\ ffa.ticket = ffaAccepted
      /\ ffa.state = "READY" => ffa.published = ffa.ticket /\ ~ffa.cancelled
      /\ ffa.delivered + waiting <= ffa.decoded
      /\ ffa.decoded <= ffa.delivered + waiting + ffa.discarded
      /\ ffa.delivered = Cardinality(ffaDelivered)

(* The ticket of the operation in row i of the portal. *)
FfaTicketOf(i) ==
  [incarnation |-> pc.incarnation, slot |-> i, generation |-> pc.rows[i].generation]

(* The rows whose result a run reported. *)
FfaReportedRows == {i \in PcHasResult : pc.rows[i].result.observed}

(* What a result with status OK stands for: the picture is in the slot, was *)
(* copied out already, or the decoder was cancelled.                        *)
FfaPromised(t) == (ffa.state = "READY" /\ ffa.ticket = t) \/ t \in ffaDelivered \/ ffa.cancelled

(* A completion with status OK is a promise: whoever sees it in the portal  *)
(* finds the picture in the slot, unless it was copied out already or the   *)
(* decoder was cancelled.                                                   *)
FfaPromise ==
  \A i \in FfaReportedRows :
    pc.rows[i].result.status = FfaCode("OK") => FfaPromised(FfaTicketOf(i))

FfaUndecided(t) ==
  pc.rows[t.slot].generation = t.generation /\ pc.rows[t.slot].state \in {"INFLIGHT", "CANCEL_PENDING"}

(* Every run that was admitted ends its operation, whatever the codec, the  *)
(* owner and the host do meanwhile.                                         *)
FfaReports == \A t \in PcTicket : t \in ffaAdmitted ~> ~FfaUndecided(t)

(* The asynchronous decoder as its owner sees it: libavcodec is driven in   *)
(* protocol by one run at a time, and a result stands for its own picture.  *)
FfaDecodes == FfCodecProtocol /\ FfaOneUser /\ FfaExactPicture /\ FfaPromise

-----------------------------------------------------------------------------
(* The inductive invariant of the proofs *)

FfaAnyTicket == PcTicket \union {FfaNoTicket}

FfaDecoder ==
  [alive : BOOLEAN, worker_active : BOOLEAN, state : {"EMPTY", "DECODING", "READY"},
   armed : BOOLEAN, cancelled : BOOLEAN, eof_admitted : BOOLEAN, ticket : FfaAnyTicket,
   packet : FfaAnyTicket, work : FfaAnyTicket, published : FfaAnyTicket,
   decoded : Nat, delivered : Nat, discarded : Nat]

FfaPhase == {"out", "admit", "submit", "decode", "publish", "complete", "rollback", "wake", "release"}

FfaRunType ==
  [at : FfaPhase, op : {"none", "mjpeg", "eof"}, ticket : FfaAnyTicket,
   status : {"OK", "ESTATE", "ECODEC", "EOF"}]

FfaTypeOK ==
  /\ ffa \in FfaDecoder
  /\ ffaRun \in [FfaWorker -> FfaRunType]
  /\ ffaAdmitted \subseteq PcTicket
  /\ ffaDelivered \subseteq ffaAdmitted
  /\ IsFiniteSet(ffaDelivered)

(* Only runs that were admitted report. *)
FfaReportsAdmitted == \A i \in FfaReportedRows : FfaTicketOf(i) \in ffaAdmitted

(* What the slot holds while a run decodes and after it.                    *)
FfaSlotHeld ==
  ffa.state # "EMPTY" => ffa.ticket \in ffaAdmitted /\ ffa.ticket \notin ffaDelivered

(* What a run has done at each of its steps: its ticket is its own until it *)
(* reports, and what it carries along comes from its own packet.            *)
FfaRunOK(run) ==
  /\ run.at # "out" => run.ticket \in PcTickets
  /\ run.at = "admit" => run.ticket \notin ffaAdmitted
  /\ run.at \in {"submit", "decode", "publish"} => ffa.state = "DECODING" /\ ffa.ticket = run.ticket
  /\ run.at \in {"submit", "decode", "publish", "complete", "rollback"} =>
       /\ run.ticket \in ffaAdmitted
       /\ \A i \in FfaReportedRows : FfaTicketOf(i) # run.ticket
  /\ run.at = "decode" /\ run.op = "mjpeg" => ffa.packet = run.ticket
  /\ run.at = "publish" /\ run.status = "OK" => run.op = "mjpeg" /\ ffa.work = run.ticket
  /\ run.at = "complete" /\ run.status = "OK" => FfaPromised(run.ticket)

FfaInv ==
  /\ FfaTypeOK
  /\ FfInv
  /\ PcInv
  /\ FfaOneUser /\ FfaExactPicture /\ FfaPromise
  /\ FfaReportsAdmitted
  /\ FfaSlotHeld
  /\ \A w \in FfaWorker : FfaRunOK(ffaRun[w])
=============================================================================
