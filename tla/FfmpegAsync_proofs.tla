------------------------- MODULE FfmpegAsync_proofs -------------------------
(* Proofs about the FFmpeg source and the asynchronous decoder, for every   *)
(* number of worker threads and of rows of the completion portal.           *)
EXTENDS FfmpegAsync, ProviderCompletion_proofs, FiniteSetTheorems, TLAPS

-----------------------------------------------------------------------------
(* The synchronous source *)

LEMMA FfTypes ==
  ASSUME FfInv
  PROVE  /\ ff \in FfSource /\ ff.packets_submitted \in Nat /\ ffHeld \in Nat
         /\ ff.pending \in BOOLEAN /\ ff.flushed \in BOOLEAN /\ ff.finishing \in BOOLEAN
         /\ ffCalls \in Seq({"packet", "flush"}) /\ Len(ffCalls) \in Nat
BY DEF FfInv, FfTypeOK, FfSource

(* A step of the source that sends nothing. *)
LEMMA FfQuiet ==
  ASSUME FfInv, ff' \in FfSource, ffCalls' = ffCalls, ffHeld' \in Nat,
         ff'.flushed = ff.flushed, ff.finishing => ff'.finishing,
         ff'.pending => ff.pending, ff.cancelled => ff'.cancelled,
         ff.last_error => ff'.last_error, ff'.eof => ~ff'.pending,
         ~ff'.cancelled =>
           ff'.pending = ff.pending /\ ff'.packets_submitted = ff.packets_submitted
  PROVE  FfInv'
<1>1. FfTypeOK'
  BY DEF FfInv, FfTypeOK
<1>2. FfCodecProtocol'
  BY DEF FfInv, FfCodecProtocol
<1>3. QED
  BY <1>1, <1>2 DEF FfInv

LEMMA FfSubmitInv ==
  ASSUME FfInv, NEW fits, ff' = tm_ff_submit_mjpeg(ff, fits).s, UNCHANGED <<ffCalls, ffHeld>>
  PROVE  FfInv'
<1>1. ff \in FfSource /\ ff.packets_submitted \in Nat /\ ffHeld \in Nat /\ Len(ffCalls) \in Nat
  BY FfTypes
<1>2. CASE FfSubmitRc(ff, fits) # "OK"
  BY <1>1, <1>2 DEF tm_ff_submit_mjpeg, FfResult, FfInv, FfTypeOK, FfCodecProtocol
<1>3. CASE FfSubmitRc(ff, fits) = "OK"
  <2>1. /\ ff' = [ff EXCEPT !.pending = TRUE, !.packets_submitted = ff.packets_submitted + 1]
        /\ ~ff.cancelled /\ ~ff.finishing /\ ~ff.eof /\ ~ff.last_error /\ ~ff.pending
    BY <1>3 DEF tm_ff_submit_mjpeg, FfResult, FfSubmitRc
  <2>2. /\ ff' \in FfSource /\ ff'.pending = TRUE
        /\ ff'.packets_submitted = ff.packets_submitted + 1
        /\ ff'.finishing = ff.finishing /\ ff'.flushed = ff.flushed /\ ff'.eof = ff.eof
        /\ ff'.cancelled = ff.cancelled /\ ff'.last_error = ff.last_error
    <3> DEFINE m == [ff EXCEPT !.pending = TRUE]
               k == ff.packets_submitted + 1
    <3>1. /\ m \in FfSource /\ m.pending = TRUE
          /\ m.packets_submitted = ff.packets_submitted
          /\ m.finishing = ff.finishing /\ m.flushed = ff.flushed /\ m.eof = ff.eof
          /\ m.cancelled = ff.cancelled /\ m.last_error = ff.last_error
      BY <1>1 DEF FfSource
    <3>2. ff' = [m EXCEPT !.packets_submitted = k] /\ k \in Nat
      BY <1>1, <2>1
    <3> HIDE DEF m, k
    <3>3. /\ ff' \in FfSource /\ ff'.pending = m.pending /\ ff'.packets_submitted = k
          /\ ff'.finishing = m.finishing /\ ff'.flushed = m.flushed /\ ff'.eof = m.eof
          /\ ff'.cancelled = m.cancelled /\ ff'.last_error = m.last_error
      BY <3>1, <3>2 DEF FfSource
    <3>4. QED
      BY <3>1, <3>3 DEF k
  <2>3. ~ff.flushed
    BY <2>1 DEF FfInv
  <2>4. Len(ffCalls) = ff.packets_submitted
    BY <1>1, <2>1, <2>3 DEF FfInv, FfCodecProtocol
  <2>5. FfCodecProtocol'
    BY <1>1, <2>1, <2>2, <2>3, <2>4 DEF FfInv, FfCodecProtocol
  <2>6. FfTypeOK'
    BY <2>2 DEF FfInv, FfTypeOK
  <2>7. QED
    BY <2>2, <2>3, <2>5, <2>6 DEF FfInv
<1>4. QED
  BY <1>2, <1>3

LEMMA FfFinishInv ==
  ASSUME FfInv, ff' = tm_ff_finish(ff).s, UNCHANGED <<ffCalls, ffHeld>>
  PROVE  FfInv'
<1>1. ff \in FfSource /\ ffHeld \in Nat
  BY FfTypes
<1>2. ff' = ff \/ ff' = [ff EXCEPT !.finishing = TRUE]
  BY DEF tm_ff_finish, FfResult
<1>3. /\ ff' \in FfSource /\ ff'.pending = ff.pending
      /\ ff'.packets_submitted = ff.packets_submitted
      /\ (ff.finishing => ff'.finishing) /\ ff'.flushed = ff.flushed /\ ff'.eof = ff.eof
      /\ ff'.cancelled = ff.cancelled /\ ff'.last_error = ff.last_error
  BY <1>1, <1>2 DEF FfSource
<1>4. ff.eof => ~ff.pending
  BY DEF FfInv, FfCodecProtocol
<1>5. QED
  BY <1>1, <1>3, <1>4, FfQuiet

LEMMA FfCancelInv ==
  ASSUME FfInv, FfCancel
  PROVE  FfInv'
<1>1. ff \in FfSource /\ ffHeld \in Nat
  BY FfTypes
<1>2. ff' = [ff EXCEPT !.cancelled = TRUE, !.pending = FALSE, !.eof = TRUE]
      /\ UNCHANGED <<ffCalls, ffHeld>>
  BY DEF FfCancel, tm_ff_cancel
<1>3. /\ ff' \in FfSource /\ ~ff'.pending /\ ff'.cancelled
      /\ ff'.finishing = ff.finishing /\ ff'.flushed = ff.flushed /\ ff'.last_error = ff.last_error
  BY <1>1, <1>2 DEF FfSource
<1>4. QED
  BY <1>1, <1>2, <1>3, FfQuiet

(* The end of tm_ff_next_cpu_luma leaves what was sent alone. *)
LEMMA FfReceivedEffect ==
  ASSUME NEW s \in FfSource, NEW receive
  PROVE  LET r == FfReceived(s, receive).s
         IN  /\ r \in FfSource /\ r.pending = s.pending /\ r.finishing = s.finishing
             /\ r.flushed = s.flushed /\ r.cancelled = s.cancelled
             /\ r.packets_submitted = s.packets_submitted /\ (s.last_error => r.last_error)
<1> DEFINE r == FfReceived(s, receive).s
<1>1. \/ r = [s EXCEPT !.eof = TRUE]
      \/ r = [s EXCEPT !.frames_decoded = s.frames_decoded + 1]
      \/ r = [s EXCEPT !.last_error = TRUE]
  BY DEF FfReceived, FfResult
<1>2. s.frames_decoded + 1 \in Nat
  BY DEF FfSource
<1> HIDE DEF r
<1>3. /\ r \in FfSource /\ r.pending = s.pending /\ r.finishing = s.finishing
      /\ r.flushed = s.flushed /\ r.cancelled = s.cancelled
      /\ r.packets_submitted = s.packets_submitted /\ (s.last_error => r.last_error)
  BY <1>1, <1>2 DEF FfSource
<1>4. QED
  BY <1>3 DEF r

LEMMA FfAcceptedEffect ==
  ASSUME NEW s \in FfSource, NEW step \in {"packet", "flush", "receive"}
  PROVE  LET r == FfAccepted(s, step)
         IN  /\ r \in FfSource /\ r.finishing = s.finishing /\ r.cancelled = s.cancelled
             /\ r.pending = (IF step = "packet" THEN FALSE ELSE s.pending)
             /\ r.flushed = (IF step = "flush" THEN TRUE ELSE s.flushed)
             /\ r.packets_submitted = s.packets_submitted /\ r.last_error = s.last_error
BY DEF FfAccepted, FfSource

(* Sends: the log of the calls with one more entry. *)
LEMMA CallsGrow ==
  ASSUME NEW calls \in Seq({"packet", "flush"}), NEW step \in {"packet", "flush"},
         NEW new, new = Append(calls, step)
  PROVE  /\ new \in Seq({"packet", "flush"}) /\ Len(new) = Len(calls) + 1 /\ Len(calls) \in Nat
         /\ new[Len(calls) + 1] = step /\ \A i \in 1 .. Len(calls) : new[i] = calls[i]
OBVIOUS

LEMMA FfSendInv ==
  ASSUME FfInv, ff' \in FfSource, ffHeld' \in Nat, NEW step \in {"packet", "flush"},
         ffCalls' = Append(ffCalls, step), ~ff.last_error, ~ff.flushed, ~ff.cancelled,
         step = "packet" => ff.pending, step = "flush" => ff.finishing /\ ~ff.pending,
         ff'.finishing = ff.finishing, ff'.packets_submitted = ff.packets_submitted,
         \/ ff'.last_error /\ ff'.flushed = ff.flushed /\ ff'.pending = ff.pending /\ ff'.eof = ff.eof
         \/ /\ ~ff'.pending
            /\ ff'.flushed = (IF step = "flush" THEN TRUE ELSE ff.flushed)
  PROVE  FfInv'
<1>1. /\ ffCalls \in Seq({"packet", "flush"}) /\ ff.packets_submitted \in Nat
  BY FfTypes
<1>2. /\ ffCalls' \in Seq({"packet", "flush"}) /\ Len(ffCalls') = Len(ffCalls) + 1
      /\ Len(ffCalls) \in Nat /\ ffCalls'[Len(ffCalls) + 1] = step
      /\ \A i \in 1 .. Len(ffCalls) : ffCalls'[i] = ffCalls[i]
  BY <1>1, CallsGrow
<1>3. \A i \in 1 .. Len(ffCalls) : ffCalls[i] \in {"packet", "flush"} /\ ffCalls[i] # "flush"
  BY <1>1 DEF FfInv
<1>4. FfTypeOK'
  BY <1>2 DEF FfTypeOK
<1>5. Len(ffCalls) = ff.packets_submitted - (IF ff.pending THEN 1 ELSE 0)
  BY <1>1, <1>2 DEF FfInv, FfCodecProtocol
<1>6. FfCodecProtocol'
  <2>1. \A i \in 1 .. Len(ffCalls') - 1 : ffCalls'[i] = "packet"
    BY <1>2, <1>3
  <2>2. ~ff'.cancelled /\ ~ff'.last_error =>
          Len(ffCalls') = (ff'.packets_submitted - (IF ff'.pending THEN 1 ELSE 0))
                             + (IF ff'.flushed THEN 1 ELSE 0)
    <3>1. SUFFICES ASSUME ~ff'.last_error
                   PROVE  Len(ffCalls') = (ff'.packets_submitted - (IF ff'.pending THEN 1 ELSE 0))
                                             + (IF ff'.flushed THEN 1 ELSE 0)
      OBVIOUS
    <3>2. ~ff'.pending /\ ff'.flushed = (IF step = "flush" THEN TRUE ELSE ff.flushed)
      BY <3>1
    <3>3. CASE step = "packet"
      <4>1. ff.pending /\ ~ff'.pending /\ ~ff'.flushed
        BY <3>2, <3>3
      <4>2. QED
        BY <1>1, <1>2, <1>5, <4>1
    <3>4. CASE step = "flush"
      <4>1. ~ff.pending /\ ~ff'.pending /\ ff'.flushed
        BY <3>2, <3>4
      <4>2. QED
        BY <1>1, <1>2, <1>5, <4>1
    <3>5. QED
      BY <3>3, <3>4
  <2>3. ff'.eof => ~ff'.pending
    BY DEF FfInv, FfCodecProtocol
  <2>4. QED
    BY <2>1, <2>2, <2>3 DEF FfCodecProtocol
<1>7. ff'.flushed => ff'.finishing /\ ~ff'.pending
  OBVIOUS
<1>8. \A i \in 1 .. Len(ffCalls') : ffCalls'[i] = "flush" => ff'.flushed \/ ff'.last_error
  <2>1. SUFFICES ASSUME NEW i \in 1 .. Len(ffCalls'), ffCalls'[i] = "flush"
                 PROVE  step = "flush"
    OBVIOUS
  <2>2. QED
    BY <1>2, <1>3, <2>1
<1>9. QED
  BY <1>4, <1>6, <1>7, <1>8 DEF FfInv

(* A call of tm_ff_next_cpu_luma. *)
LEMMA FfCallInv ==
  ASSUME FfInv, NEW fits, NEW a \in FfCodecAnswers(ffHeld, FfNextStep(ff, fits)),
         FfCall(fits, a)
  PROVE  FfInv'
<1> DEFINE step == FfNextStep(ff, fits)
           acc  == FfAccepted(ff, step)
<1>1. ff \in FfSource /\ ffHeld \in Nat
  BY FfTypes
<1>2. step \in {"EOS", "FAILED", "packet", "flush", "receive"}
  BY DEF FfNextStep
<1>3. ffHeld' \in Nat
  <2>1. a[2] \in {"picture", "misfit"} => ffHeld + (IF step = "packet" THEN 1 ELSE 0) > 0
    BY DEF FfCodecAnswers
  <2>2. \/ ffHeld' = ffHeld
        \/ ffHeld' = (ffHeld + (IF step = "packet" THEN 1 ELSE 0))
                        - (IF a[2] \in {"picture", "misfit"} THEN 1 ELSE 0)
    BY DEF FfCall
  <2>3. QED
    BY <1>1, <2>1, <2>2
<1>10. step \in {"packet", "flush", "receive"} =>
        /\ acc \in FfSource /\ acc.finishing = ff.finishing /\ acc.cancelled = ff.cancelled
        /\ acc.pending = (IF step = "packet" THEN FALSE ELSE ff.pending)
        /\ acc.flushed = (IF step = "flush" THEN TRUE ELSE ff.flushed)
        /\ acc.packets_submitted = ff.packets_submitted /\ acc.last_error = ff.last_error
  BY <1>1, FfAcceptedEffect
<1>11. acc \in FfSource => \A receive :
        LET r == FfReceived(acc, receive).s
        IN  /\ r \in FfSource /\ r.pending = acc.pending /\ r.finishing = acc.finishing
            /\ r.flushed = acc.flushed /\ r.cancelled = acc.cancelled
            /\ r.packets_submitted = acc.packets_submitted /\ (acc.last_error => r.last_error)
  BY FfReceivedEffect
<1>4. /\ ff' = tm_ff_next_cpu_luma(ff, fits, a[1], a[2]).s
      /\ ffCalls' = IF step \in {"packet", "flush"} THEN Append(ffCalls, step) ELSE ffCalls
  BY DEF FfCall
<1>5. CASE step \in {"EOS", "FAILED"}
  <2>1. ff' = ff /\ ffCalls' = ffCalls
    BY <1>4, <1>5 DEF tm_ff_next_cpu_luma, FfResult
  <2>2. QED
    BY <1>1, <1>3, <2>1, FfQuiet DEF FfInv, FfCodecProtocol
<1>6. CASE step = "receive"
  <2>1. ff' = FfReceived(acc, a[2]).s /\ ffCalls' = ffCalls
    BY <1>4, <1>6 DEF tm_ff_next_cpu_luma
  <2>2. /\ acc \in FfSource /\ acc.finishing = ff.finishing /\ acc.cancelled = ff.cancelled
        /\ acc.pending = ff.pending /\ acc.flushed = ff.flushed
        /\ acc.packets_submitted = ff.packets_submitted /\ acc.last_error = ff.last_error
    <3> HIDE DEF step, acc
    <3> QED
      BY <1>6, <1>10
  <2>3. /\ ff' \in FfSource /\ ff'.pending = acc.pending /\ ff'.finishing = acc.finishing
        /\ ff'.flushed = acc.flushed /\ ff'.cancelled = acc.cancelled
        /\ ff'.packets_submitted = acc.packets_submitted /\ (acc.last_error => ff'.last_error)
    <3> HIDE DEF step, acc
    <3> QED
      BY <2>1, <2>2, <1>11
  <2>4. ~ff.pending
    BY <1>6 DEF FfNextStep
  <2>5. QED
    <3> HIDE DEF step, acc
    <3> QED
      BY <1>3, <2>1, <2>2, <2>3, <2>4, FfQuiet
<1>7. CASE step \in {"packet", "flush"}
  <2>1. ffCalls' = Append(ffCalls, step)
    BY <1>4, <1>7
  <2>2. /\ ~ff.last_error /\ ~ff.cancelled /\ ~ff.eof
        /\ step = "packet" => ff.pending
        /\ step = "flush" => ff.finishing /\ ~ff.pending /\ ~ff.flushed
    BY <1>7 DEF FfNextStep
  <2>3. ~ff.flushed
    BY <1>7, <2>2 DEF FfInv
  <2>4. CASE a[1] = "error"
    <3>1. ff' = [ff EXCEPT !.last_error = TRUE]
      BY <1>4, <1>7, <2>4 DEF tm_ff_next_cpu_luma, FfResult
    <3>2. /\ ff' \in FfSource /\ ff'.last_error /\ ff'.flushed = ff.flushed
          /\ ff'.pending = ff.pending /\ ff'.eof = ff.eof /\ ff'.finishing = ff.finishing
          /\ ff'.packets_submitted = ff.packets_submitted
      BY <1>1, <3>1 DEF FfSource
    <3> HIDE DEF step
    <3>3. QED
      BY <1>3, <1>7, <2>1, <2>2, <2>3, <3>2, FfSendInv
  <2>5. CASE a[1] # "error"
    <3>1. ff' = FfReceived(acc, a[2]).s
      BY <1>4, <1>7, <2>5 DEF tm_ff_next_cpu_luma
    <3>2. /\ acc \in FfSource /\ acc.finishing = ff.finishing
          /\ acc.pending = (IF step = "packet" THEN FALSE ELSE ff.pending)
          /\ acc.flushed = (IF step = "flush" THEN TRUE ELSE ff.flushed)
          /\ acc.packets_submitted = ff.packets_submitted
      <4> HIDE DEF step, acc
      <4> QED
        BY <1>7, <1>10
    <3>3. /\ ff' \in FfSource /\ ff'.pending = acc.pending /\ ff'.finishing = acc.finishing
          /\ ff'.flushed = acc.flushed /\ ff'.packets_submitted = acc.packets_submitted
      <4> HIDE DEF step, acc
      <4> QED
        BY <3>1, <3>2, <1>11
    <3>4. ~acc.pending
      BY <1>7, <2>2, <3>2
    <3> HIDE DEF step, acc
    <3>5. QED
      BY <1>3, <1>7, <2>1, <2>2, <2>3, <3>2, <3>3, <3>4, FfSendInv
  <2>6. QED
    BY <2>4, <2>5
<1>8. QED
  BY <1>2, <1>5, <1>6, <1>7

LEMMA FfInitInv == FfInit => FfInv
<1>1. SUFFICES ASSUME FfInit PROVE FfInv
  OBVIOUS
<1>2. ff = tm_ff_create /\ ffCalls = <<>> /\ ffHeld = 0 /\ Len(ffCalls) = 0
  BY <1>1 DEF FfInit
<1>3. ff \in FfSource
  BY <1>2 DEF tm_ff_create, FfSource
<1>4. QED
  BY <1>2, <1>3 DEF tm_ff_create, FfInv, FfTypeOK, FfCodecProtocol

(* FfInv is inductive, and with it the source keeps libavcodec's protocol:  *)
(* every packet once and in order, the flush once and last.                 *)
THEOREM FfCodecProtocolCorrect == FfSpec => []FfCodecProtocol
<1>1. FfInv /\ [FfNext]_ffVars => FfInv'
  <2>1. SUFFICES ASSUME FfInv, [FfNext]_ffVars PROVE FfInv'
    OBVIOUS
  <2>2. ASSUME NEW fits \in BOOLEAN, FfSubmit(fits) PROVE FfInv'
    BY <2>1, <2>2, FfSubmitInv DEF FfSubmit
  <2>3. ASSUME NEW fits \in BOOLEAN, FfNextLuma(fits) PROVE FfInv'
    BY <2>1, <2>3, FfCallInv DEF FfNextLuma
  <2>4. CASE FfFinish
    BY <2>1, <2>4, FfFinishInv DEF FfFinish
  <2>5. CASE FfCancel
    BY <2>1, <2>5, FfCancelInv
  <2>6. CASE UNCHANGED ffVars
    BY <2>1, <2>6 DEF ffVars, FfInv, FfTypeOK, FfCodecProtocol
  <2>7. QED
    BY <2>1, <2>2, <2>3, <2>4, <2>5, <2>6 DEF FfNext
<1>2. FfInv => FfCodecProtocol
  BY DEF FfInv
<1>3. QED
  BY <1>1, <1>2, FfInitInv, PTL DEF FfSpec

-----------------------------------------------------------------------------
(* The asynchronous decoder *)

(* d is a record with the decoder's fields. *)
FfaShape(d) ==
  d = [alive |-> d.alive, worker_active |-> d.worker_active, state |-> d.state,
       armed |-> d.armed, cancelled |-> d.cancelled, eof_admitted |-> d.eof_admitted,
       ticket |-> d.ticket, packet |-> d.packet, work |-> d.work, published |-> d.published,
       decoded |-> d.decoded, delivered |-> d.delivered, discarded |-> d.discarded]

FfaFlags(d) ==
  /\ d.alive \in BOOLEAN /\ d.worker_active \in BOOLEAN /\ d.armed \in BOOLEAN
  /\ d.cancelled \in BOOLEAN /\ d.eof_admitted \in BOOLEAN
  /\ d.state \in {"EMPTY", "DECODING", "READY"}

FfaTicketsOf(d) ==
  /\ d.ticket \in FfaAnyTicket /\ d.packet \in FfaAnyTicket
  /\ d.work \in FfaAnyTicket /\ d.published \in FfaAnyTicket

FfaCounts(d) == d.decoded \in Nat /\ d.delivered \in Nat /\ d.discarded \in Nat

LEMMA FfaIntro ==
  ASSUME NEW d, FfaShape(d), FfaFlags(d), FfaTicketsOf(d), FfaCounts(d)
  PROVE  d \in FfaDecoder
BY DEF FfaShape, FfaFlags, FfaTicketsOf, FfaCounts, FfaDecoder

LEMMA FfaFields ==
  ASSUME NEW d \in FfaDecoder
  PROVE  FfaShape(d) /\ FfaFlags(d) /\ FfaTicketsOf(d) /\ FfaCounts(d)
BY DEF FfaShape, FfaFlags, FfaTicketsOf, FfaCounts, FfaDecoder

(* The fields that say what the slot holds, and the two of the gate. *)
FfaSameSlot(d, e) ==
  /\ e.state = d.state /\ e.armed = d.armed /\ e.cancelled = d.cancelled
  /\ e.ticket = d.ticket /\ e.published = d.published /\ e.decoded = d.decoded
  /\ e.delivered = d.delivered /\ e.discarded = d.discarded

FfaSameGate(d, e) == e.alive = d.alive /\ e.worker_active = d.worker_active

FfaSameBuffers(d, e) == e.packet = d.packet /\ e.work = d.work

LEMMA SetGate ==
  ASSUME NEW d \in FfaDecoder, NEW e, NEW b \in BOOLEAN, e = [d EXCEPT !.worker_active = b]
  PROVE  /\ e \in FfaDecoder /\ FfaSameSlot(d, e) /\ FfaSameBuffers(d, e)
         /\ e.worker_active = b /\ e.alive = d.alive
BY DEF FfaDecoder, FfaSameSlot, FfaSameBuffers

AfterAdmit(d, t, b) == [d EXCEPT !.state = "DECODING", !.ticket = t, !.eof_admitted = b]

AfterPublish(d, s, t, j, k) ==
  [d EXCEPT !.state = s, !.published = t, !.decoded = j, !.discarded = k]

(* The slot emptied by the owner's copy, by its cancellation, by a rollback. *)
AfterCopy(d, t, j) == [d EXCEPT !.state = "EMPTY", !.armed = FALSE, !.ticket = t, !.delivered = j]

AfterCancel(d, k, t) ==
  [d EXCEPT !.cancelled = TRUE, !.state = "EMPTY", !.armed = FALSE, !.discarded = k, !.ticket = t]

AfterRollback(d, k) == [d EXCEPT !.state = "EMPTY", !.armed = FALSE, !.discarded = k]

LEMMA SetAdmitted ==
  ASSUME NEW d \in FfaDecoder, NEW e, NEW t \in FfaAnyTicket, NEW b \in BOOLEAN,
         e = AfterAdmit(d, t, b)
  PROVE  /\ e \in FfaDecoder /\ FfaSameGate(d, e) /\ FfaSameBuffers(d, e)
         /\ e.state = "DECODING" /\ e.ticket = t /\ e.armed = d.armed
         /\ e.cancelled = d.cancelled /\ e.published = d.published /\ e.decoded = d.decoded
         /\ e.delivered = d.delivered /\ e.discarded = d.discarded
<1>1. /\ FfaSameGate(d, e) /\ FfaSameBuffers(d, e) /\ e.eof_admitted = b
      /\ e.state = "DECODING" /\ e.ticket = t /\ e.armed = d.armed
      /\ e.cancelled = d.cancelled /\ e.published = d.published /\ e.decoded = d.decoded
      /\ e.delivered = d.delivered /\ e.discarded = d.discarded /\ FfaShape(e)
  BY DEF FfaDecoder, FfaSameGate, FfaSameBuffers, FfaShape, AfterAdmit
<1>2. FfaFlags(e) /\ FfaTicketsOf(e) /\ FfaCounts(e)
  BY <1>1, FfaFields DEF FfaFlags, FfaTicketsOf, FfaCounts, FfaSameGate, FfaSameBuffers
<1>3. QED
  BY <1>1, <1>2, FfaIntro

LEMMA SetPublished ==
  ASSUME NEW d \in FfaDecoder, NEW e, NEW s \in {"EMPTY", "READY"}, NEW t \in FfaAnyTicket,
         NEW j \in Nat, NEW k \in Nat,
         e = AfterPublish(d, s, t, j, k)
  PROVE  /\ e \in FfaDecoder /\ FfaSameGate(d, e) /\ FfaSameBuffers(d, e)
         /\ e.state = s /\ e.ticket = d.ticket /\ e.armed = d.armed
         /\ e.cancelled = d.cancelled /\ e.published = t /\ e.decoded = j
         /\ e.delivered = d.delivered /\ e.discarded = k
<1>1. /\ FfaSameGate(d, e) /\ FfaSameBuffers(d, e) /\ e.eof_admitted = d.eof_admitted
      /\ e.state = s /\ e.ticket = d.ticket /\ e.armed = d.armed
      /\ e.cancelled = d.cancelled /\ e.published = t /\ e.decoded = j
      /\ e.delivered = d.delivered /\ e.discarded = k /\ FfaShape(e)
  BY DEF FfaDecoder, FfaSameGate, FfaSameBuffers, FfaShape, AfterPublish
<1>2. FfaFlags(e) /\ FfaTicketsOf(e) /\ FfaCounts(e)
  BY <1>1, FfaFields DEF FfaFlags, FfaTicketsOf, FfaCounts, FfaSameGate, FfaSameBuffers
<1>3. QED
  BY <1>1, <1>2, FfaIntro

LEMMA SetCopied ==
  ASSUME NEW d \in FfaDecoder, NEW e, NEW t \in FfaAnyTicket, NEW j \in Nat, e = AfterCopy(d, t, j)
  PROVE  /\ e \in FfaDecoder
         /\ FfaSameGate(d, e) /\ FfaSameBuffers(d, e)
         /\ e.state = "EMPTY" /\ e.ticket = t /\ ~e.armed
         /\ e.cancelled = d.cancelled /\ e.published = d.published /\ e.decoded = d.decoded
         /\ e.delivered = j /\ e.discarded = d.discarded
<1>1. /\ e.eof_admitted = d.eof_admitted /\ FfaShape(e)
      /\ FfaSameGate(d, e) /\ FfaSameBuffers(d, e)
      /\ e.state = "EMPTY" /\ e.ticket = t /\ e.armed = FALSE
      /\ e.cancelled = d.cancelled /\ e.published = d.published /\ e.decoded = d.decoded
      /\ e.delivered = j /\ e.discarded = d.discarded
  BY DEF FfaDecoder, FfaSameGate, FfaSameBuffers, FfaShape, AfterCopy
<1>2. FfaFlags(e) /\ FfaTicketsOf(e) /\ FfaCounts(e)
  BY <1>1, FfaFields DEF FfaFlags, FfaTicketsOf, FfaCounts, FfaSameGate, FfaSameBuffers
<1>3. QED
  BY <1>1, <1>2, FfaIntro

LEMMA SetCancelled ==
  ASSUME NEW d \in FfaDecoder, NEW e, NEW k \in Nat, NEW t \in FfaAnyTicket, e = AfterCancel(d, k, t)
  PROVE  /\ e \in FfaDecoder
         /\ FfaSameGate(d, e) /\ FfaSameBuffers(d, e)
         /\ e.state = "EMPTY" /\ e.ticket = t /\ ~e.armed
         /\ e.cancelled /\ e.published = d.published /\ e.decoded = d.decoded
         /\ e.delivered = d.delivered /\ e.discarded = k
<1>1. /\ e.eof_admitted = d.eof_admitted /\ FfaShape(e)
      /\ FfaSameGate(d, e) /\ FfaSameBuffers(d, e)
      /\ e.state = "EMPTY" /\ e.ticket = t /\ e.armed = FALSE
      /\ e.cancelled = TRUE /\ e.published = d.published /\ e.decoded = d.decoded
      /\ e.delivered = d.delivered /\ e.discarded = k
  BY DEF FfaDecoder, FfaSameGate, FfaSameBuffers, FfaShape, AfterCancel
<1>2. FfaFlags(e) /\ FfaTicketsOf(e) /\ FfaCounts(e)
  BY <1>1, FfaFields DEF FfaFlags, FfaTicketsOf, FfaCounts, FfaSameGate, FfaSameBuffers
<1>3. QED
  BY <1>1, <1>2, FfaIntro

LEMMA SetRolledBack ==
  ASSUME NEW d \in FfaDecoder, NEW e, NEW k \in Nat, e = AfterRollback(d, k)
  PROVE  /\ e \in FfaDecoder
         /\ FfaSameGate(d, e) /\ FfaSameBuffers(d, e)
         /\ e.state = "EMPTY" /\ e.ticket = d.ticket /\ ~e.armed
         /\ e.cancelled = d.cancelled /\ e.published = d.published /\ e.decoded = d.decoded
         /\ e.delivered = d.delivered /\ e.discarded = k
<1>1. /\ e.eof_admitted = d.eof_admitted /\ FfaShape(e)
      /\ FfaSameGate(d, e) /\ FfaSameBuffers(d, e)
      /\ e.state = "EMPTY" /\ e.ticket = d.ticket /\ e.armed = FALSE
      /\ e.cancelled = d.cancelled /\ e.published = d.published /\ e.decoded = d.decoded
      /\ e.delivered = d.delivered /\ e.discarded = k
  BY DEF FfaDecoder, FfaSameGate, FfaSameBuffers, FfaShape, AfterRollback
<1>2. FfaFlags(e) /\ FfaTicketsOf(e) /\ FfaCounts(e)
  BY <1>1, FfaFields DEF FfaFlags, FfaTicketsOf, FfaCounts, FfaSameGate, FfaSameBuffers
<1>3. QED
  BY <1>1, <1>2, FfaIntro

(* The run of worker w moves to `at` with `status`; the others stand. *)
RunMoved(w, at, status) ==
  /\ ffaRun' \in [FfaWorker -> FfaRunType]
  /\ \A v \in FfaWorker \ {w} : ffaRun'[v] = ffaRun[v]
  /\ ffaRun'[w].at = at /\ ffaRun'[w].status = status
  /\ ffaRun'[w].op = ffaRun[w].op /\ ffaRun'[w].ticket = ffaRun[w].ticket

LEMMA GotoMoves ==
  ASSUME ffaRun \in [FfaWorker -> FfaRunType], NEW w \in FfaWorker, NEW at \in FfaPhase, Goto(w, at)
  PROVE  RunMoved(w, at, ffaRun[w].status)
<1>1. ffaRun' = [ffaRun EXCEPT ![w] = [ffaRun[w] EXCEPT !.at = at]]
  BY DEF Goto
<1>2. [ffaRun[w] EXCEPT !.at = at] \in FfaRunType
  BY DEF FfaRunType
<1>3. QED
  BY <1>1, <1>2 DEF RunMoved, FfaRunType

LEMMA GotoWithMoves ==
  ASSUME ffaRun \in [FfaWorker -> FfaRunType], NEW w \in FfaWorker, NEW at \in FfaPhase,
         NEW status \in {"OK", "ESTATE", "ECODEC", "EOF"}, GotoWith(w, at, status)
  PROVE  RunMoved(w, at, status)
<1> DEFINE r == [at |-> at, op |-> ffaRun[w].op, ticket |-> ffaRun[w].ticket, status |-> status]
<1>1. ffaRun[w] = [at |-> ffaRun[w].at, op |-> ffaRun[w].op, ticket |-> ffaRun[w].ticket,
                   status |-> ffaRun[w].status]
  BY DEF FfaRunType
<1>2. r \in FfaRunType
  BY DEF FfaRunType
<1>3. ffaRun' = [ffaRun EXCEPT ![w] = r]
  <2> DEFINE q == [at |-> at, op |-> ffaRun[w].op, ticket |-> ffaRun[w].ticket,
                   status |-> ffaRun[w].status]
             m == [ffaRun EXCEPT ![w] = [ffaRun[w] EXCEPT !.at = at]]
  <2>1. ffaRun' = [m EXCEPT ![w] = [m[w] EXCEPT !.status = status]]
    BY DEF GotoWith
  <2>2. [ffaRun[w] EXCEPT !.at = at] = q
    BY <1>1
  <2>3. m = [ffaRun EXCEPT ![w] = q] /\ m[w] = q
    BY <2>2
  <2>4. [q EXCEPT !.status = status] = r
    OBVIOUS
  <2> HIDE DEF m, q, r
  <2>5. QED
    BY <2>1, <2>3, <2>4
<1>4. QED
  BY <1>2, <1>3 DEF RunMoved, FfaRunType

(* Every other worker is outside. *)
LEMMA OthersOut ==
  ASSUME FfaOneUser, NEW w \in FfaWorker, ffaRun[w].at # "out" \/ ~ffa.worker_active
  PROVE  \A v \in FfaWorker \ {w} : ffaRun[v].at = "out"
BY DEF FfaOneUser, FfaInside

(* The workers after a step of one of them. *)
LEMMA RunsStep ==
  ASSUME NEW w \in FfaWorker, \A v \in FfaWorker \ {w} : ffaRun'[v].at = "out",
         ffaRun'[w].at # "out" => ffa'.alive /\ ffa'.worker_active, FfaRunOK(ffaRun[w])'
  PROVE  FfaOneUser' /\ \A v \in FfaWorker : FfaRunOK(ffaRun[v])'
<1>1. FfaOneUser'
  BY DEF FfaOneUser, FfaInside
<1>2. ASSUME NEW v \in FfaWorker \ {w} PROVE FfaRunOK(ffaRun[v])'
  BY <1>2 DEF FfaRunOK
<1>3. QED
  BY <1>1, <1>2

-----------------------------------------------------------------------------
(* The reports in the portal *)

(* Every report there after the step was there before it. *)
FfaReportsKept ==
  \A i \in FfaReportedRows' :
    /\ i \in FfaReportedRows /\ FfaTicketOf(i)' = FfaTicketOf(i)
    /\ pc'.rows[i].result = pc.rows[i].result

LEMMA SamePortal ==
  ASSUME UNCHANGED pcAll
  PROVE  FfaReportsKept /\ PcTickets' = PcTickets /\ (PcInv => PcInv')
<1>1. FfaReportsKept /\ PcTickets' = PcTickets
  BY DEF pcAll, FfaReportsKept, FfaReportedRows, PcHasResult, FfaTicketOf, PcTickets
<1>2. PcInv => PcInv'
  BY RefusedStep DEF pcAll, pcHistory
<1>3. QED
  BY <1>1, <1>2

LEMMA NewReports ==
  ASSUME PcInv, [PcNext]_pcVars, NEW i \in FfaReportedRows'
  PROVE  \/ /\ i \in FfaReportedRows /\ FfaTicketOf(i)' = FfaTicketOf(i)
            /\ pc'.rows[i].result = pc.rows[i].result
         \/ /\ i \in PcUsed /\ FfaTicketOf(i)' = FfaTicketOf(i)
            /\ pc'.rows[i].order = pc.rows[i].order
            /\ pc.rows[i].order \in pcObserved' \ pcObserved
<1>1. PcInv' /\ PcRowsKept
  BY PcStep
<1>2. /\ i \in PcSlot /\ pc'.rows[i].state \in {"READY", "TAKEN"}
      /\ pc'.rows[i].result.observed
  BY DEF FfaReportedRows, PcHasResult
<1>3. /\ pc'.incarnation = pc.incarnation
      /\ pc'.rows[i].generation = pc.rows[i].generation
      /\ pc.rows[i].state # "FREE"
      /\ pc'.rows[i].order = pc.rows[i].order
      /\ pc.rows[i].state \in {"READY", "TAKEN"} => pc'.rows[i].result = pc.rows[i].result
  BY <1>1, <1>2 DEF PcRowsKept
<1>4. FfaTicketOf(i)' = FfaTicketOf(i) /\ i \in PcUsed
  BY <1>2, <1>3 DEF FfaTicketOf, PcUsed
<1>5. CASE pc.rows[i].state \in {"READY", "TAKEN"}
  BY <1>2, <1>3, <1>4, <1>5 DEF FfaReportedRows, PcHasResult
<1>6. CASE pc.rows[i].state \notin {"READY", "TAKEN"}
  <2>1. pc.rows[i].order \notin pcObserved
    BY <1>4, <1>6 DEF PcInv, PcOneResult, PcVerdict, PcHasResult
  <2>2. pc'.rows[i].order \in pcObserved'
    BY <1>1, <1>2 DEF PcInv, PcOneResult, PcVerdict, PcHasResult, PcUsed
  <2>3. QED
    BY <1>3, <1>4, <2>1, <2>2
<1>7. QED
  BY <1>5, <1>6

(* A ticket stays one that was handed out. *)
LEMMA TicketsKept ==
  ASSUME PcInv, PcRowsKept, PcInv'
  PROVE  PcTickets \subseteq PcTickets'
<1>1. SUFFICES ASSUME NEW t \in PcTickets PROVE t \in PcTickets'
  OBVIOUS
<1>2. pc \in PcPortal /\ pc.incarnation \in Nat /\ pc'.incarnation \in Nat
  BY PcTypes DEF PcInv, PcTypeOK, PcPortal
<1>3. /\ t \in PcTicket /\ t.slot \in PcSlot /\ t.incarnation \in Nat /\ t.generation \in Nat
      /\ t.incarnation <= pc.incarnation
      /\ t.incarnation = pc.incarnation => t.generation <= pc.rows[t.slot].generation
  BY <1>1, <1>2, PcTicketSlot, PcConstants DEF PcTickets, PcTicket
<1>4. pc.rows[t.slot].generation \in Nat
  BY <1>3, PcTypes
<1>5. \/ pc'.incarnation = pc.incarnation + 1
      \/ /\ pc'.incarnation = pc.incarnation
         /\ pc'.rows[t.slot].generation \in {pc.rows[t.slot].generation, pc.rows[t.slot].generation + 1}
  BY <1>3 DEF PcRowsKept
<1>6. t.incarnation < pc'.incarnation \/ (t.incarnation = pc'.incarnation /\ t.generation <= pc'.rows[t.slot].generation)
  BY <1>2, <1>3, <1>4, <1>5
<1>7. QED
  BY <1>3, <1>6 DEF PcTickets

(* What the reports promise is kept if every promise made is. *)
LEMMA PromiseKept ==
  ASSUME FfaPromise, FfaReportsAdmitted, FfaReportsKept, ffaAdmitted \subseteq ffaAdmitted',
         \A t : FfaPromised(t) /\ (\E i \in FfaReportedRows : t = FfaTicketOf(i)) => FfaPromised(t)'
  PROVE  FfaPromise' /\ FfaReportsAdmitted'
BY DEF FfaPromise, FfaReportsAdmitted, FfaReportsKept

-----------------------------------------------------------------------------
(* The statuses *)

LEMMA FfaCodeIs ==
  ASSUME NEW s \in {"OK", "ESTATE", "ECODEC", "EOF"}
  PROVE  FfaCode(s) \in 0 .. 3 /\ <<"OK", "ESTATE", "ECODEC", "EOF">>[FfaCode(s) + 1] = s
<1> DEFINE name == <<"OK", "ESTATE", "ECODEC", "EOF">>
<1>1. \E n \in 0 .. 3 : name[n + 1] = s
  <2>1. name[0 + 1] = "OK" /\ name[1 + 1] = "ESTATE" /\ name[2 + 1] = "ECODEC" /\ name[3 + 1] = "EOF"
    OBVIOUS
  <2>2. 0 \in 0 .. 3 /\ 1 \in 0 .. 3 /\ 2 \in 0 .. 3 /\ 3 \in 0 .. 3
    OBVIOUS
  <2> HIDE DEF name
  <2>3. QED
    BY <2>1, <2>2
<1>2. QED
  BY <1>1 DEF FfaCode

LEMMA FfaCodeOK ==
  ASSUME NEW s \in {"OK", "ESTATE", "ECODEC", "EOF"}, FfaCode(s) = FfaCode("OK")
  PROVE  s = "OK"
<1>1. <<"OK", "ESTATE", "ECODEC", "EOF">>[FfaCode(s) + 1] = s
  BY FfaCodeIs
<1>2. <<"OK", "ESTATE", "ECODEC", "EOF">>[FfaCode("OK") + 1] = "OK"
  BY FfaCodeIs
<1>3. QED
  BY <1>1, <1>2, Zenon

-----------------------------------------------------------------------------
(* The parts of the invariant that a step which leaves the portal alone     *)
(* must keep.                                                               *)
LEMMA FfaQuiet ==
  ASSUME FfaInv, UNCHANGED pcAll, FfInv', FfaTypeOK', FfaOneUser', FfaExactPicture',
         FfaSlotHeld', \A w \in FfaWorker : FfaRunOK(ffaRun[w])',
         ffaAdmitted \subseteq ffaAdmitted',
         \A t : FfaPromised(t) /\ (\E i \in FfaReportedRows : t = FfaTicketOf(i)) => FfaPromised(t)'
  PROVE  FfaInv'
<1>1. FfaReportsKept /\ PcInv'
  BY SamePortal DEF FfaInv
<1>2. FfaPromise' /\ FfaReportsAdmitted'
  BY <1>1, PromiseKept DEF FfaInv
<1>3. QED
  BY <1>1, <1>2 DEF FfaInv

(* A run's own facts after a step that leaves the portal and the admitted   *)
(* tickets alone.                                                           *)
LEMMA SameReports ==
  ASSUME UNCHANGED pcAll
  PROVE  /\ \A t : t \in PcTickets => t \in PcTickets'
         /\ \A t : (\A i \in FfaReportedRows : FfaTicketOf(i) # t)
                     => \A i \in FfaReportedRows' : FfaTicketOf(i)' # t
BY SamePortal DEF FfaReportsKept

LEMMA FfaTypes ==
  ASSUME FfaInv
  PROVE  /\ ffa \in FfaDecoder /\ ffaRun \in [FfaWorker -> FfaRunType] /\ PcInv /\ FfInv
         /\ FfaFlags(ffa) /\ FfaTicketsOf(ffa) /\ FfaCounts(ffa)
         /\ FfaOneUser /\ FfaTypeOK
         /\ \A w \in FfaWorker : ffaRun[w] \in FfaRunType /\ FfaRunOK(ffaRun[w])
BY FfaFields DEF FfaInv, FfaTypeOK

(* A worker enters through the gate. *)
LEMMA FfaEnterStep ==
  ASSUME FfaInv, NEW w \in FfaWorker, NEW op \in {"mjpeg", "eof"}, NEW t \in PcTickets,
         FfaEnter(w, op, t)
  PROVE  FfaInv'
<1>1. /\ ffa \in FfaDecoder /\ ffaRun \in [FfaWorker -> FfaRunType] /\ FfaOneUser /\ FfaTypeOK
  BY FfaTypes
<1>2. /\ ffa.alive /\ ~ffa.worker_active /\ t \notin ffaAdmitted
      /\ ffa' = [ffa EXCEPT !.worker_active = TRUE]
      /\ UNCHANGED <<ff, ffCalls, ffHeld, pcAll, ffaAdmitted, ffaAccepted, ffaDelivered>>
  BY DEF FfaEnter
<1> DEFINE r == [at |-> "admit", op |-> op, ticket |-> t, status |-> "OK"]
<1>3. ffaRun' = [ffaRun EXCEPT ![w] = r]
  BY DEF FfaEnter
<1>4. r \in FfaRunType
  BY DEF FfaRunType, FfaPhase, FfaAnyTicket, PcTickets
<1>5. /\ ffaRun' \in [FfaWorker -> FfaRunType] /\ ffaRun'[w] = r
      /\ \A v \in FfaWorker \ {w} : ffaRun'[v] = ffaRun[v]
  BY <1>1, <1>3, <1>4
<1>6. /\ ffa' \in FfaDecoder /\ FfaSameSlot(ffa, ffa') /\ FfaSameBuffers(ffa, ffa')
      /\ ffa'.worker_active /\ ffa'.alive
  BY <1>1, <1>2, SetGate
<1>7. FfaRunOK(ffaRun[w])'
  BY <1>2, <1>5, SameReports DEF FfaRunOK
<1>8. FfaOneUser' /\ \A v \in FfaWorker : FfaRunOK(ffaRun[v])'
  <2>1. \A v \in FfaWorker \ {w} : ffaRun'[v].at = "out"
    BY <1>1, <1>2, <1>5, OthersOut
  <2>2. QED
    BY <1>6, <1>7, <2>1, RunsStep
<1>9. FfaTypeOK' /\ FfaSlotHeld' /\ FfaExactPicture'
  BY <1>2, <1>5, <1>6 DEF FfaInv, FfaTypeOK, FfaSlotHeld, FfaExactPicture, FfaSameSlot
<1>10. FfInv'
  BY <1>2 DEF FfaInv, FfInv, FfTypeOK, FfCodecProtocol
<1>11. \A u : FfaPromised(u) => FfaPromised(u)'
  BY <1>2, <1>6 DEF FfaPromised, FfaSameSlot
<1>12. QED
  BY <1>2, <1>8, <1>9, <1>10, <1>11, FfaQuiet

(* A worker's step from one point of its run to another. *)
LEMMA WorkerStep ==
  ASSUME FfaInv, NEW w \in FfaWorker, ffaRun[w].at # "out", NEW at, NEW status,
         RunMoved(w, at, status), FfaSameGate(ffa, ffa'), FfaRunOK(ffaRun[w])'
  PROVE  FfaOneUser' /\ \A v \in FfaWorker : FfaRunOK(ffaRun[v])'
<1>1. \A v \in FfaWorker \ {w} : ffaRun'[v].at = "out"
  BY OthersOut DEF RunMoved, FfaInv
<1>2. ffa'.alive /\ ffa'.worker_active
  BY DEF FfaInv, FfaOneUser, FfaInside, FfaSameGate
<1>3. QED
  BY <1>1, <1>2, RunsStep

(* A step that leaves the slot and the histories alone. *)
LEMMA SameSlot ==
  ASSUME FfaInv, UNCHANGED <<pcAll, ffaAdmitted, ffaAccepted, ffaDelivered>>, FfInv',
         ffa' \in FfaDecoder, FfaSameSlot(ffa, ffa'), ffaRun' \in [FfaWorker -> FfaRunType],
         FfaOneUser', \A w \in FfaWorker : FfaRunOK(ffaRun[w])'
  PROVE  FfaInv'
<1>1. FfaTypeOK' /\ FfaSlotHeld' /\ FfaExactPicture'
  BY DEF FfaInv, FfaTypeOK, FfaSlotHeld, FfaExactPicture, FfaSameSlot
<1>2. \A u : FfaPromised(u) => FfaPromised(u)'
  BY DEF FfaPromised, FfaSameSlot
<1>3. QED
  BY <1>1, <1>2, FfaQuiet

LEMMA SameSource ==
  ASSUME FfInv, UNCHANGED <<ff, ffCalls, ffHeld>>
  PROVE  FfInv'
BY DEF FfInv, FfTypeOK, FfCodecProtocol

LEMMA SameDecoder == FfaSameSlot(ffa, ffa) /\ FfaSameGate(ffa, ffa) /\ FfaSameBuffers(ffa, ffa)
BY DEF FfaSameSlot, FfaSameGate, FfaSameBuffers

LEMMA FfaAdmitStep ==
  ASSUME FfaInv, NEW w \in FfaWorker, FfaAdmit(w)
  PROVE  FfaInv'
<1> DEFINE run == ffaRun[w]
<1>1. /\ ffa \in FfaDecoder /\ ffaRun \in [FfaWorker -> FfaRunType] /\ FfInv
      /\ run \in FfaRunType /\ FfaRunOK(run)
      /\ FfaFlags(ffa) /\ FfaTicketsOf(ffa) /\ FfaCounts(ffa)
  BY FfaTypes
<1>2. /\ run.at = "admit" /\ UNCHANGED <<pcAll, ffaAccepted, ffaDelivered>>
      /\ UNCHANGED <<ff, ffCalls, ffHeld>>
  BY DEF FfaAdmit
<1>3. FfInv'
  BY <1>1, <1>2, SameSource
<1>4. run.ticket \in PcTickets /\ run.ticket \in PcTicket /\ run.ticket \notin ffaAdmitted
  BY <1>1, <1>2 DEF FfaRunOK, PcTickets
<1>5. CASE ~FfaAdmissible
  <2>1. /\ GotoWith(w, "release", "ESTATE") /\ UNCHANGED <<ffa, ffaAdmitted>>
    BY <1>5 DEF FfaAdmit
  <2>2. RunMoved(w, "release", "ESTATE")
    BY <1>1, <2>1, GotoWithMoves DEF FfaPhase
  <2>3. FfaRunOK(ffaRun[w])'
    BY <1>2, <1>4, <2>2, SameReports DEF FfaRunOK, RunMoved
  <2>4. FfaOneUser' /\ \A v \in FfaWorker : FfaRunOK(ffaRun[v])'
    BY <1>2, <2>1, <2>2, <2>3, SameDecoder, WorkerStep
  <2>5. QED
    BY <1>1, <1>2, <1>3, <2>1, <2>2, <2>4, SameDecoder, SameSlot DEF RunMoved
<1>6. CASE FfaAdmissible
  <2>1. /\ ffa' = [ffa EXCEPT !.state = "DECODING", !.ticket = run.ticket,
                              !.eof_admitted = (run.op = "eof")]
        /\ Goto(w, "submit") /\ ffaAdmitted' = ffaAdmitted \union {run.ticket}
    BY <1>6 DEF FfaAdmit
  <2>2. RunMoved(w, "submit", run.status)
    BY <1>1, <2>1, GotoMoves DEF FfaPhase
  <2>3. /\ ffa' \in FfaDecoder /\ FfaSameGate(ffa, ffa') /\ FfaSameBuffers(ffa, ffa')
        /\ ffa'.state = "DECODING" /\ ffa'.ticket = run.ticket /\ ffa'.armed = ffa.armed
        /\ ffa'.cancelled = ffa.cancelled /\ ffa'.published = ffa.published
        /\ ffa'.decoded = ffa.decoded
        /\ ffa'.delivered = ffa.delivered /\ ffa'.discarded = ffa.discarded
    <3> DEFINE t == run.ticket
               b == run.op = "eof"
    <3>1. t \in FfaAnyTicket /\ b \in BOOLEAN
      BY <1>4 DEF FfaAnyTicket
    <3>2. ffa' = AfterAdmit(ffa, t, b)
      BY <2>1 DEF AfterAdmit
    <3>3. run.ticket = t
      OBVIOUS
    <3> HIDE DEF t, b, run
    <3>4. QED
      BY <1>1, <3>1, <3>2, <3>3, SetAdmitted
  <2>4. \A i \in FfaReportedRows' : FfaTicketOf(i)' # run.ticket
    BY <1>2, <1>4, SameReports DEF FfaInv, FfaReportsAdmitted
  <2>5. run.ticket \in PcTickets'
    BY <1>2, <1>4, SameReports
  <2>6. FfaRunOK(ffaRun[w])'
    BY <2>1, <2>2, <2>3, <2>4, <2>5 DEF FfaRunOK, RunMoved
  <2>7. FfaOneUser' /\ \A v \in FfaWorker : FfaRunOK(ffaRun[v])'
    BY <1>2, <2>2, <2>3, <2>6, WorkerStep
  <2>8. ffa.state = "EMPTY" /\ ~ffa.armed
    BY <1>6 DEF FfaAdmissible, FfaInv, FfaExactPicture
  <2>9. FfaTypeOK'
    BY <1>2, <1>4, <2>1, <2>2, <2>3 DEF FfaInv, FfaTypeOK, RunMoved
  <2>10. FfaSlotHeld'
    BY <1>2, <1>4, <2>1, <2>3 DEF FfaInv, FfaTypeOK, FfaSlotHeld
  <2>11. FfaExactPicture'
    BY <1>2, <2>3, <2>8 DEF FfaInv, FfaExactPicture
  <2>12. \A u : FfaPromised(u) => FfaPromised(u)'
    BY <1>2, <2>3, <2>8 DEF FfaPromised
  <2>13. QED
    BY <1>2, <1>3, <2>1, <2>7, <2>9, <2>10, <2>11, <2>12, FfaQuiet
<1>7. QED
  BY <1>5, <1>6

LEMMA FfaSubmitStep ==
  ASSUME FfaInv, NEW w \in FfaWorker, NEW fits \in BOOLEAN, FfaSubmit(w, fits)
  PROVE  FfaInv'
<1> DEFINE run == ffaRun[w]
           r   == IF run.op = "eof" THEN tm_ff_finish(ff) ELSE tm_ff_submit_mjpeg(ff, fits)
           t   == IF run.op = "mjpeg" /\ r.rc = "OK" THEN run.ticket ELSE ffa.packet
<1>1. /\ ffa \in FfaDecoder /\ ffaRun \in [FfaWorker -> FfaRunType] /\ FfInv
      /\ run \in FfaRunType /\ FfaRunOK(run) /\ FfaTicketsOf(ffa)
  BY FfaTypes
<1>2. /\ run.at = "submit" /\ UNCHANGED <<pcAll, ffaAdmitted, ffaAccepted, ffaDelivered>>
      /\ ff' = r.s /\ UNCHANGED <<ffCalls, ffHeld>> /\ ffa' = [ffa EXCEPT !.packet = t]
      /\ IF r.rc = "OK" THEN Goto(w, "decode")
         ELSE GotoWith(w, "publish", IF r.rc = "EFULL" THEN "ECODEC" ELSE r.rc)
  BY DEF FfaSubmit
<1>3. FfInv'
  <2>1. ff' = tm_ff_finish(ff).s \/ ff' = tm_ff_submit_mjpeg(ff, fits).s
    BY <1>2
  <2>2. QED
    BY <1>1, <1>2, <2>1, FfFinishInv, FfSubmitInv
<1>4. r.rc \in {"OK", "ESTATE", "EFULL"}
  BY DEF tm_ff_finish, tm_ff_submit_mjpeg, FfResult, FfSubmitRc
<1>5. ffa' \in FfaDecoder /\ FfaSameSlot(ffa, ffa') /\ FfaSameGate(ffa, ffa') /\ ffa'.packet = t
  <2>1. t \in FfaAnyTicket
    BY <1>1 DEF FfaTicketsOf, FfaRunType
  <2> HIDE DEF t, r
  <2>2. QED
    BY <1>1, <1>2, <2>1 DEF FfaDecoder, FfaSameSlot, FfaSameGate
<1>6. /\ run.ticket \in PcTickets /\ ffa.state = "DECODING" /\ ffa.ticket = run.ticket
      /\ run.ticket \in ffaAdmitted /\ \A i \in FfaReportedRows : FfaTicketOf(i) # run.ticket
  BY <1>1, <1>2 DEF FfaRunOK
<1>7. /\ run.ticket \in PcTickets' /\ \A i \in FfaReportedRows' : FfaTicketOf(i)' # run.ticket
      /\ ffa'.state = "DECODING" /\ ffa'.ticket = run.ticket /\ run.ticket \in ffaAdmitted'
  BY <1>2, <1>5, <1>6, SameReports DEF FfaSameSlot
<1>8. CASE r.rc = "OK"
  <2>1. RunMoved(w, "decode", run.status)
    BY <1>1, <1>2, <1>8, GotoMoves DEF FfaPhase
  <2>2. run.op = "mjpeg" => ffa'.packet = run.ticket
    BY <1>5, <1>8
  <2> HIDE DEF t, r
  <2>3. FfaRunOK(ffaRun[w])'
    BY <1>7, <2>1, <2>2 DEF FfaRunOK, RunMoved
  <2>4. FfaOneUser' /\ \A v \in FfaWorker : FfaRunOK(ffaRun[v])'
    BY <1>2, <1>5, <2>1, <2>3, WorkerStep
  <2>5. QED
    BY <1>2, <1>3, <1>5, <2>1, <2>4, SameSlot DEF RunMoved
<1>9. CASE r.rc # "OK"
  <2> HIDE DEF t, r
  <2> DEFINE s == IF r.rc = "EFULL" THEN "ECODEC" ELSE r.rc
  <2>1. GotoWith(w, "publish", s) /\ s \in {"OK", "ESTATE", "ECODEC", "EOF"} /\ s # "OK"
    BY <1>2, <1>4, <1>9
  <2> HIDE DEF s
  <2>2. RunMoved(w, "publish", s)
    BY <1>1, <2>1, GotoWithMoves DEF FfaPhase
  <2>3. FfaRunOK(ffaRun[w])'
    BY <1>7, <2>1, <2>2 DEF FfaRunOK, RunMoved
  <2>4. FfaOneUser' /\ \A v \in FfaWorker : FfaRunOK(ffaRun[v])'
    BY <1>2, <1>5, <2>2, <2>3, WorkerStep
  <2>5. QED
    BY <1>2, <1>3, <1>5, <2>2, <2>4, SameSlot DEF RunMoved
<1>10. QED
  BY <1>8, <1>9

(* A picture that comes out while a packet is in the decoder is that        *)
(* packet's.                                                                *)
LEMMA FfaDecodeStep ==
  ASSUME FfaInv, NEW w \in FfaWorker, FfaDecode(w)
  PROVE  FfaInv'
<1> DEFINE run == ffaRun[w]
<1>1. /\ ffa \in FfaDecoder /\ ffaRun \in [FfaWorker -> FfaRunType] /\ FfInv
      /\ run \in FfaRunType /\ FfaRunOK(run) /\ FfaTicketsOf(ffa)
  BY FfaTypes
<1>2. /\ run.at = "decode" /\ UNCHANGED <<pcAll, ffaAdmitted, ffaAccepted, ffaDelivered>>
  BY DEF FfaDecode
<1>3. PICK a \in FfCodecAnswers(ffHeld, FfNextStep(ff, TRUE)) :
        LET rc == tm_ff_next_cpu_luma(ff, TRUE, a[1], a[2]).rc
        IN  /\ FfCall(TRUE, a)
            /\ ffa' = [ffa EXCEPT !.work = IF rc = "FRAME" THEN ffa.packet ELSE @]
            /\ GotoWith(w, "publish", FfaDecodeStatus(ffaRun[w].op, rc))
  BY DEF FfaDecode
<1> DEFINE rc == tm_ff_next_cpu_luma(ff, TRUE, a[1], a[2]).rc
           t  == IF rc = "FRAME" THEN ffa.packet ELSE ffa.work
           s  == FfaDecodeStatus(run.op, rc)
<1>4. FfInv'
  BY <1>1, <1>3, FfCallInv
<1>5. /\ t \in FfaAnyTicket /\ s \in {"OK", "ESTATE", "ECODEC", "EOF"}
      /\ s = "OK" => run.op = "mjpeg" /\ rc = "FRAME"
  BY <1>1 DEF FfaTicketsOf, FfaDecodeStatus
<1>6. ffa' = [ffa EXCEPT !.work = t] /\ GotoWith(w, "publish", s)
  BY <1>3
<1>7. rc = "FRAME" /\ run.op = "mjpeg" => t = run.ticket
  BY <1>1, <1>2 DEF FfaRunOK
<1> HIDE DEF rc, t, s
<1>8. ffa' \in FfaDecoder /\ FfaSameSlot(ffa, ffa') /\ FfaSameGate(ffa, ffa') /\ ffa'.work = t
  BY <1>1, <1>5, <1>6 DEF FfaDecoder, FfaSameSlot, FfaSameGate
<1>9. RunMoved(w, "publish", s)
  BY <1>1, <1>5, <1>6, GotoWithMoves DEF FfaPhase
<1>10. /\ run.ticket \in PcTickets /\ ffa.state = "DECODING" /\ ffa.ticket = run.ticket
       /\ run.ticket \in ffaAdmitted /\ \A i \in FfaReportedRows : FfaTicketOf(i) # run.ticket
  BY <1>1, <1>2 DEF FfaRunOK
<1>11. /\ run.ticket \in PcTickets' /\ \A i \in FfaReportedRows' : FfaTicketOf(i)' # run.ticket
       /\ ffa'.state = "DECODING" /\ ffa'.ticket = run.ticket /\ run.ticket \in ffaAdmitted'
  BY <1>2, <1>8, <1>10, SameReports DEF FfaSameSlot
<1>12. FfaRunOK(ffaRun[w])'
  BY <1>5, <1>7, <1>8, <1>9, <1>11 DEF FfaRunOK, RunMoved
<1>13. FfaOneUser' /\ \A v \in FfaWorker : FfaRunOK(ffaRun[v])'
  BY <1>2, <1>8, <1>9, <1>12, WorkerStep
<1>14. QED
  BY <1>2, <1>4, <1>8, <1>9, <1>13, SameSlot DEF RunMoved

(* The picture is left in the slot, or the slot is empty again. *)
LEMMA FfaPublishStep ==
  ASSUME FfaInv, NEW w \in FfaWorker, FfaPublish(w)
  PROVE  FfaInv'
<1> DEFINE run   == ffaRun[w]
           ready == run.op = "mjpeg" /\ run.status = "OK" /\ ~ffa.cancelled
           s     == IF ready THEN "READY" ELSE "EMPTY"
           t     == IF ready THEN ffa.work ELSE ffa.published
           j     == IF ready THEN ffa.decoded + 1 ELSE ffa.decoded
           k     == IF run.op = "mjpeg" /\ ffa.cancelled THEN ffa.discarded + 1 ELSE ffa.discarded
           st    == IF ffa.cancelled THEN "ESTATE" ELSE run.status
<1>1. /\ ffa \in FfaDecoder /\ ffaRun \in [FfaWorker -> FfaRunType] /\ FfInv
      /\ run \in FfaRunType /\ FfaRunOK(run) /\ FfaTicketsOf(ffa) /\ FfaFlags(ffa)
      /\ FfaCounts(ffa)
  BY FfaTypes
<1>2. /\ run.at = "publish" /\ UNCHANGED <<pcAll, ffaAdmitted, ffaAccepted, ffaDelivered>>
      /\ UNCHANGED <<ff, ffCalls, ffHeld>>
      /\ ffa' = AfterPublish(ffa, s, t, j, k)
      /\ GotoWith(w, "complete", st)
  BY DEF FfaPublish, AfterPublish
<1>3. /\ s \in {"EMPTY", "READY"} /\ t \in FfaAnyTicket /\ j \in Nat /\ k \in Nat
      /\ st \in {"OK", "ESTATE", "ECODEC", "EOF"}
  BY <1>1 DEF FfaTicketsOf, FfaCounts, FfaRunType
<1>4. /\ run.ticket \in PcTickets /\ ffa.state = "DECODING" /\ ffa.ticket = run.ticket
      /\ run.ticket \in ffaAdmitted /\ \A i \in FfaReportedRows : FfaTicketOf(i) # run.ticket
      /\ run.status = "OK" => run.op = "mjpeg" /\ ffa.work = run.ticket
  BY <1>1, <1>2 DEF FfaRunOK
<1>5. /\ s = "READY" => t = run.ticket /\ ~ffa.cancelled /\ j = ffa.decoded + 1
      /\ s = "EMPTY" => j = ffa.decoded
      /\ k >= ffa.discarded
      /\ st = "OK" => s = "READY"
  <2>1. ffa.discarded \in Nat
    BY <1>1 DEF FfaCounts
  <2>2. k >= ffa.discarded
    BY <2>1
  <2>3. /\ s = "READY" => t = run.ticket /\ ~ffa.cancelled /\ j = ffa.decoded + 1
        /\ s = "EMPTY" => j = ffa.decoded
    BY <1>4
  <2>4. st = "OK" => s = "READY"
    BY <1>4
  <2>5. QED
    BY <2>2, <2>3, <2>4
<1> HIDE DEF ready, s, t, j, k, st
<1>6. /\ ffa' \in FfaDecoder /\ FfaSameGate(ffa, ffa') /\ FfaSameBuffers(ffa, ffa')
      /\ ffa'.state = s /\ ffa'.ticket = ffa.ticket /\ ffa'.armed = ffa.armed
      /\ ffa'.cancelled = ffa.cancelled /\ ffa'.published = t /\ ffa'.decoded = j
      /\ ffa'.delivered = ffa.delivered /\ ffa'.discarded = k
  BY <1>1, <1>2, <1>3, SetPublished
<1>7. RunMoved(w, "complete", st)
  BY <1>1, <1>2, <1>3, GotoWithMoves DEF FfaPhase
<1>8. /\ run.ticket \in PcTickets' /\ \A i \in FfaReportedRows' : FfaTicketOf(i)' # run.ticket
      /\ run.ticket \in ffaAdmitted'
  BY <1>2, <1>4, SameReports
<1>9. FfaRunOK(ffaRun[w])'
  BY <1>4, <1>5, <1>6, <1>7, <1>8 DEF FfaRunOK, RunMoved, FfaPromised
<1>10. FfaOneUser' /\ \A v \in FfaWorker : FfaRunOK(ffaRun[v])'
  BY <1>2, <1>6, <1>7, <1>9, WorkerStep
<1>11. FfaTypeOK' /\ FfaSlotHeld'
  BY <1>2, <1>4, <1>6, <1>7 DEF FfaInv, FfaTypeOK, FfaSlotHeld, RunMoved
<1>12. FfaExactPicture'
  <2>1. /\ ~ffa.armed /\ ffa.delivered <= ffa.decoded /\ ffa.decoded <= ffa.delivered + ffa.discarded
        /\ ffa.delivered = Cardinality(ffaDelivered)
    <3>1. ffa.state = "DECODING" /\ FfaExactPicture
      BY <1>4 DEF FfaInv
    <3>2. ffa.delivered \in Nat /\ ffa.decoded \in Nat /\ ffa.discarded \in Nat
      BY <1>1 DEF FfaCounts
    <3>3. QED
      BY <3>1, <3>2 DEF FfaExactPicture
  <2>2. ffa.delivered \in Nat /\ ffa.decoded \in Nat /\ ffa.discarded \in Nat
    BY <1>1 DEF FfaCounts
  <2>3. ~ffa'.armed /\ (ffa'.state = "READY" => ffa'.published = ffa'.ticket /\ ~ffa'.cancelled)
    BY <1>4, <1>5, <1>6, <2>1
  <2>4. CASE s = "READY"
    BY <1>2, <1>3, <1>5, <1>6, <2>1, <2>2, <2>3, <2>4 DEF FfaExactPicture
  <2>5. CASE s = "EMPTY"
    BY <1>2, <1>3, <1>5, <1>6, <2>1, <2>2, <2>3, <2>5 DEF FfaExactPicture
  <2>6. QED
    BY <1>3, <2>4, <2>5
<1>13. \A u : FfaPromised(u) => FfaPromised(u)'
  BY <1>2, <1>4, <1>6 DEF FfaPromised
<1>14. FfInv'
  BY <1>1, <1>2, SameSource
<1>15. QED
  BY <1>2, <1>10, <1>11, <1>12, <1>13, <1>14, FfaQuiet

(* The slot is emptied by its owner or for want of a report; nothing that   *)
(* was promised is lost.                                                    *)
LEMMA EmptiedPicture ==
  ASSUME FfaInv, ffa.state = "READY", ffa'.state = "EMPTY", ~ffa'.armed,
         ffa'.decoded = ffa.decoded, ffaAccepted' = ffaAccepted,
         \/ ffa'.delivered = ffa.delivered + 1 /\ ffa'.discarded = ffa.discarded
            /\ ffaDelivered' = ffaDelivered \union {ffa.ticket}
         \/ ffa'.delivered = ffa.delivered /\ ffa'.discarded = ffa.discarded + 1
            /\ ffaDelivered' = ffaDelivered
  PROVE  FfaExactPicture'
<1>1. FfaCounts(ffa)
  BY FfaTypes
<1>2. ffa.delivered \in Nat /\ ffa.decoded \in Nat /\ ffa.discarded \in Nat
  BY <1>1 DEF FfaCounts
<1>3. /\ ffa.delivered + 1 <= ffa.decoded /\ ffa.decoded <= ffa.delivered + 1 + ffa.discarded
      /\ ffa.delivered = Cardinality(ffaDelivered)
  BY DEF FfaInv, FfaExactPicture
<1>4. ffa'.delivered = Cardinality(ffaDelivered')
  <2>1. IsFiniteSet(ffaDelivered) /\ ffa.ticket \notin ffaDelivered
    BY DEF FfaInv, FfaTypeOK, FfaSlotHeld
  <2>2. Cardinality(ffaDelivered \union {ffa.ticket}) = Cardinality(ffaDelivered) + 1
    BY <2>1, FS_AddElement
  <2>3. QED
    BY <1>3, <2>2
<1>5. /\ ffa'.delivered <= ffa'.decoded /\ ffa'.decoded <= ffa'.delivered + ffa'.discarded
      /\ ffa'.delivered \in Nat /\ ffa'.discarded \in Nat /\ ffa'.decoded \in Nat
  BY <1>2, <1>3
<1>6. QED
  BY <1>4, <1>5 DEF FfaExactPicture

LEMMA FfaRollbackStep ==
  ASSUME FfaInv, NEW w \in FfaWorker, FfaRollback(w)
  PROVE  FfaInv'
<1> DEFINE run == ffaRun[w]
           own == ffa.state = "READY" /\ ffa.ticket = run.ticket
<1>1. /\ ffa \in FfaDecoder /\ ffaRun \in [FfaWorker -> FfaRunType] /\ FfInv
      /\ run \in FfaRunType /\ FfaRunOK(run) /\ FfaTicketsOf(ffa) /\ FfaFlags(ffa)
      /\ FfaCounts(ffa)
  BY FfaTypes
<1>2. /\ run.at = "rollback" /\ UNCHANGED <<pcAll, ffaAdmitted, ffaAccepted, ffaDelivered>>
      /\ UNCHANGED <<ff, ffCalls, ffHeld>> /\ Goto(w, "wake")
      /\ ffa' = IF own THEN AfterRollback(ffa, ffa.discarded + 1) ELSE ffa
  BY DEF FfaRollback, AfterRollback
<1>3. FfInv'
  BY <1>1, <1>2, SameSource
<1>4. RunMoved(w, "wake", run.status)
  BY <1>1, <1>2, GotoMoves DEF FfaPhase
<1>5. run.ticket \in PcTickets' /\ \A i \in FfaReportedRows : FfaTicketOf(i) # run.ticket
  BY <1>1, <1>2, SameReports DEF FfaRunOK
<1>6. FfaRunOK(ffaRun[w])'
  BY <1>4, <1>5 DEF FfaRunOK, RunMoved
<1>7. CASE ~own
  <2>1. ffa' = ffa
    BY <1>2, <1>7
  <2> HIDE DEF own
  <2>2. FfaOneUser' /\ \A v \in FfaWorker : FfaRunOK(ffaRun[v])'
    BY <1>2, <1>4, <1>6, <2>1, SameDecoder, WorkerStep
  <2>3. QED
    BY <1>1, <1>2, <1>3, <1>4, <2>1, <2>2, SameDecoder, SameSlot DEF RunMoved
<1>8. CASE own
  <2>1. ffa' = AfterRollback(ffa, ffa.discarded + 1) /\ ffa.discarded + 1 \in Nat
    BY <1>1, <1>2, <1>8 DEF FfaCounts
  <2>2. ffa.state = "READY" /\ ffa.ticket = run.ticket
    BY <1>8
  <2> HIDE DEF own
  <2>3. /\ ffa' \in FfaDecoder /\ FfaSameGate(ffa, ffa')
        /\ ffa'.state = "EMPTY" /\ ~ffa'.armed /\ ffa'.cancelled = ffa.cancelled
        /\ ffa'.decoded = ffa.decoded /\ ffa'.delivered = ffa.delivered
        /\ ffa'.discarded = ffa.discarded + 1
    <3> DEFINE k == ffa.discarded + 1
    <3>1. ffa' = AfterRollback(ffa, k) /\ k \in Nat
      BY <2>1
    <3>2. QED
      <4> HIDE DEF k
      <4>1. /\ ffa' \in FfaDecoder /\ FfaSameGate(ffa, ffa')
            /\ ffa'.state = "EMPTY" /\ ~ffa'.armed /\ ffa'.cancelled = ffa.cancelled
            /\ ffa'.decoded = ffa.decoded /\ ffa'.delivered = ffa.delivered
            /\ ffa'.discarded = k
        BY <1>1, <3>1, SetRolledBack
      <4>2. QED
        BY <4>1 DEF k
  <2>4. FfaOneUser' /\ \A v \in FfaWorker : FfaRunOK(ffaRun[v])'
    BY <1>2, <1>4, <1>6, <2>3, WorkerStep
  <2>5. FfaExactPicture'
    BY <1>2, <2>2, <2>3, EmptiedPicture
  <2>6. FfaTypeOK' /\ FfaSlotHeld'
    BY <1>2, <1>4, <2>3 DEF FfaInv, FfaTypeOK, FfaSlotHeld, RunMoved
  <2>7. \A t : FfaPromised(t) /\ (\E i \in FfaReportedRows : t = FfaTicketOf(i)) => FfaPromised(t)'
    BY <1>2, <1>5, <2>2, <2>3 DEF FfaPromised
  <2>8. QED
    BY <1>2, <1>3, <2>4, <2>5, <2>6, <2>7, FfaQuiet
<1>9. QED
  BY <1>7, <1>8

LEMMA FfaWakeStep ==
  ASSUME FfaInv, NEW w \in FfaWorker, FfaWake(w)
  PROVE  FfaInv'
<1>1. /\ ffa \in FfaDecoder /\ ffaRun \in [FfaWorker -> FfaRunType] /\ FfInv /\ FfaRunOK(ffaRun[w])
  BY FfaTypes
<1>2. /\ ffaRun[w].at = "wake" /\ UNCHANGED <<pcAll, ffaAdmitted, ffaAccepted, ffaDelivered>>
      /\ UNCHANGED <<ff, ffCalls, ffHeld, ffa>> /\ Goto(w, "release")
  BY DEF FfaWake
<1>3. FfInv'
  BY <1>1, <1>2, SameSource
<1>4. RunMoved(w, "release", ffaRun[w].status)
  BY <1>1, <1>2, GotoMoves DEF FfaPhase
<1>5. ffaRun[w].ticket \in PcTickets'
  BY <1>1, <1>2, SameReports DEF FfaRunOK
<1>6. FfaRunOK(ffaRun[w])'
  BY <1>4, <1>5 DEF FfaRunOK, RunMoved
<1>7. FfaOneUser' /\ \A v \in FfaWorker : FfaRunOK(ffaRun[v])'
  BY <1>2, <1>4, <1>6, SameDecoder, WorkerStep
<1>8. QED
  BY <1>1, <1>2, <1>3, <1>4, <1>7, SameDecoder, SameSlot DEF RunMoved

LEMMA FfaReleaseStep ==
  ASSUME FfaInv, NEW w \in FfaWorker, FfaRelease(w)
  PROVE  FfaInv'
<1>1. /\ ffa \in FfaDecoder /\ ffaRun \in [FfaWorker -> FfaRunType] /\ FfInv /\ FfaOneUser
  BY FfaTypes
<1>2. /\ ffaRun[w].at = "release" /\ UNCHANGED <<pcAll, ffaAdmitted, ffaAccepted, ffaDelivered>>
      /\ UNCHANGED <<ff, ffCalls, ffHeld>> /\ ffa' = [ffa EXCEPT !.worker_active = FALSE]
      /\ ffaRun' = [ffaRun EXCEPT ![w] = FfaOut]
  BY DEF FfaRelease
<1>3. FfInv'
  BY <1>1, <1>2, SameSource
<1>4. FfaOut \in FfaRunType /\ FfaOut.at = "out"
  BY DEF FfaOut, FfaRunType, FfaPhase, FfaAnyTicket
<1>5. /\ ffaRun' \in [FfaWorker -> FfaRunType] /\ ffaRun'[w].at = "out"
      /\ \A v \in FfaWorker \ {w} : ffaRun'[v] = ffaRun[v]
  BY <1>1, <1>2, <1>4
<1>6. ffa' \in FfaDecoder /\ FfaSameSlot(ffa, ffa')
  BY <1>1, <1>2, SetGate
<1>7. FfaRunOK(ffaRun[w])'
  BY <1>5 DEF FfaRunOK
<1>8. FfaOneUser' /\ \A v \in FfaWorker : FfaRunOK(ffaRun[v])'
  <2>1. \A v \in FfaWorker \ {w} : ffaRun'[v].at = "out"
    BY <1>1, <1>2, <1>5, OthersOut
  <2>2. QED
    BY <1>5, <1>7, <2>1, RunsStep
<1>9. QED
  BY <1>2, <1>3, <1>5, <1>6, <1>8, SameSlot

-----------------------------------------------------------------------------
(* The media owner's steps *)

(* The runs after a step of the owner: one at a time, and what each carries *)
(* is untouched as long as it decodes.                                      *)
LEMMA OwnerRuns ==
  ASSUME FfaInv, UNCHANGED <<pcAll, ffaRun, ffaAdmitted>>,
         FfaSameGate(ffa, ffa') \/ ~ffa.worker_active, FfaSameBuffers(ffa, ffa'),
         ffa.state = "DECODING" => ffa'.state = "DECODING" /\ ffa'.ticket = ffa.ticket,
         \A t : FfaPromised(t) => FfaPromised(t)'
  PROVE  FfaOneUser' /\ \A w \in FfaWorker : FfaRunOK(ffaRun[w])'
<1>1. FfaOneUser'
  BY DEF FfaInv, FfaOneUser, FfaInside, FfaSameGate
<1>2. ASSUME NEW w \in FfaWorker PROVE FfaRunOK(ffaRun[w])'
  <2>1. FfaRunOK(ffaRun[w])
    BY <1>2, FfaTypes
  <2>2. QED
    BY <2>1, SameReports DEF FfaRunOK, FfaSameBuffers
<1>3. QED
  BY <1>1, <1>2

LEMMA FfaAcceptStep ==
  ASSUME FfaInv, NEW t \in PcTickets, FfaOwnerAccept(t)
  PROVE  FfaInv'
<1>1. ffa \in FfaDecoder /\ FfInv
  BY FfaTypes
<1>2. /\ ffa' = [ffa EXCEPT !.armed = TRUE] /\ ffa.state = "READY" /\ ffa.ticket = t
      /\ ~ffa.cancelled /\ ffaAccepted' = IF ffa.armed THEN ffaAccepted ELSE t
      /\ UNCHANGED <<pcAll, ffaRun, ffaAdmitted>> /\ UNCHANGED <<ff, ffCalls, ffHeld, ffaDelivered>>
  BY DEF FfaOwnerAccept, FfaAcceptable
<1>3. /\ ffa' \in FfaDecoder /\ ffa'.armed /\ FfaSameGate(ffa, ffa') /\ FfaSameBuffers(ffa, ffa')
      /\ ffa'.state = ffa.state /\ ffa'.cancelled = ffa.cancelled /\ ffa'.ticket = ffa.ticket
      /\ ffa'.published = ffa.published /\ ffa'.decoded = ffa.decoded
      /\ ffa'.delivered = ffa.delivered /\ ffa'.discarded = ffa.discarded
  BY <1>1, <1>2 DEF FfaDecoder, FfaSameGate, FfaSameBuffers
<1>4. FfInv'
  BY <1>1, <1>2, SameSource
<1>5. \A u : FfaPromised(u) => FfaPromised(u)'
  BY <1>2, <1>3 DEF FfaPromised
<1>6. FfaOneUser' /\ \A w \in FfaWorker : FfaRunOK(ffaRun[w])'
  BY <1>2, <1>3, <1>5, OwnerRuns
<1>7. FfaTypeOK' /\ FfaSlotHeld'
  BY <1>2, <1>3 DEF FfaInv, FfaTypeOK, FfaSlotHeld
<1>8. FfaExactPicture'
  BY <1>2, <1>3 DEF FfaInv, FfaExactPicture
<1>9. QED
  BY <1>2, <1>4, <1>5, <1>6, <1>7, <1>8, FfaQuiet

LEMMA FfaNextLumaStep ==
  ASSUME FfaInv, FfaOwnerNextLuma
  PROVE  FfaInv'
<1> DEFINE j == ffa.delivered + 1
           t == FfaNoTicket
<1>1. ffa \in FfaDecoder /\ FfInv /\ FfaCounts(ffa)
  BY FfaTypes
<1>2. /\ ffa' = AfterCopy(ffa, t, j) /\ ffa.state = "READY" /\ ~ffa.cancelled
      /\ ffaDelivered' = ffaDelivered \union {ffa.published}
      /\ UNCHANGED <<pcAll, ffaRun, ffaAdmitted>> /\ UNCHANGED <<ff, ffCalls, ffHeld, ffaAccepted>>
  BY DEF FfaOwnerNextLuma, AfterCopy
<1>3. j \in Nat /\ t \in FfaAnyTicket
  BY <1>1 DEF FfaCounts, FfaAnyTicket
<1>4. j = ffa.delivered + 1
  OBVIOUS
<1> HIDE DEF j, t
<1>5. /\ ffa' \in FfaDecoder
      /\ FfaSameGate(ffa, ffa') /\ FfaSameBuffers(ffa, ffa')
      /\ ffa'.state = "EMPTY" /\ ffa'.ticket = t /\ ~ffa'.armed
      /\ ffa'.cancelled = ffa.cancelled /\ ffa'.published = ffa.published
      /\ ffa'.decoded = ffa.decoded
      /\ ffa'.delivered = j /\ ffa'.discarded = ffa.discarded
  BY <1>1, <1>2, <1>3, SetCopied
<1>6. ffa.published = ffa.ticket /\ ffa.ticket \in ffaAdmitted
  BY <1>2 DEF FfaInv, FfaExactPicture, FfaSlotHeld
<1>7. FfaExactPicture'
  BY <1>2, <1>4, <1>5, <1>6, EmptiedPicture
<1>8. FfInv'
  BY <1>1, <1>2, SameSource
<1>9. \A u : FfaPromised(u) => FfaPromised(u)'
  BY <1>2, <1>5, <1>6 DEF FfaPromised
<1>10. FfaOneUser' /\ \A w \in FfaWorker : FfaRunOK(ffaRun[w])'
  BY <1>2, <1>5, <1>9, OwnerRuns
<1>11. FfaTypeOK' /\ FfaSlotHeld'
  <2>1. IsFiniteSet(ffaDelivered')
    BY <1>2, FS_AddElement DEF FfaInv, FfaTypeOK
  <2>2. QED
    BY <1>2, <1>5, <1>6, <2>1 DEF FfaInv, FfaTypeOK, FfaSlotHeld
<1>12. QED
  BY <1>2, <1>7, <1>8, <1>9, <1>10, <1>11, FfaQuiet

LEMMA FfaCancelStep ==
  ASSUME FfaInv, FfaOwnerCancel
  PROVE  FfaInv'
<1>1. ffa \in FfaDecoder /\ FfInv /\ FfaCounts(ffa)
  BY FfaTypes
<1>2. /\ UNCHANGED <<pcAll, ffaRun, ffaAdmitted>>
      /\ UNCHANGED <<ff, ffCalls, ffHeld, ffaAccepted, ffaDelivered>>
  BY DEF FfaOwnerCancel
<1>3. FfInv'
  BY <1>1, <1>2, SameSource
<1>4. CASE ffa.state # "READY"
  <2>1. ffa' = [ffa EXCEPT !.cancelled = TRUE]
    BY <1>4 DEF FfaOwnerCancel
  <2>2. /\ ffa' \in FfaDecoder /\ ffa'.cancelled /\ FfaSameGate(ffa, ffa')
        /\ FfaSameBuffers(ffa, ffa')
        /\ ffa'.state = ffa.state /\ ffa'.armed = ffa.armed /\ ffa'.ticket = ffa.ticket
        /\ ffa'.published = ffa.published /\ ffa'.decoded = ffa.decoded
        /\ ffa'.delivered = ffa.delivered /\ ffa'.discarded = ffa.discarded
    BY <1>1, <2>1 DEF FfaDecoder, FfaSameGate, FfaSameBuffers
  <2>3. \A u : FfaPromised(u)'
    BY <2>2 DEF FfaPromised
  <2>4. FfaOneUser' /\ \A w \in FfaWorker : FfaRunOK(ffaRun[w])'
    BY <1>2, <2>2, <2>3, OwnerRuns
  <2>5. FfaTypeOK' /\ FfaSlotHeld'
    BY <1>2, <2>2 DEF FfaInv, FfaTypeOK, FfaSlotHeld
  <2>6. FfaExactPicture'
    BY <1>2, <1>4, <2>2 DEF FfaInv, FfaExactPicture
  <2>7. QED
    BY <1>2, <1>3, <2>3, <2>4, <2>5, <2>6, FfaQuiet
<1>5. CASE ffa.state = "READY"
  <2> DEFINE k == ffa.discarded + 1
             t == FfaNoTicket
  <2>1. ffa' = AfterCancel(ffa, k, t)
    BY <1>5 DEF FfaOwnerCancel, AfterCancel
  <2>2. k \in Nat /\ t \in FfaAnyTicket
    BY <1>1 DEF FfaCounts, FfaAnyTicket
  <2>3. k = ffa.discarded + 1
    OBVIOUS
  <2> HIDE DEF k, t
  <2>4. /\ ffa' \in FfaDecoder
        /\ FfaSameGate(ffa, ffa') /\ FfaSameBuffers(ffa, ffa')
        /\ ffa'.state = "EMPTY" /\ ffa'.ticket = t /\ ~ffa'.armed
        /\ ffa'.cancelled /\ ffa'.published = ffa.published
        /\ ffa'.decoded = ffa.decoded
        /\ ffa'.delivered = ffa.delivered /\ ffa'.discarded = k
    BY <1>1, <2>1, <2>2, SetCancelled
  <2>5. \A u : FfaPromised(u)'
    BY <2>4 DEF FfaPromised
  <2>6. FfaOneUser' /\ \A w \in FfaWorker : FfaRunOK(ffaRun[w])'
    BY <1>2, <1>5, <2>4, <2>5, OwnerRuns
  <2>7. FfaTypeOK' /\ FfaSlotHeld'
    BY <1>2, <2>4 DEF FfaInv, FfaTypeOK, FfaSlotHeld
  <2>8. FfaExactPicture'
    BY <1>2, <1>5, <2>3, <2>4, EmptiedPicture
  <2>9. QED
    BY <1>2, <1>3, <2>5, <2>6, <2>7, <2>8, FfaQuiet
<1>6. QED
  BY <1>4, <1>5

LEMMA FfaDestroyStep ==
  ASSUME FfaInv, FfaDestroy
  PROVE  FfaInv'
<1>1. ffa \in FfaDecoder /\ FfInv /\ ffaRun \in [FfaWorker -> FfaRunType]
  BY FfaTypes
<1>2. /\ ffa' = [ffa EXCEPT !.alive = FALSE] /\ ~ffa.worker_active
      /\ UNCHANGED <<pcAll, ffaRun, ffaAdmitted>>
      /\ UNCHANGED <<ff, ffCalls, ffHeld, ffaAccepted, ffaDelivered>>
  BY DEF FfaDestroy, FfaDestroyable
<1>3. /\ ffa' \in FfaDecoder /\ FfaSameSlot(ffa, ffa') /\ FfaSameBuffers(ffa, ffa')
  BY <1>1, <1>2 DEF FfaDecoder, FfaSameSlot, FfaSameBuffers
<1>4. \A u : FfaPromised(u) => FfaPromised(u)'
  BY <1>2, <1>3 DEF FfaPromised, FfaSameSlot
<1>5. FfaOneUser' /\ \A w \in FfaWorker : FfaRunOK(ffaRun[w])'
  BY <1>2, <1>3, <1>4, OwnerRuns DEF FfaSameSlot
<1>6. FfInv'
  BY <1>1, <1>2, SameSource
<1>7. QED
  BY <1>1, <1>2, <1>3, <1>5, <1>6, SameSlot

-----------------------------------------------------------------------------
(* The steps of the portal *)

(* A step that leaves the decoder alone and adds no report. *)
LEMMA PortalStep ==
  ASSUME FfaInv, [PcNext]_pcVars, pcObserved' = pcObserved,
         UNCHANGED <<ff, ffCalls, ffHeld, ffa, ffaRun, ffaAdmitted, ffaAccepted, ffaDelivered>>
  PROVE  FfaInv'
<1>1. PcInv /\ FfInv /\ FfaTypeOK
  BY FfaTypes
<1>2. PcInv' /\ PcTickets \subseteq PcTickets'
  BY <1>1, PcStep, TicketsKept
<1>3. FfaReportsKept
  BY <1>1, NewReports DEF FfaReportsKept
<1>4. FfaPromise' /\ FfaReportsAdmitted'
  <2>1. \A t : FfaPromised(t) => FfaPromised(t)'
    BY DEF FfaPromised
  <2>2. QED
    BY <1>3, <2>1, PromiseKept DEF FfaInv
<1>5. ASSUME NEW w \in FfaWorker PROVE FfaRunOK(ffaRun[w])'
  <2>1. FfaRunOK(ffaRun[w])
    BY <1>5, FfaTypes
  <2>2. \A t : (\A i \in FfaReportedRows : FfaTicketOf(i) # t)
                 => \A i \in FfaReportedRows' : FfaTicketOf(i)' # t
    BY <1>3 DEF FfaReportsKept
  <2>3. QED
    BY <1>2, <2>1, <2>2 DEF FfaRunOK, FfaPromised
<1>6. FfaOneUser' /\ FfaExactPicture' /\ FfaSlotHeld' /\ FfaTypeOK'
  BY DEF FfaInv, FfaOneUser, FfaInside, FfaExactPicture, FfaSlotHeld, FfaTypeOK
<1>7. FfInv'
  BY <1>1, SameSource
<1>8. QED
  BY <1>2, <1>4, <1>5, <1>6, <1>7 DEF FfaInv

LEMMA FfaHostStep ==
  ASSUME FfaInv, FfaHost
  PROVE  FfaInv'
<1>1. UNCHANGED <<ff, ffCalls, ffHeld, ffa, ffaRun, ffaAdmitted, ffaAccepted, ffaDelivered>>
  BY DEF FfaHost
<1>2. CASE PcBegin
  BY <1>1, <1>2, PortalStep DEF PcNext, PcBegin, pcHistory
<1>3. ASSUME NEW t \in PcTickets, PcRequestCancel(t) PROVE FfaInv'
  BY <1>1, <1>3, PortalStep DEF PcNext, PcRequestCancel
<1>4. ASSUME NEW t \in PcTickets, PcCancelQuiesced(t) PROVE FfaInv'
  BY <1>1, <1>4, PortalStep DEF PcNext, PcCancelQuiesced, pcHistory
<1>5. ASSUME NEW t \in PcTickets, PcSettle(t) PROVE FfaInv'
  BY <1>1, <1>5, PortalStep DEF PcNext, PcSettle
<1>6. CASE PcTake
  BY <1>1, <1>6, PortalStep DEF PcNext, PcTake, pcHistory
<1>7. QED
  BY <1>2, <1>3, <1>4, <1>5, <1>6 DEF FfaHost

(* The only report that a completion adds is the one of its own ticket. *)
LEMMA OneReport ==
  ASSUME PcInv, NEW t \in PcTickets, NEW status \in PcStatus, PcComplete(t, status),
         NEW i \in FfaReportedRows'
  PROVE  \/ /\ i \in FfaReportedRows /\ FfaTicketOf(i)' = FfaTicketOf(i)
            /\ pc'.rows[i].result = pc.rows[i].result
         \/ /\ CompleteRc(pc, t) = "OK" /\ FfaTicketOf(i)' = t
            /\ pc'.rows[i].result.status = status
<1>1. [PcNext]_pcVars
  BY DEF PcNext
<1>2. SUFFICES ASSUME i \in PcUsed, FfaTicketOf(i)' = FfaTicketOf(i),
                      pc.rows[i].order \in pcObserved' \ pcObserved
               PROVE  /\ CompleteRc(pc, t) = "OK" /\ FfaTicketOf(i)' = t
                      /\ pc'.rows[i].result.status = status
  BY <1>1, NewReports
<1>3. CompleteRc(pc, t) = "OK" /\ pc.rows[i].order = pc.rows[t.slot].order
  BY <1>2 DEF PcComplete, PcOrderOf
<1>4. pc_find(pc, t)
  BY <1>3 DEF CompleteRc, RowRc
<1>5. t \in PcTicket /\ t.slot \in PcUsed /\ pc \in PcPortal
  BY <1>4, PcTypes, PcTicketSlot DEF pc_find, PcUsed, PcTickets
<1>6. i = t.slot
  BY <1>2, <1>3, <1>5 DEF PcInv, PcOneResult, PcAccounted
<1>7. FfaTicketOf(i) = t
  BY <1>4, <1>5, <1>6 DEF FfaTicketOf, PcTicket, pc_find
<1>8. pc'.rows[i].result.status = status
  <2>1. i \in PcSlot /\ pc.rows[i] \in PcRow
    BY <1>2, PcTypes DEF PcUsed
  <2> DEFINE n == pc_ready(pc.rows[t.slot], CompleteOutcome(pc.rows[t.slot]), TRUE, status)
  <2>2. pc' = [pc EXCEPT !.rows = [pc.rows EXCEPT ![t.slot] = n]]
    BY <1>3, <1>5 DEF PcComplete, tm_pc_complete, SetRow, PcResult, PcPortal
  <2>3. n.result.status = status
    BY <1>6, <2>1 DEF pc_ready, PcRow
  <2> HIDE DEF n
  <2>4. pc'.rows[i] = n
    BY <1>5, <1>6, <2>1, <2>2 DEF PcPortal
  <2>5. QED
    BY <2>3, <2>4
<1>9. QED
  BY <1>2, <1>3, <1>7, <1>8

LEMMA FfaCompleteStep ==
  ASSUME FfaInv, NEW w \in FfaWorker, FfaComplete(w)
  PROVE  FfaInv'
<1> DEFINE run == ffaRun[w]
           ok  == CompleteRc(pc, run.ticket) = "OK"
           at  == IF ~ok /\ run.op = "mjpeg" THEN "rollback" ELSE "wake"
           st  == IF ok THEN run.status ELSE "ESTATE"
<1>1. /\ ffa \in FfaDecoder /\ ffaRun \in [FfaWorker -> FfaRunType] /\ FfInv /\ PcInv
      /\ run \in FfaRunType /\ FfaRunOK(run) /\ FfaTypeOK
  BY FfaTypes
<1>2. /\ run.at = "complete" /\ PcComplete(run.ticket, FfaCode(run.status))
      /\ UNCHANGED <<ff, ffCalls, ffHeld, ffa, ffaAdmitted, ffaAccepted, ffaDelivered>>
  BY DEF FfaComplete
<1>3. RunMoved(w, at, st)
  <2>1. CASE ok
    BY <1>1, <2>1, GotoMoves DEF FfaComplete, FfaPhase
  <2>2. CASE ~ok
    <3>1. GotoWith(w, at, "ESTATE") /\ at \in FfaPhase
      BY <2>2 DEF FfaComplete, FfaPhase
    <3>2. QED
      BY <1>1, <2>2, <3>1, GotoWithMoves
  <2>3. QED
    BY <2>1, <2>2
<1>4. /\ run.ticket \in PcTickets /\ run.ticket \in ffaAdmitted
      /\ \A i \in FfaReportedRows : FfaTicketOf(i) # run.ticket
      /\ run.status = "OK" => FfaPromised(run.ticket)
  BY <1>1, <1>2 DEF FfaRunOK
<1>5. run.status \in {"OK", "ESTATE", "ECODEC", "EOF"} /\ FfaCode(run.status) \in PcStatus
  BY <1>1, FfaCodeIs, FfaConstants DEF FfaRunType
<1>6. [PcNext]_pcVars
  BY <1>2, <1>4, <1>5 DEF PcNext
<1>7. PcInv' /\ PcTickets \subseteq PcTickets'
  BY <1>1, <1>6, PcStep, TicketsKept
<1>8. ASSUME NEW i \in FfaReportedRows'
      PROVE  \/ /\ i \in FfaReportedRows /\ FfaTicketOf(i)' = FfaTicketOf(i)
                /\ pc'.rows[i].result = pc.rows[i].result
             \/ /\ ok /\ FfaTicketOf(i)' = run.ticket
                /\ pc'.rows[i].result.status = FfaCode(run.status)
  BY <1>1, <1>2, <1>4, <1>5, <1>8, OneReport
<1>9. \A t : FfaPromised(t)' <=> FfaPromised(t)
  BY <1>2 DEF FfaPromised
<1>10. FfaPromise'
  <2>1. SUFFICES ASSUME NEW i \in FfaReportedRows', pc'.rows[i].result.status = FfaCode("OK")
                 PROVE  FfaPromised(FfaTicketOf(i)')
    BY <1>9 DEF FfaPromise
  <2>2. CASE /\ i \in FfaReportedRows /\ FfaTicketOf(i)' = FfaTicketOf(i)
             /\ pc'.rows[i].result = pc.rows[i].result
    BY <2>1, <2>2 DEF FfaInv, FfaPromise
  <2>3. CASE /\ FfaTicketOf(i)' = run.ticket /\ pc'.rows[i].result.status = FfaCode(run.status)
    <3>1. run.status = "OK"
      BY <1>5, <2>1, <2>3, FfaCodeOK
    <3>2. QED
      BY <1>4, <2>3, <3>1
  <2>4. QED
    BY <1>8, <2>2, <2>3
<1>11. FfaReportsAdmitted'
  BY <1>2, <1>4, <1>8 DEF FfaInv, FfaReportsAdmitted
<1>12. FfaRunOK(ffaRun[w])'
  <2>1. ~ok => \A i \in FfaReportedRows' : FfaTicketOf(i)' # run.ticket
    BY <1>4, <1>8
  <2>2. at = "rollback" => ~ok
    OBVIOUS
  <2>3. at \in {"rollback", "wake"}
    OBVIOUS
  <2> HIDE DEF ok, at, st
  <2>4. QED
    BY <1>2, <1>3, <1>4, <1>7, <2>1, <2>2, <2>3 DEF FfaRunOK, RunMoved
<1>13. FfaOneUser' /\ \A v \in FfaWorker : FfaRunOK(ffaRun[v])'
  <2>1. FfaSameGate(ffa, ffa')
    BY <1>2 DEF FfaSameGate
  <2> HIDE DEF ok, at, st
  <2>2. QED
    BY <1>2, <1>3, <1>12, <2>1, WorkerStep
<1>14. FfaExactPicture' /\ FfaSlotHeld' /\ FfaTypeOK'
  BY <1>2, <1>3 DEF FfaInv, FfaExactPicture, FfaSlotHeld, FfaTypeOK, RunMoved
<1>15. FfInv'
  BY <1>1, <1>2, SameSource
<1>16. QED
  BY <1>7, <1>10, <1>11, <1>13, <1>14, <1>15 DEF FfaInv

LEMMA FfaInitInv == FfaInit => FfaInv
<1>1. SUFFICES ASSUME FfaInit PROVE FfaInv
  OBVIOUS
<1>2. /\ FfInit /\ pc = tm_pc_create(1) /\ pcCancelled = {} /\ pcObserved = {} /\ pcSettled = {}
      /\ ffa = tm_ffa_create /\ ffaRun = [w \in FfaWorker |-> FfaOut]
      /\ ffaAdmitted = {} /\ ffaDelivered = {}
  BY <1>1 DEF FfaInit, PcInit
<1>3. FfInv
  BY <1>2, FfInitInv
<1>4. PcInv
  <2>1. PcFresh
    BY <1>2, CreatePortal DEF PcFresh
  <2>2. QED
    BY <2>1, FreshPcInv
<1>5. FfaReportedRows = {}
  BY <1>2 DEF FfaReportedRows, PcHasResult, tm_pc_create, PcEmptyRow
<1>6. ffa \in FfaDecoder /\ ffa.state = "EMPTY" /\ ~ffa.armed /\ ffa.delivered = 0
      /\ ffa.decoded = 0 /\ ffa.discarded = 0
  BY <1>2 DEF tm_ffa_create, FfaDecoder, FfaAnyTicket
<1>7. ffaRun \in [FfaWorker -> FfaRunType] /\ \A w \in FfaWorker : ffaRun[w].at = "out"
  BY <1>2 DEF FfaOut, FfaRunType, FfaPhase, FfaAnyTicket
<1>8. IsFiniteSet(ffaDelivered) /\ Cardinality(ffaDelivered) = 0
  BY <1>2, FS_EmptySet
<1>9. FfaTypeOK
  BY <1>2, <1>6, <1>7, <1>8 DEF FfaTypeOK
<1>10. FfaExactPicture
  BY <1>6, <1>8 DEF FfaExactPicture
<1>11. FfaOneUser /\ FfaSlotHeld /\ FfaPromise /\ FfaReportsAdmitted
  BY <1>5, <1>6, <1>7 DEF FfaOneUser, FfaInside, FfaSlotHeld, FfaPromise, FfaReportsAdmitted
<1>12. \A w \in FfaWorker : FfaRunOK(ffaRun[w])
  BY <1>7 DEF FfaRunOK
<1>13. QED
  BY <1>3, <1>4, <1>9, <1>10, <1>11, <1>12 DEF FfaInv

(* The decoder's invariant: what the owner relies on (FfaDecodes) needs to  *)
(* say of every run what it has done at each of its steps, whose bytes the  *)
(* three buffers hold, and that a ticket reports once.                      *)
THEOREM FfaInvariant == FfaSpec => []FfaInv
<1>1. FfaInv /\ [FfaNext]_ffaVars => FfaInv'
  <2>1. SUFFICES ASSUME FfaInv, [FfaNext]_ffaVars PROVE FfaInv'
    OBVIOUS
  <2>2. ASSUME NEW w \in FfaWorker, NEW op \in {"mjpeg", "eof"}, NEW t \in PcTickets,
               FfaEnter(w, op, t)
        PROVE  FfaInv'
    BY <2>1, <2>2, FfaEnterStep
  <2>3. ASSUME NEW w \in FfaWorker, FfaStep(w) PROVE FfaInv'
    BY <2>1, <2>3, FfaAdmitStep, FfaSubmitStep, FfaDecodeStep, FfaPublishStep, FfaCompleteStep,
       FfaRollbackStep, FfaWakeStep, FfaReleaseStep DEF FfaStep
  <2>4. ASSUME NEW t \in PcTickets, FfaOwnerAccept(t) PROVE FfaInv'
    BY <2>1, <2>4, FfaAcceptStep
  <2>5. CASE FfaOwnerNextLuma
    BY <2>1, <2>5, FfaNextLumaStep
  <2>6. CASE FfaOwnerCancel
    BY <2>1, <2>6, FfaCancelStep
  <2>7. CASE FfaDestroy
    BY <2>1, <2>7, FfaDestroyStep
  <2>8. CASE FfaHost
    BY <2>1, <2>8, FfaHostStep
  <2>9. CASE UNCHANGED ffaVars
    BY <2>1, <2>9, PortalStep DEF ffaVars, pcVars
  <2>10. QED
    BY <2>1, <2>2, <2>3, <2>4, <2>5, <2>6, <2>7, <2>8, <2>9 DEF FfaNext
<1>2. QED
  BY <1>1, FfaInitInv, PTL DEF FfaSpec

(* The asynchronous decoder as its owner sees it, for any number of worker  *)
(* threads and any capacity of the portal.                                  *)
THEOREM FfaDecodesCorrect == FfaSpec => []FfaDecodes
<1>1. FfaInv => FfaDecodes
  BY DEF FfaInv, FfInv, FfaDecodes
<1>2. QED
  BY <1>1, FfaInvariant, PTL
=============================================================================
