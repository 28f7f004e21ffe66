---------------------------- MODULE FfmpegSource ----------------------------
(***************************************************************************)
(* The synchronous MJPEG source of StreamGraph v2                           *)
(* (adapters/ffmpeg/src/turbo_streamgraph_ffmpeg.c): one compressed packet  *)
(* at a time is submitted, the executor's source callback sends it to       *)
(* libavcodec and copies the picture out, and after tm_ff_finish the codec  *)
(* is flushed and drained.                                                  *)
(*                                                                          *)
(* libavcodec is outside the repository.  A send is accepted or fails, and  *)
(* a receive yields a picture, a picture of another shape, EAGAIN, EOF or   *)
(* an error; it yields at most one picture for each packet it was sent.     *)
(***************************************************************************)
EXTENDS Naturals, Sequences

CONSTANT
  FfMaxPackets  \* bound: packets submitted

ASSUME FfConstants == FfMaxPackets \in Nat \ {0}

VARIABLES
  ff,           \* the source
  ffCalls,      \* history: what was sent to libavcodec, "packet" or "flush"
  ffHeld        \* external: pictures libavcodec still owes

ffVars == <<ff, ffCalls, ffHeld>>

-----------------------------------------------------------------------------
FfSource ==
  [pending : BOOLEAN, finishing : BOOLEAN, flushed : BOOLEAN, cancelled : BOOLEAN,
   eof : BOOLEAN, last_error : BOOLEAN, packets_submitted : Nat, frames_decoded : Nat]

tm_ff_create ==
  [pending |-> FALSE, finishing |-> FALSE, flushed |-> FALSE, cancelled |-> FALSE,
   eof |-> FALSE, last_error |-> FALSE, packets_submitted |-> 0, frames_decoded |-> 0]

FfResult(rc, s) == [rc |-> rc, s |-> s]

(* `fits`: whether the packet is within max_packet_bytes. *)
FfSubmitRc(s, fits) ==
  IF s.cancelled \/ s.finishing \/ s.eof \/ s.last_error THEN "ESTATE"
  ELSE IF ~fits \/ s.pending THEN "EFULL"
  ELSE "OK"

tm_ff_submit_mjpeg(s, fits) ==
  IF FfSubmitRc(s, fits) = "OK"
  THEN FfResult("OK", [s EXCEPT !.pending = TRUE, !.packets_submitted = @ + 1])
  ELSE FfResult(FfSubmitRc(s, fits), s)

tm_ff_finish(s) ==
  IF s.cancelled \/ s.last_error
  THEN FfResult("ESTATE", s)
  ELSE FfResult("OK", [s EXCEPT !.finishing = TRUE])

tm_ff_cancel(s) == [s EXCEPT !.cancelled = TRUE, !.pending = FALSE, !.eof = TRUE]

(* What tm_ff_next_cpu_luma does before it calls libavcodec: return, send   *)
(* the pending packet, flush, or go straight to the receive.                *)
FfNextStep(s, fits) ==
  IF s.cancelled \/ s.eof THEN "EOS"
  ELSE IF s.last_error \/ ~fits THEN "FAILED"
  ELSE IF s.pending THEN "packet"
  ELSE IF s.finishing /\ ~s.flushed THEN "flush"
  ELSE IF s.finishing THEN "receive"
  ELSE "FAILED"

(* The source after a send that libavcodec accepted. *)
FfAccepted(s, step) ==
  [s EXCEPT !.pending = IF step = "packet" THEN FALSE ELSE @,
            !.flushed = IF step = "flush" THEN TRUE ELSE @]

(* The end of tm_ff_next_cpu_luma, from avcodec_receive_frame on. *)
FfReceived(s, receive) ==
  IF receive = "EOF" \/ (receive = "EAGAIN" /\ s.flushed)
  THEN FfResult("EOS", [s EXCEPT !.eof = TRUE])
  ELSE IF receive = "picture"
  THEN FfResult("FRAME", [s EXCEPT !.frames_decoded = @ + 1])
  ELSE FfResult("FAILED", [s EXCEPT !.last_error = TRUE])

(* `fits`: whether the caller's buffer holds a picture. *)
tm_ff_next_cpu_luma(s, fits, send, receive) ==
  LET step == FfNextStep(s, fits)
  IN  IF step \in {"EOS", "FAILED"} THEN FfResult(step, s)
      ELSE IF step # "receive" /\ send = "error"
      THEN FfResult("FAILED", [s EXCEPT !.last_error = TRUE])
      ELSE FfReceived(FfAccepted(s, step), receive)

(* What libavcodec may answer: a picture of either kind only if it owes one *)
(* once the send is done.                                                   *)
FfCodecAnswers(held, step) ==
  {a \in {"ok", "error"} \X {"picture", "misfit", "EAGAIN", "EOF", "error"} :
     a[2] \in {"picture", "misfit"} => held + (IF step = "packet" THEN 1 ELSE 0) > 0}

-----------------------------------------------------------------------------
FfInit ==
  /\ ff = tm_ff_create
  /\ ffCalls = <<>>
  /\ ffHeld = 0

FfSubmit(fits) ==
  /\ ff.packets_submitted < FfMaxPackets
  /\ ff' = tm_ff_submit_mjpeg(ff, fits).s
  /\ UNCHANGED <<ffCalls, ffHeld>>

FfFinish ==
  /\ ff' = tm_ff_finish(ff).s
  /\ UNCHANGED <<ffCalls, ffHeld>>

FfCancel ==
  /\ ff' = tm_ff_cancel(ff)
  /\ UNCHANGED <<ffCalls, ffHeld>>

(* tm_ff_next_cpu_luma with the codec's answers a[1] and a[2]. *)
FfCall(fits, a) ==
  LET step   == FfNextStep(ff, fits)
      sent   == step \in {"packet", "flush"}
      owed   == ffHeld + (IF step = "packet" THEN 1 ELSE 0)
      silent == step \in {"EOS", "FAILED"} \/ (sent /\ a[1] = "error")
  IN  /\ ff' = tm_ff_next_cpu_luma(ff, fits, a[1], a[2]).s
      /\ ffCalls' = IF sent THEN Append(ffCalls, step) ELSE ffCalls
      /\ ffHeld' = IF silent THEN ffHeld
                   ELSE owed - (IF a[2] \in {"picture", "misfit"} THEN 1 ELSE 0)

FfNextLuma(fits) ==
  \E a \in FfCodecAnswers(ffHeld, FfNextStep(ff, fits)) : FfCall(fits, a)

FfNext ==
  \/ \E fits \in BOOLEAN : FfSubmit(fits) \/ FfNextLuma(fits)
  \/ FfFinish
  \/ FfCancel

FfSpec == FfInit /\ [][FfNext]_ffVars

-----------------------------------------------------------------------------
(* Properties *)

(* libavcodec is sent every submitted packet once, in order and before the  *)
(* flush, and is flushed at most once, however often tm_ff_finish is called *)
(* and whatever waits then; the end of the stream leaves no packet behind.  *)
FfCodecProtocol ==
  LET n == Len(ffCalls)
  IN  /\ \A i \in 1 .. n - 1 : ffCalls[i] = "packet"
      /\ ~ff.cancelled /\ ~ff.last_error
           => n = (ff.packets_submitted - (IF ff.pending THEN 1 ELSE 0))
                    + (IF ff.flushed THEN 1 ELSE 0)
      /\ ff.eof => ~ff.pending

FfTypeOK ==
  /\ ff \in FfSource
  /\ ffCalls \in Seq({"packet", "flush"})
  /\ ffHeld \in Nat

(* The inductive invariant of the proofs: nothing waits behind the flush,   *)
(* and a flush that was sent was accepted or is the source's last error.    *)
FfInv ==
  /\ FfTypeOK
  /\ FfCodecProtocol
  /\ ff.flushed => ff.finishing /\ ~ff.pending
  /\ \A i \in 1 .. Len(ffCalls) : ffCalls[i] = "flush" => ff.flushed \/ ff.last_error
=============================================================================
