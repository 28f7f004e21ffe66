---------------------------- MODULE FfmpegDelayed ----------------------------
(***************************************************************************)
(* The decoder for codecs that hold pictures back                           *)
(* (adapters/ffmpeg/src/turbo_streamgraph_ffmpeg_delayed.c): packets wait   *)
(* in a ring of copies; tm_ffd_next_luma asks libavcodec for a picture and, *)
(* as long as it has none, sends it the next packet or, at the end, the     *)
(* flush.  One owner makes all the calls, one after the other.              *)
(*                                                                          *)
(* libavcodec is outside the repository: whatever it answers is possible,   *)
(* except that it has no more pictures than packets.  A packet is its       *)
(* number.                                                                  *)
(***************************************************************************)
EXTENDS Integers, Sequences

CONSTANTS
  FfdLimit,       \* config.queue_capacity
  FfdMaxPackets,  \* bound: packets submitted
  FfdPts          \* the timestamps of pictures, numbers above 0

ASSUME FfdConstants ==
  /\ FfdLimit \in Nat \ {0}
  /\ FfdMaxPackets \in Nat \ {0}
  /\ FfdPts \subseteq Nat \ {0}

VARIABLES
  ffd,       \* the decoder
  ffdSteps,  \* the local `steps` of a tm_ffd_next_luma under way, or -1
  ffdSent    \* history: what libavcodec accepted, packets and the flush (0)

ffdVars == <<ffd, ffdSteps, ffdSent>>

-----------------------------------------------------------------------------
(* A slot holds the number of its packet; 0 is bytes = 0.                   *)
FfdDecoder ==
  [alive : BOOLEAN, slots : [0 .. FfdLimit - 1 -> Nat], head : 0 .. FfdLimit - 1,
   tail : 0 .. FfdLimit - 1, queued : 0 .. FfdLimit, finishing : BOOLEAN, flushed : BOOLEAN,
   cancelled : BOOLEAN, eof : BOOLEAN, codec_error : BOOLEAN, last_pts : Nat,
   admitted : Nat, sent : Nat, decoded : Nat]

tm_ffd_create ==
  [alive |-> TRUE, slots |-> [i \in 0 .. FfdLimit - 1 |-> 0], head |-> 0, tail |-> 0,
   queued |-> 0, finishing |-> FALSE, flushed |-> FALSE, cancelled |-> FALSE, eof |-> FALSE,
   codec_error |-> FALSE, last_pts |-> 0, admitted |-> 0, sent |-> 0, decoded |-> 0]

FfdInit ==
  /\ ffd = tm_ffd_create
  /\ ffdSteps = -1
  /\ ffdSent = <<>>

FfdIdle == ffd.alive /\ ffdSteps = -1

FfdEnded == ffd.cancelled \/ ffd.eof \/ ffd.codec_error

FfdRoom == ffd.queued # FfdLimit

(* A packet over the limit, a full ring and an ended decoder change nothing.*)
FfdSubmit ==
  /\ FfdIdle /\ ~FfdEnded /\ ~ffd.finishing /\ FfdRoom
  /\ ffd.admitted < FfdMaxPackets
  /\ ffd' = [ffd EXCEPT !.slots[ffd.tail] = ffd.admitted + 1,
                        !.tail = (@ + 1) % FfdLimit,
                        !.queued = @ + 1, !.admitted = @ + 1]
  /\ UNCHANGED <<ffdSteps, ffdSent>>

FfdFinish ==
  /\ FfdIdle /\ ~FfdEnded /\ ~ffd.finishing
  /\ ffd' = [ffd EXCEPT !.finishing = TRUE]
  /\ UNCHANGED <<ffdSteps, ffdSent>>

FfdCancel ==
  /\ FfdIdle /\ ~ffd.eof /\ ~ffd.cancelled
  /\ ffd' = [ffd EXCEPT !.cancelled = TRUE, !.slots = [i \in DOMAIN @ |-> 0],
                        !.queued = 0, !.head = 0, !.tail = 0]
  /\ UNCHANGED <<ffdSteps, ffdSent>>

FfdNextLuma ==
  /\ FfdIdle /\ ~FfdEnded
  /\ ffdSteps' = 0
  /\ UNCHANGED <<ffd, ffdSent>>

(* for(steps=0u;steps<=d->limit+2u;++steps).  FfdLoopBounded says that the  *)
(* return after the loop is never reached.                                  *)
FfdLooping == ffdSteps # -1 /\ ffdSteps <= FfdLimit + 2

(* A picture that has the wrong shape or goes back in time is an error.     *)
FfdPicture(pts) ==
  /\ FfdLooping
  /\ ffd.decoded < ffd.sent
  /\ ffd' = IF pts > ffd.last_pts
            THEN [ffd EXCEPT !.last_pts = pts, !.decoded = @ + 1]
            ELSE [ffd EXCEPT !.codec_error = TRUE]
  /\ ffdSteps' = -1
  /\ UNCHANGED ffdSent

FfdReceiveEof ==
  /\ FfdLooping
  /\ ffd' = [ffd EXCEPT !.eof = TRUE]
  /\ ffdSteps' = -1
  /\ UNCHANGED ffdSent

FfdReceiveError ==
  /\ FfdLooping
  /\ ffd' = [ffd EXCEPT !.codec_error = TRUE]
  /\ ffdSteps' = -1
  /\ UNCHANGED ffdSent

(* libavcodec wants input.  `send` is its answer to the packet or the flush *)
(* (or the failure of av_new_packet before it).                             *)

(* Mutant: the slot is given up before libavcodec has taken the packet. *)
FfdSendPacket_early(send) ==
  /\ FfdLooping /\ ffd.queued # 0
  /\ ffd' = [ffd EXCEPT !.slots[ffd.head] = 0, !.head = (@ + 1) % FfdLimit,
                        !.queued = @ - 1, !.sent = @ + 1,
                        !.codec_error = (send = "error")]
  /\ IF send = "ok" THEN ffdSent' = Append(ffdSent, ffd.slots[ffd.head]) /\ ffdSteps' = ffdSteps + 1
     ELSE ffdSteps' = -1 /\ UNCHANGED ffdSent

FfdSendPacket(send) ==
  /\ FfdLooping /\ ffd.queued # 0
  /\ \/ /\ send = "ok"
        /\ ffd' = [ffd EXCEPT !.slots[ffd.head] = 0, !.head = (@ + 1) % FfdLimit,
                              !.queued = @ - 1, !.sent = @ + 1]
        /\ ffdSent' = Append(ffdSent, ffd.slots[ffd.head])
        /\ ffdSteps' = ffdSteps + 1
     \/ /\ send \in {"EAGAIN", "error", "ENOMEM"}
        /\ ffd' = [ffd EXCEPT !.codec_error = (send = "error")]
        /\ ffdSteps' = -1
        /\ UNCHANGED ffdSent

FfdSendFlush(send) ==
  /\ FfdLooping /\ ffd.queued = 0 /\ ffd.finishing /\ ~ffd.flushed
  /\ \/ /\ send = "ok"
        /\ ffd' = [ffd EXCEPT !.flushed = TRUE]
        /\ ffdSent' = Append(ffdSent, 0)
        /\ ffdSteps' = ffdSteps + 1
     \/ /\ send \in {"EAGAIN", "error"}
        /\ ffd' = [ffd EXCEPT !.codec_error = (send = "error")]
        /\ ffdSteps' = -1
        /\ UNCHANGED ffdSent

(* Nothing to send: after the flush that is an error of the codec. *)
FfdStarved ==
  /\ FfdLooping /\ ffd.queued = 0 /\ (ffd.finishing => ffd.flushed)
  /\ ffd' = [ffd EXCEPT !.codec_error = ffd.flushed]
  /\ ffdSteps' = -1
  /\ UNCHANGED ffdSent

FfdDestroy ==
  /\ FfdIdle /\ (ffd.cancelled \/ ffd.eof)
  /\ ffd' = [ffd EXCEPT !.alive = FALSE]
  /\ UNCHANGED <<ffdSteps, ffdSent>>

FfdNext ==
  \/ FfdSubmit
  \/ FfdFinish
  \/ FfdCancel
  \/ FfdNextLuma
  \/ \E pts \in FfdPts : FfdPicture(pts)
  \/ FfdReceiveEof
  \/ FfdReceiveError
  \/ \E send \in {"ok", "EAGAIN", "error", "ENOMEM"} : FfdSendPacket(send) \/ FfdSendFlush(send)
  \/ FfdStarved
  \/ FfdDestroy

FfdSpec == FfdInit /\ [][FfdNext]_ffdVars

-----------------------------------------------------------------------------
(* Properties *)

FfdTypeOK ==
  /\ ffd \in FfdDecoder
  /\ ffdSteps \in Nat \union {-1}
  /\ ffdSent \in Seq(Nat)

(* libavcodec gets every packet once, in the order of submission, however   *)
(* often it refused one and wherever the ring wraps, and the flush once and *)
(* after all of them; the packets not sent yet are the ones in the ring.    *)
FfdPacketsOnce ==
  /\ \A i \in 1 .. Len(ffdSent) : ffdSent[i] = IF i <= ffd.sent THEN i ELSE 0
  /\ Len(ffdSent) = ffd.sent + (IF ffd.flushed THEN 1 ELSE 0)
  /\ ~ffd.cancelled =>
       /\ ffd.admitted = ffd.sent + ffd.queued
       /\ \A k \in 0 .. ffd.queued - 1 :
            ffd.slots[(ffd.head + k) % FfdLimit] = ffd.sent + 1 + k

(* The bound of the loop is never what ends it: a call returns because of   *)
(* what libavcodec answered, having sent everything it wanted.              *)
FfdLoopBounded == ffdSteps + ffd.queued + (IF ffd.flushed THEN 0 ELSE 1) <= FfdLimit + 1

(* What the ring of tm_ffd_next_luma promises: packets reach libavcodec     *)
(* once and in order with the flush after them, and every call ends by what *)
(* libavcodec answered and not by the bound of its loop.                    *)
FfdOrderly == FfdPacketsOnce /\ FfdLoopBounded

(* The inductive invariant of the proofs: the indices close the ring, and   *)
(* nothing is queued behind the flush or after a cancellation.              *)
FfdInv ==
  /\ FfdTypeOK
  /\ FfdOrderly
  /\ ffd.tail = (ffd.head + ffd.queued) % FfdLimit
  /\ ffd.flushed => ffd.finishing /\ ffd.queued = 0
  /\ ffd.cancelled => ffd.queued = 0
=============================================================================
