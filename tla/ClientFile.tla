----------------------------- MODULE ClientFile -----------------------------
(***************************************************************************)
(* The conversion of a file by the client's processing                      *)
(* (client_processing/ffmpeg/client_processing_ffmpeg.c): packets are read,  *)
(* decoded, scaled and given a time stamp, encoded and written.  The nested  *)
(* loops of the code are steps here: cf.pc says which call comes next, and   *)
(* cf.back and cf.eback where a loop that empties a codec was entered from.  *)
(*                                                                          *)
(* The codecs of libavcodec are external.  Each holds items back as it likes *)
(* until it is told that the input has ended, may refuse input while it      *)
(* holds something, which it then gives, and may fail at any call.           *)
(***************************************************************************)
EXTENDS Integers, Sequences, FiniteSets, SequencesExt

CONSTANTS
  CfStamps,    \* time stamps that frames come with, CfNoPts included
  CfNoPts,     \* AV_NOPTS_VALUE
  CfPackets,   \* bound: video packets of the input
  CfTicks,     \* ticks of the input's time base in one of the encoder's
  CfMuxTicks   \* ticks of the output's time base in one of the encoder's

ASSUME CfConstants == {CfTicks, CfMuxTicks} \subseteq Nat \ {0} /\ CfPackets \in Nat

VARIABLES
  cf,     \* [pc, packet, back, frame, eback, next_pts]
  cfDec,  \* the decoder, [held, ended]
  cfEnc,  \* the encoder
  cfRead, \* the time stamps of the video packets that were read, in order
  cfOut   \* the packets of the output, in order

cfVars == <<cf, cfDec, cfEnc, cfRead, cfOut>>

CfNull == [n |-> 0, ts |-> 0]

-----------------------------------------------------------------------------
(* libavcodec *)

CfCodec == [held |-> <<>>, ended |-> FALSE]

CfRefuses(c) == IF c.held = <<>> \/ c.ended THEN {FALSE} ELSE BOOLEAN

CfSent(c, item) == IF item.n = 0 THEN [c EXCEPT !.ended = TRUE] ELSE [c EXCEPT !.held = Append(@, item)]

(* Whether avcodec_receive_frame or avcodec_receive_packet has something:   *)
(* all that is held once input was refused or has ended.  Otherwise it says *)
(* EAGAIN or, at the end, EOF.                                              *)
CfGives(c, refused) ==
  IF c.held = <<>> THEN {FALSE} ELSE IF refused \/ c.ended THEN {TRUE} ELSE BOOLEAN

CfTaken(c) == [c EXCEPT !.held = Tail(@)]

(* av_rescale_q: to the nearest tick *)
CfRescale(ts) == (2 * ts + CfTicks) \div (2 * CfTicks)

-----------------------------------------------------------------------------
(* The loops *)

CfFail == cf' = [cf EXCEPT !.pc = "FAILED"] /\ UNCHANGED <<cfDec, cfEnc, cfRead, cfOut>>

(* av_read_frame; a packet of another stream is dropped. *)
CfReadPacket(ts) ==
  /\ cf.pc = "read" /\ Len(cfRead) < CfPackets
  /\ cfRead' = Append(cfRead, ts)
  /\ cf' = [cf EXCEPT !.pc = "send", !.packet = [n |-> Len(cfRead) + 1, ts |-> ts]]
  /\ UNCHANGED <<cfDec, cfEnc, cfOut>>

CfReadEnd ==
  /\ cf.pc = "read"
  /\ cf' = [cf EXCEPT !.pc = "send", !.packet = CfNull]
  /\ UNCHANGED <<cfDec, cfEnc, cfRead, cfOut>>

(* Mutant: a packet that the decoder has refused is not sent again. *)
send_input_packet_once ==
  /\ cf.pc = "send"
  /\ \E refused \in CfRefuses(cfDec) :
       IF refused THEN UNCHANGED cfDec ELSE cfDec' = CfSent(cfDec, cf.packet)
  /\ cf' = [cf EXCEPT !.pc = "receive", !.back = "sent"]
  /\ UNCHANGED <<cfEnc, cfRead, cfOut>>

(* A refused packet is sent again once the decoder has been emptied. *)
send_input_packet ==
  /\ cf.pc = "send"
  /\ \/ /\ TRUE \in CfRefuses(cfDec)
        /\ cf' = [cf EXCEPT !.pc = "receive", !.back = "send"]
        /\ UNCHANGED cfDec
     \/ /\ FALSE \in CfRefuses(cfDec)
        /\ cf' = [cf EXCEPT !.pc = "receive", !.back = "sent"]
        /\ cfDec' = CfSent(cfDec, cf.packet)
  /\ UNCHANGED <<cfEnc, cfRead, cfOut>>

(* A time stamp never repeats and never goes back. *)
CfPts(ts) ==
  IF ts = CfNoPts \/ CfRescale(ts) < cf.next_pts THEN cf.next_pts ELSE CfRescale(ts)

(* receive_decoded, and transform_frame up to the encoding *)
receive_decoded ==
  /\ cf.pc = "receive"
  /\ \/ LET d == Head(cfDec.held)
            pts == CfPts(d.ts)
        IN  /\ TRUE \in CfGives(cfDec, cf.back = "send")
            /\ cfDec' = CfTaken(cfDec)
            /\ cf' = [cf EXCEPT !.pc = "encode", !.frame = [n |-> d.n, ts |-> pts], !.next_pts = pts + 1]
     \/ /\ FALSE \in CfGives(cfDec, cf.back = "send")
        /\ cf' = IF cf.back = "send" THEN [cf EXCEPT !.pc = "send"]
                 ELSE IF cf.packet = CfNull THEN [cf EXCEPT !.pc = "encode", !.frame = CfNull]
                 ELSE [cf EXCEPT !.pc = "read"]
        /\ UNCHANGED cfDec
  /\ UNCHANGED <<cfEnc, cfRead, cfOut>>

encode_frame ==
  /\ cf.pc = "encode"
  /\ \/ /\ TRUE \in CfRefuses(cfEnc)
        /\ cf' = [cf EXCEPT !.pc = "write", !.eback = "encode"]
        /\ UNCHANGED cfEnc
     \/ /\ FALSE \in CfRefuses(cfEnc)
        /\ cf' = [cf EXCEPT !.pc = "write", !.eback = "encoded"]
        /\ cfEnc' = CfSent(cfEnc, cf.frame)
  /\ UNCHANGED <<cfDec, cfRead, cfOut>>

write_encoded_packets ==
  /\ cf.pc = "write"
  /\ \/ /\ TRUE \in CfGives(cfEnc, cf.eback = "encode")
        /\ cfOut' = Append(cfOut, [Head(cfEnc.held) EXCEPT !.ts = @ * CfMuxTicks])
        /\ cfEnc' = CfTaken(cfEnc)
        /\ UNCHANGED cf
     \/ /\ FALSE \in CfGives(cfEnc, cf.eback = "encode")
        /\ cf' = [cf EXCEPT !.pc = IF cf.eback = "encode" THEN "encode"
                                   ELSE IF cf.frame = CfNull THEN "trailer" ELSE "receive"]
        /\ UNCHANGED <<cfEnc, cfOut>>
  /\ UNCHANGED <<cfDec, cfRead>>

CfTrailer ==
  /\ cf.pc = "trailer"
  /\ cf' = [cf EXCEPT !.pc = "STOPPED"]
  /\ UNCHANGED <<cfDec, cfEnc, cfRead, cfOut>>

(* Reading, a codec, the scaler or writing fails. *)
CfError == cf.pc \notin {"STOPPED", "FAILED"} /\ CfFail

-----------------------------------------------------------------------------
CfInit ==
  /\ cf = [pc |-> "read", packet |-> CfNull, back |-> "sent", frame |-> CfNull, eback |-> "encoded",
           next_pts |-> 0]
  /\ cfDec = CfCodec /\ cfEnc = CfCodec
  /\ cfRead = <<>> /\ cfOut = <<>>

CfNext ==
  \/ \E ts \in CfStamps : CfReadPacket(ts)
  \/ CfReadEnd \/ send_input_packet \/ receive_decoded \/ encode_frame \/ write_encoded_packets
  \/ CfTrailer \/ CfError

CfSpec == CfInit /\ [][CfNext]_cfVars

(* The output holds the frames of the input in order, each once, with       *)
(* strictly increasing time stamps, however the codecs hold frames back or  *)
(* refuse them; and every frame is there before the trailer is written.     *)
CfFile ==
  /\ \A i \in 1 .. Len(cfOut) : cfOut[i].n = i
  /\ \A i \in 1 .. Len(cfOut) - 1 : cfOut[i].ts < cfOut[i + 1].ts
  /\ cf.pc \in {"trailer", "STOPPED"} => Len(cfOut) = Len(cfRead)
=============================================================================
