---------------------------- MODULE RtspAdapter ----------------------------
(***************************************************************************)
(* The RTSP front of the media server (server/rtsp_server_adapter.c): the   *)
(* handlers that the RTSP server calls for the requests of a connection.    *)
(* A connection gets a binding with its first ANNOUNCE or DESCRIBE, tracks  *)
(* are set up with their interleaved channels, RECORD opens a publisher     *)
(* session of the runtime and PLAY a player session, whose callback is      *)
(* given the address of the binding.                                        *)
(*                                                                          *)
(* A request says whether its session id is absent ("none"), that of the    *)
(* binding ("own") or another one ("other").                                *)
(***************************************************************************)
EXTENDS ServerRuntime

CONSTANTS
  RaConn,       \* connections of the RTSP server
  RaBinding,    \* TURBO_MEDIA_RTSP_ADAPTER_MAX_SESSIONS of them, as numbers
  RaPath,       \* the paths of URIs
  RaMedia,      \* the track types an SDP may announce, sequences
  RaChannels    \* pairs of RTP and RTCP channels

ASSUME RaConstants ==
  /\ RaBinding \subseteq Nat
  /\ RaChannels \subseteq Nat \X Nat

VARIABLES
  ra,       \* adapter->sessions
  raConfig, \* adapter->config
  raOpen    \* external: the connections that the RTSP server has

raVars == <<sr, srSess, srGot, srLog, ra, raConfig, raOpen>>

RaNone == "none"
RaUnset == <<-1, -1>>

RaFree == [conn |-> RaNone, state |-> "INIT", mode |-> RaNone, presentation_uri |-> <<>>,
           tracks |-> <<>>, channels |-> <<>>]

-----------------------------------------------------------------------------
turbo_media_rtsp_adapter_find_binding(c) == {b \in RaBinding : ra[b].conn = c}

(* The binding of the connection, or the first free one for it; {} if all   *)
(* are taken.                                                               *)
turbo_media_rtsp_adapter_get_binding(c) ==
  LET found == turbo_media_rtsp_adapter_find_binding(c)
      free  == {b \in RaBinding : ra[b].conn = RaNone}
  IN  IF found # {} THEN found ELSE IF free # {} THEN {Min(free)} ELSE {}

(* What get_binding leaves in the binding: a new one notes the URI. *)
RaBound(b, c, path) ==
  IF ra[b].conn = c THEN ra[b] ELSE [RaFree EXCEPT !.conn = c, !.presentation_uri = path]

RaSetUp(e) == {i \in DOMAIN e.channels : e.channels[i] # RaUnset}

RaWithTracks(e, tracks) ==
  [e EXCEPT !.tracks = tracks, !.channels = [i \in DOMAIN tracks |-> RaUnset]]

(* `media` is the sequence of types in the SDP; an unusable SDP is <<>>.    *)
(* A refused ANNOUNCE keeps the binding and the URI of the first request.   *)
on_announce(c, path, media) ==
  /\ c \in raOpen
  /\ \E b \in turbo_media_rtsp_adapter_get_binding(c) :
       LET e == RaBound(b, c, path)
       IN  /\ e.state = "INIT"
           /\ ra' = [ra EXCEPT ![b] =
                IF media = <<>> THEN e
                ELSE [RaWithTracks(e, [i \in DOMAIN media |-> [id |-> i - 1, type |-> media[i]]])
                        EXCEPT !.state = "ANNOUNCED"]]
  /\ UNCHANGED <<sr, srSess, srGot, srLog, raConfig, raOpen>>

(* The tracks of the source are those of the binding from here on. *)
on_describe(c, path) ==
  /\ c \in raOpen
  /\ \E b \in turbo_media_rtsp_adapter_get_binding(c) :
       LET e   == RaBound(b, c, path)
           key == turbo_media_server_rtsp_source_key(path)
       IN  /\ e.state = "INIT"
           /\ ra' = [ra EXCEPT ![b] =
                IF key.rc # "OK" \/ ~SrExists(sr, key.s) THEN e
                ELSE [RaWithTracks(e, SrSource(sr, key.s).tracks)
                        EXCEPT !.presentation_uri = path, !.state = "DESCRIBED"]]
  /\ UNCHANGED <<sr, srSess, srGot, srLog, raConfig, raOpen>>

RaSessionMatches(sid) == sid = "own"

(* The mode of a SETUP that names none. *)
RaSetupMode(e, mode) ==
  IF mode # RaNone THEN mode
  ELSE IF e.mode # RaNone THEN e.mode
  ELSE IF e.state = "ANNOUNCED" THEN "RECORD" ELSE "PLAY"

RaSetupAllowed(e, sid, mode) ==
  /\ RaSetUp(e) # {} \/ sid # "none" => RaSessionMatches(sid)
  /\ mode = "RECORD" => e.state \in {"ANNOUNCED", "SETUP"}
  /\ mode = "PLAY" => e.state \in {"DESCRIBED", "SETUP"}
  /\ e.mode # RaNone => e.mode = mode

(* `named`: the track whose control the URI ends with, or 0. *)
turbo_media_rtsp_adapter_find_setup_track(e, named) ==
  IF named \in DOMAIN e.tracks \ RaSetUp(e) THEN {named}
  ELSE IF Len(e.tracks) = 1 THEN {1} \ RaSetUp(e) ELSE {}

RaChannelsFree(e, i, ch) ==
  /\ ch[1] # ch[2]
  /\ \A j \in RaSetUp(e) \ {i} : Range(e.channels[j]) \intersect Range(ch) = {}

on_setup(c, sid, requested, named, ch) ==
  /\ c \in raOpen
  /\ \E b \in turbo_media_rtsp_adapter_find_binding(c) :
       LET mode == RaSetupMode(ra[b], requested)
       IN  /\ RaSetupAllowed(ra[b], sid, mode)
           /\ \E i \in turbo_media_rtsp_adapter_find_setup_track(ra[b], named) :
                /\ RaChannelsFree(ra[b], i, ch)
                /\ ra' = [ra EXCEPT ![b].channels[i] = ch, ![b].mode = mode, ![b].state = "SETUP"]
  /\ UNCHANGED <<sr, srSess, srGot, srLog, raConfig, raOpen>>

(* The handler answers with the runtime's error and stays in SETUP if the   *)
(* session cannot be opened.                                                *)
on_record(c, sid) ==
  /\ c \in raOpen
  /\ \E b \in turbo_media_rtsp_adapter_find_binding(c) :
       LET key == turbo_media_server_rtsp_source_key(ra[b].presentation_uri)
       IN  /\ RaSessionMatches(sid)
           /\ ra[b].state = "SETUP" /\ ra[b].mode = "RECORD"
           /\ key.rc = "OK"
           /\ SrOpenPublish(b, key.s, ra[b].tracks, raConfig.remove_source_on_close)
           /\ ra' = IF srSess'[b].role = "PUBLISHER" THEN [ra EXCEPT ![b].state = "RECORDING"] ELSE ra
  /\ UNCHANGED <<raConfig, raOpen>>

(* turbo_media_rtsp_adapter_frame_to_rtsp fails only where it sends: for a  *)
(* track that was set up.                                                   *)
RaMayFail(track) ==
  SrRtmp \union {b \in RaBinding : \E i \in RaSetUp(ra[b]) : ra[b].tracks[i].id = track}

on_play(c, sid, fail) ==
  /\ c \in raOpen
  /\ \E b \in turbo_media_rtsp_adapter_find_binding(c) :
       LET key == turbo_media_server_rtsp_source_key(ra[b].presentation_uri)
       IN  /\ RaSessionMatches(sid)
           /\ ra[b].state = "SETUP" /\ ra[b].mode = "PLAY"
           /\ fail # 0 => /\ SrExists(sr, key.s) /\ fail <= SrSource(sr, key.s).gop_count
                          /\ b \in RaMayFail(turbo_media_gop(SrSource(sr, key.s))[fail].track)
           /\ SrOpenPlay(b, key.s, raConfig.replay_cached, fail)
           /\ ra' = IF srSess'[b].role = "PLAYER" THEN [ra EXCEPT ![b].state = "PLAYING"] ELSE ra
  /\ UNCHANGED <<raConfig, raOpen>>

(* Mutant: the binding is given back but its session stays open. *)
turbo_media_rtsp_adapter_close_binding_leaky(b) ==
  /\ ra' = [ra EXCEPT ![b] = RaFree]
  /\ UNCHANGED srVars

turbo_media_rtsp_adapter_close_binding(b) ==
  /\ ra' = [ra EXCEPT ![b] = RaFree]
  /\ IF srSess[b].role = "none" THEN UNCHANGED srVars ELSE SrClose(b)

on_teardown(c, sid) ==
  /\ c \in raOpen
  /\ \E b \in turbo_media_rtsp_adapter_find_binding(c) :
       RaSessionMatches(sid) /\ turbo_media_rtsp_adapter_close_binding(b)
  /\ UNCHANGED <<raConfig, raOpen>>

on_session_close(c) ==
  /\ c \in raOpen
  /\ \/ \E b \in turbo_media_rtsp_adapter_find_binding(c) : turbo_media_rtsp_adapter_close_binding(b)
     \/ turbo_media_rtsp_adapter_find_binding(c) = {} /\ UNCHANGED <<srVars, ra>>
  /\ raOpen' = raOpen \ {c}
  /\ UNCHANGED raConfig

(* The RTSP server accepts a connection in a slot that is free. *)
RaConnect(c) ==
  /\ c \notin raOpen
  /\ raOpen' = raOpen \union {c}
  /\ UNCHANGED <<srVars, ra, raConfig>>

(* A frame on an RTP channel of the publisher; RTCP frames are dropped.  If *)
(* a player's callback fails, the handler fails and the RTSP server will    *)
(* close the connection of the publisher: on_session_close may come next.   *)
on_interleaved(c, channel, failing) ==
  /\ c \in raOpen
  /\ \E b \in turbo_media_rtsp_adapter_find_binding(c) :
       /\ ra[b].state = "RECORDING"
       /\ \E i \in RaSetUp(ra[b]) :
            /\ ra[b].channels[i][1] = channel
            /\ \A j \in RaSetUp(ra[b]) : j < i => channel \notin Range(ra[b].channels[j])
            /\ failing \subseteq RaMayFail(ra[b].tracks[i].id)
            /\ SrPublish(b, ra[b].tracks[i].id, FALSE, failing)
  /\ UNCHANGED <<ra, raConfig, raOpen>>

-----------------------------------------------------------------------------
RaInit ==
  /\ SrInit(SrRtmp \union RaBinding)
  /\ ra = [b \in RaBinding |-> RaFree]
  /\ raConfig \in [remove_source_on_close : BOOLEAN, replay_cached : BOOLEAN]
  /\ raOpen = RaConn

RaRequest(c) ==
  \/ \E path \in RaPath : \/ \E media \in RaMedia : on_announce(c, path, media)
                          \/ on_describe(c, path)
  \/ \E sid \in {"none", "own", "other"} :
       \/ \E mode \in {RaNone, "RECORD", "PLAY"}, named \in 0 .. MsMaxTracks, ch \in RaChannels :
            on_setup(c, sid, mode, named, ch)
       \/ on_record(c, sid)
       \/ \E fail \in 0 .. 1 : on_play(c, sid, fail)
       \/ on_teardown(c, sid)
  \/ \E channel \in UNION {Range(ch) : ch \in RaChannels}, failing \in SUBSET SrPlayers :
       on_interleaved(c, channel, failing)
  \/ on_session_close(c)
  \/ RaConnect(c)

(* The RTMP sessions and the embedding program, beside the connections. *)
RaRtmp(p) ==
  \/ \E stream \in SrStream : SrRtmp_open(p, stream)
  \/ \E f \in SrRtmpFrames : \E failing \in SUBSET (SrPlayers \intersect RaMayFail(f[1])) :
       SrPublish(p, f[1], f[2], failing)
  \/ SrClose(p)

RaHost ==
  \E key \in {turbo_media_server_rtmp_source_key(s) : s \in SrStream} :
    SrRemove(key) \/ SrAddTrack(key, [id |-> -1, type |-> "video"])

RaNext ==
  \/ \E c \in RaConn : RaRequest(c)
  \/ (\E p \in SrRtmp : RaRtmp(p)) /\ UNCHANGED <<ra, raConfig, raOpen>>
  \/ RaHost /\ UNCHANGED <<ra, raConfig, raOpen>>

RaSpec == RaInit /\ [][RaNext]_raVars

-----------------------------------------------------------------------------
(* Properties *)

(* The runtime session of a binding lives exactly while the binding records *)
(* or plays and its connection is open, so that a binding that was given    *)
(* back and taken by another connection is not called back for the old one; *)
(* and two tracks of a binding never share a channel.                       *)
RaBindingsExact ==
  \A b \in RaBinding :
    /\ srSess[b].role = CASE ra[b].state = "RECORDING" -> "PUBLISHER"
                          [] ra[b].state = "PLAYING" -> "PLAYER"
                          [] OTHER -> "none"
    /\ ra[b].conn # RaNone => ra[b].conn \in raOpen
    /\ \A d \in RaBinding : ra[d].conn = ra[b].conn /\ ra[b].conn # RaNone => d = b
    /\ \A i, j \in RaSetUp(ra[b]) :
         i # j => Range(ra[b].channels[i]) \intersect Range(ra[b].channels[j]) = {}
=============================================================================
