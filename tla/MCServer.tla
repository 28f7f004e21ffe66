------------------------------ MODULE MCServer ------------------------------
(***************************************************************************)
(* The media server and the room service: in one part of the state space    *)
(* two RTMP sessions and the embedding program use the runtime, in another  *)
(* two RTSP connections go through the adapter, and in the others there is  *)
(* a conference or a call in the rooms of the room service.                 *)
(***************************************************************************)
EXTENDS RtspAdapter, RoomService

CONSTANTS customer, supervisor, c1, c2,   \* participants; c1 and c2 are agents
  audio, screen                           \* tracks

VARIABLE part

MCRole == (customer :> "customer") @@ (supervisor :> "supervisor") @@ (c1 :> "agent") @@ (c2 :> "agent")
MCKind == (audio :> "audio") @@ (screen :> "screen")

MCStream == {<<"s">>}

(* Two spellings of one key. *)
MCPath == {<<"s">>, <<"live", "s">>}

MCMedia == {<<>>, <<"video", "audio">>}

MCChannels == {<<0, 1>>, <<1, 2>>}

(* Bound: frames of one source where the adapter is explored. *)
MCRtspFrames == 1

MCSymmetry == Permutations(RaConn)

MCInit ==
  /\ RaInit
  /\ rs = room_service_create /\ rsMode = RsNothing
  /\ part \in {"runtime", "rtsp", "room", "call"}
  /\ part # "rtsp" => ~raConfig.remove_source_on_close /\ ~raConfig.replay_cached

MCRuntime ==
  /\ part = "runtime"
  /\ (\E p \in SrRtmp : RaRtmp(p)) \/ RaHost
  /\ UNCHANGED <<ra, raConfig, raOpen>>

MCRtsp ==
  /\ part = "rtsp"
  /\ \E c \in RaConn : RaRequest(c)
  /\ \A k \in SrKeys' : SrSource(sr', k).frames_published <= MCRtspFrames

MCRooms ==
  \E room \in RsRooms :
    \/ part = "room" /\ RsConference(room, {customer, supervisor}, {screen})
    \/ part = "call" /\ RsCalls(room, {customer, c1, c2, supervisor}, {audio}, {"available"},
                                {<<"wrap_up", "wrap_up">>, <<"completed", "available">>})

MCNext ==
  /\ UNCHANGED part
  /\ \/ (MCRuntime \/ MCRtsp) /\ UNCHANGED rsVars
     \/ MCRooms /\ UNCHANGED raVars

MCSpec == MCInit /\ [][MCNext]_<<raVars, rsVars, part>>
=============================================================================
