----------------------------- MODULE SfuServer -----------------------------
(***************************************************************************)
(* The SFU node application (webrtc/apps/sfu_node/src): the peer            *)
(* connections of one room, the tracks they publish, the subscriptions the  *)
(* room service wants, the relay tracks that carry a track to a receiver,   *)
(* and the recording of the room.  The HTTP server runs one handler at a    *)
(* time; a command that touches a peer connection is carried out by the     *)
(* worker thread while the handler waits, so a handler is one step.  Of the *)
(* node (SfuNode) the model keeps the tables the application relies on.     *)
(***************************************************************************)
EXTENDS Naturals, FiniteSets, Functions

CONSTANTS AsParticipants,
  AsSsrcs,          \* SSRCs an offer may bring
  AsMaxVersion      \* bound on the version of a media resource

VARIABLE as
  \* room      is it attached?      draining
  \* node      sessions and tracks of the node: participants and their tracks
  \* sessions  participant -> peer connection      published  track metadata
  \* desired   <<receiver, track>> -> enabled      recording

AsNothing == [k \in {} |-> 0]
AsPut(fun, k, v) == [x \in DOMAIN fun \union {k} |-> IF x = k THEN v ELSE fun[x]]
AsDrop(fun, keys) == Restrict(fun, DOMAIN fun \ keys)

(* The track a participant's offer brings has the name of its owner *)
AsOwner(t) == t

app_server_create ==
  [room |-> FALSE, draining |-> FALSE, node |-> [sessions |-> AsNothing, tracks |-> {}],
   sessions |-> AsNothing, published |-> AsNothing, desired |-> AsNothing, recording |-> "none"]

----------------------------------------------------------------------------
(* Relay tracks *)

(* A relay that is there is bound to the source the track has now. *)
ensure_session_relay_track(session, s, t) ==
  IF t \in DOMAIN s.published THEN [session EXCEPT !.relays = AsPut(@, t, s.published[t])] ELSE session

AsWanted(s, p) == {t \in DOMAIN s.published : <<p, t>> \in DOMAIN s.desired /\ s.desired[<<p, t>>]}

sync_session_relay_tracks(s, p) ==
  IF p \notin DOMAIN s.sessions THEN s
  ELSE [s EXCEPT !.sessions[p].relays =
          [t \in DOMAIN @ \union AsWanted(s, p) |-> IF t \in AsWanted(s, p) THEN s.published[t] ELSE @[t]]]

sync_track_to_subscribers(s, t) ==
  [s EXCEPT !.sessions = [p \in DOMAIN @ |->
     IF t \in AsWanted(s, p) THEN ensure_session_relay_track(@[p], s, t) ELSE @[p]]]

register_published_track_metadata(s, t, ssrc) ==
  sync_track_to_subscribers([s EXCEPT !.published = AsPut(@, t, ssrc)], t)

unregister_published_track_metadata(s, tracks) == [s EXCEPT !.published = AsDrop(@, tracks)]

clear_room_runtime(s) == [s EXCEPT !.published = AsNothing, !.desired = AsNothing, !.recording = "none"]

----------------------------------------------------------------------------
(* Peer connections *)

(* The node keeps a track whose participant it has lost. *)
destroy_webrtc_session(s, p) ==
  LET session == s.sessions[p]
      held == IF p \in DOMAIN s.node.sessions THEN session.auto ELSE {}
      gone == [unregister_published_track_metadata(s, session.auto) EXCEPT
                 !.node.tracks = @ \ held, !.sessions = AsDrop(@, {p})]
  IN  IF session.owns THEN [gone EXCEPT !.node.sessions = AsDrop(@, {p})] ELSE gone

(* A second connection of a participant is refused; taking it apart takes    *)
(* the node's callbacks from the first.                                      *)
create_webrtc_session(s, p, owns) ==
  IF ~s.room \/ p \notin DOMAIN s.node.sessions THEN s
  ELSE IF p \in DOMAIN s.sessions THEN [s EXCEPT !.sessions[p].callbacks = FALSE]
  ELSE sync_session_relay_tracks(
         [s EXCEPT !.sessions = AsPut(@, p, [owns |-> owns, relays |-> AsNothing, auto |-> {},
                                             callbacks |-> TRUE,
                                             failed |-> FALSE, version |-> 1])], p)

(* A participant the node has already is refused. *)
create_owned_media_session(s, p) ==
  IF ~s.room \/ p \in DOMAIN s.node.sessions THEN s
  ELSE create_webrtc_session([s EXCEPT !.node.sessions = AsPut(@, p, TRUE)], p, TRUE)

remove_webrtc_session(s, p) == IF p \in DOMAIN s.sessions THEN destroy_webrtc_session(s, p) ELSE s

disconnect_media_participant(s, p) ==
  IF p \in DOMAIN s.sessions /\ s.sessions[p].owns THEN destroy_webrtc_session(s, p) ELSE s

(* The track of an offer is registered with the node and here.  When the    *)
(* node refuses it because it has one of that name, that one is taken away. *)
on_session_track(s, p, ssrc) ==
  IF p \in s.node.tracks
  THEN [s EXCEPT !.sessions[p].failed = TRUE, !.node.tracks = @ \ {p}]
  ELSE LET named == [s EXCEPT !.node.tracks = @ \union {p}, !.sessions[p].auto = @ \union {p}]
       IN  register_published_track_metadata(named, p, ssrc)

set_remote_offer(s, p, ssrcs, valid) ==
  IF p \notin DOMAIN s.sessions \/ ~valid THEN [ok |-> FALSE, s |-> s]
  ELSE LET t == IF ssrcs = {} \/ s.sessions[p].auto # {} THEN s ELSE on_session_track(s, p, CHOOSE x \in ssrcs : TRUE)
       IN  IF t.sessions[p].failed THEN [ok |-> FALSE, s |-> t]
           ELSE [ok |-> TRUE, s |-> sync_session_relay_tracks(t, p)]

(* An ICE restart makes a new version of the resource. *)
apply_remote_ice_sdpfrag(s, p, expected, restart) ==
  IF p \notin DOMAIN s.sessions THEN s
  ELSE IF s.sessions[p].version # expected \/ ~restart THEN s
  ELSE [s EXCEPT !.sessions[p].version = @ + 1]

apply_desired_subscriptions_for_participant(s, p) == sync_session_relay_tracks(s, p)

apply_track_subscription(s, p, t, enabled) ==
  apply_desired_subscriptions_for_participant([s EXCEPT !.desired = AsPut(@, <<p, t>>, enabled)], p)

start_recording(s) ==
  IF ~s.room \/ s.published = AsNothing \/ s.recording = "active" THEN s ELSE [s EXCEPT !.recording = "active"]
stop_recording(s) == IF s.recording = "active" THEN [s EXCEPT !.recording = "stopped"] ELSE s

----------------------------------------------------------------------------
AsInit == as = app_server_create

AsDrain(on) == as' = [as EXCEPT !.draining = on]
AsAttach == ~as.draining /\ as' = [as EXCEPT !.room = TRUE]

(* The room goes, and with it the peer connections and the room's runtime. *)
remove_room_webrtc_sessions(s) ==
  [unregister_published_track_metadata(s, UNION {s.sessions[p].auto : p \in DOMAIN s.sessions}) EXCEPT
     !.sessions = AsNothing]
AsClosed(s) == clear_room_runtime(remove_room_webrtc_sessions(
                 [s EXCEPT !.room = FALSE, !.node = [sessions |-> AsNothing, tracks |-> {}]]))
AsForceClose == as.room /\ as' = AsClosed(as)
AsDetach == as.room /\ as.node.sessions = AsNothing /\ as' = AsClosed(as)

AsAddSession(p) ==
  as.room /\ p \notin DOMAIN as.node.sessions /\ as' = [as EXCEPT !.node.sessions = AsPut(@, p, FALSE)]
AsRemoveSession(p) ==
  /\ p \in DOMAIN as.node.sessions
  /\ as' = remove_webrtc_session([as EXCEPT !.node.sessions = AsDrop(@, {p})], p)
AsCreateSession(p) == as' = create_webrtc_session(as, p, FALSE)
AsOffer(p, ssrcs, valid) == as' = set_remote_offer(as, p, ssrcs, valid).s

(* handle_media_session_post: WHIP with a track to publish, WHEP without *)
AsPost(p, ssrcs, valid) ==
  /\ ~as.draining /\ as.room
  /\ p \notin DOMAIN as.node.sessions /\ p \notin DOMAIN as.sessions
  /\ \E r \in {set_remote_offer(create_owned_media_session(as, p), p, ssrcs, valid)} :
       as' = IF r.ok THEN r.s ELSE remove_webrtc_session(r.s, p)
AsPatch(p, expected, restart) ==
  /\ p \in DOMAIN as.sessions /\ as.sessions[p].version < AsMaxVersion
  /\ as' = apply_remote_ice_sdpfrag(as, p, expected, restart)
AsDelete(p) == as' = remove_webrtc_session(as, p)
AsDisconnect(p) == as' = disconnect_media_participant(as, p)
AsSubscribe(p, t, enabled) == as' = apply_track_subscription(as, p, t, enabled)

(* The room service names a track itself, and takes one away. *)
AsRegister(p, ssrc) ==
  /\ p \in DOMAIN as.node.sessions /\ p \notin as.node.tracks
  /\ as' = register_published_track_metadata([as EXCEPT !.node.tracks = @ \union {p}], p, ssrc)
AsUnregister(t) ==
  /\ t \in as.node.tracks /\ AsOwner(t) \in DOMAIN as.node.sessions
  /\ as' = unregister_published_track_metadata([as EXCEPT !.node.tracks = @ \ {t}], {t})

AsRecord == as' = start_recording(as) \/ as' = stop_recording(as)

(* What happens to the connections, tracks and subscriptions of the room *)
AsMedia ==
  \/ AsAttach \/ AsForceClose \/ AsDetach
  \/ \E p \in AsParticipants :
       \/ AsAddSession(p) \/ AsRemoveSession(p) \/ AsCreateSession(p) \/ AsDelete(p) \/ AsDisconnect(p)
       \/ \E valid \in BOOLEAN, x \in {{}} \union {{y} : y \in AsSsrcs} : AsOffer(p, x, valid) \/ AsPost(p, x, valid)
       \/ AsUnregister(p) \/ \E ssrc \in AsSsrcs : AsRegister(p, ssrc)
       \/ \E t \in AsParticipants \ {p}, on \in BOOLEAN : AsSubscribe(p, t, on)

(* Draining, recording and restarts of ICE *)
AsUpkeep ==
  \/ \E on \in BOOLEAN : AsDrain(on)
  \/ AsRecord
  \/ \E p \in AsParticipants, v \in 1 .. AsMaxVersion, restart \in BOOLEAN : AsPatch(p, v, restart)

AsNext == AsMedia \/ AsUpkeep

AsSpec == AsInit /\ [][AsNext]_as

----------------------------------------------------------------------------
=============================================================================
