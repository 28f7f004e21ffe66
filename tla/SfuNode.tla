------------------------------ MODULE SfuNode ------------------------------
(***************************************************************************)
(* A node that hosts the SFUs of several rooms (webrtc/src/conference/      *)
(* turbo_sfu_node.c): sessions, published tracks and subscriptions of every *)
(* room beside its forwarding unit.  The callers serialize their calls.     *)
(***************************************************************************)
EXTENDS Sfu

CONSTANTS
  SnRooms, SnParticipants, SnTracks,
  SnMaxRooms,     \* max_rooms
  SnCapacity,     \* default_room_capacity
  SnSsrc,         \* main SSRC of a track
  SnLayers,       \* SSRCs of the layers of a track
  SnBandwidths    \* estimates a receiver may report

ASSUME SnConstants ==
  /\ {SnMaxRooms, SnCapacity} \subseteq Nat \ {0}
  /\ SnSsrc \in [SnTracks -> Nat] /\ SnLayers \in [SnTracks -> Seq(Nat)]

VARIABLES
  sn,      \* rooms by id: forwarding unit, sessions, tracks and subscriptions
  snOut    \* who received the packet of the last call

snVars == <<sn, snOut>>

(* A session has the id of its participant: both are unique in a room. *)
SnNothing == [k \in {} |-> 0]
SnPut(fun, k, v) == [x \in DOMAIN fun \union {k} |-> IF x = k THEN v ELSE fun[x]]
SnDrop(fun, keys) == [x \in DOMAIN fun \ keys |-> fun[x]]

sfu_node_attach_room(n, room) ==
  IF room \in DOMAIN n \/ Cardinality(DOMAIN n) >= SnMaxRooms THEN n
  ELSE SnPut(n, room, [sfu |-> sfu_create(SnCapacity), sessions |-> SnNothing,
                       tracks |-> SnNothing, subs |-> SnNothing])

sfu_node_detach_room(n, room) ==
  IF DOMAIN n[room].sessions # {} THEN n ELSE SnDrop(n, {room})

sfu_node_force_close_room(n, room) == SnDrop(n, {room})

sfu_node_add_session(r, p) ==
  LET added == sfu_add_participant(r.sfu, p)
  IN  IF p \in DOMAIN r.sessions \/ ~added.ok THEN r
      ELSE [r EXCEPT !.sfu = added.f, !.sessions = SnPut(@, p, [pc |-> FALSE])]

sfu_node_bind_session_pc(r, p, pc) ==
  IF p \in DOMAIN r.sessions THEN [r EXCEPT !.sessions[p].pc = pc] ELSE r

(* Mutant: the subscriptions to the tracks of the one who leaves stay. *)
SnSubsOf_receiver(r, p) == {k \in DOMAIN r.subs : k[1] = p}
SnSubsOf(r, p) == {k \in DOMAIN r.subs : k[1] = p \/ r.subs[k].sender = p}

sfu_node_remove_session(r, p) ==
  IF p \notin DOMAIN r.sessions THEN r
  ELSE [r EXCEPT !.subs = SnDrop(@, SnSubsOf(r, p)),
                 !.sfu = sfu_remove_participant(@, p),
                 !.sessions = SnDrop(@, {p})]

sfu_node_register_published_track(r, p, t) ==
  LET added == sfu_add_stream(r.sfu, p, SnSsrc[t], SnLayers[t])
  IN  IF p \notin DOMAIN r.sessions \/ t \in DOMAIN r.tracks \/ ~added.ok THEN r
      ELSE [r EXCEPT !.sfu = added.f, !.tracks = SnPut(@, t, p)]

sfu_node_unregister_published_track(r, t) ==
  IF t \notin DOMAIN r.tracks THEN r
  ELSE LET removed == sfu_remove_stream(r.sfu, r.tracks[t], SnSsrc[t])
       IN  IF ~removed.ok THEN r
           ELSE [r EXCEPT !.sfu = removed.f,
                          !.subs = SnDrop(@, {k \in DOMAIN @ : k[2] = t}),
                          !.tracks = SnDrop(@, {t})]

sfu_node_set_receiver_bandwidth(r, p, bps) ==
  IF p \in DOMAIN r.sessions THEN [r EXCEPT !.sfu = sfu_set_participant_bandwidth(@, p, bps)] ELSE r

(* Layers of the API: 0 is NONE, 1 to 3 are LOW to HIGH. *)
resolve_max_layer_from_subscription(c) ==
  IF ~c.enabled \/ c.muted THEN 0
  ELSE IF c.target # 0 THEN c.target ELSE IF c.preferred # 0 THEN c.preferred ELSE c.max

sfu_node_apply_track_subscription(r, p, t, c) ==
  IF p \notin DOMAIN r.sessions \/ t \notin DOMAIN r.tracks THEN r
  ELSE LET layer == resolve_max_layer_from_subscription(c)
           on == c.enabled /\ ~c.muted
           set == sfu_set_receiver_stream_policy(r.sfu, p, r.tracks[t], SnSsrc[t], on,
                                                 Max({layer - 1, 0}))
       IN  IF ~set.ok THEN r
           ELSE [r EXCEPT !.sfu = set.f,
                          !.subs = SnPut(@, <<p, t>>, [sender |-> r.tracks[t], on |-> on, max |-> layer])]

(* What turbo_sfu_node_set_track_subscription makes of its two arguments. *)
sfu_node_set_track_subscription(enabled, layer) ==
  [enabled |-> enabled, muted |-> ~enabled, preferred |-> layer, target |-> layer, max |-> layer]

sfu_node_set_participant_callbacks(r, p, set) ==
  IF p \notin DOMAIN r.sessions THEN r
  ELSE [r EXCEPT !.sfu = sfu_set_participant_keyframe_callback(
                           sfu_set_participant_callback(@, p, set), p, set)]

----------------------------------------------------------------------------
SnInit == sn = SnNothing /\ snOut = {}

SnAttach(room) == sn' = sfu_node_attach_room(sn, room) /\ snOut' = {}
SnDetach(room) == sn' = sfu_node_detach_room(sn, room) /\ snOut' = {}
SnForceClose(room) == sn' = sfu_node_force_close_room(sn, room) /\ snOut' = {}

SnIn(room, r) == sn' = [sn EXCEPT ![room] = r] /\ snOut' = {}

SnJoin(room, p) == SnIn(room, sfu_node_add_session(sn[room], p))
(* The peer connection of the session and its callbacks come together. *)
SnConnect(room, p) ==
  SnIn(room, sfu_node_set_participant_callbacks(sfu_node_bind_session_pc(sn[room], p, TRUE), p, TRUE))
SnLeave(room, p) ==
  SnIn(room, sfu_node_remove_session(
    sfu_node_bind_session_pc(sfu_node_set_participant_callbacks(sn[room], p, FALSE), p, FALSE), p))
SnPublish(room, p, t) == SnIn(room, sfu_node_register_published_track(sn[room], p, t))
SnUnpublish(room, t) == SnIn(room, sfu_node_unregister_published_track(sn[room], t))
SnBandwidth(room, p, bps) == SnIn(room, sfu_node_set_receiver_bandwidth(sn[room], p, bps))
SnSubscribe(room, p, t, c) == SnIn(room, sfu_node_apply_track_subscription(sn[room], p, t, c))
SnClock(room) == SnIn(room, [sn[room] EXCEPT !.sfu = SfTick(@)])

SnPacket(room, p, ssrc) ==
  /\ p \in DOMAIN sn[room].sessions
  /\ \E out \in {sfu_forward_packet(sn[room].sfu, p, ssrc)} :
       /\ sn' = [sn EXCEPT ![room].sfu = out.f]
       /\ snOut' = {[room |-> room, slot |-> r, from |-> p, ssrc |-> ssrc] : r \in out.to}

SnConfigs == {sfu_node_set_track_subscription(e, l) : e \in BOOLEAN, l \in {1, 3}}

SnNext ==
  \/ \E room \in SnRooms : SnAttach(room)
  \/ \E room \in DOMAIN sn :
       \/ SnDetach(room) \/ SnForceClose(room) \/ SnClock(room)
       \/ \E p \in SnParticipants :
            \/ SnJoin(room, p) \/ SnConnect(room, p) \/ SnLeave(room, p)
            \/ \E t \in SnTracks :
                 \/ SnPublish(room, p, t)
                 \/ \E c \in SnConfigs : SnSubscribe(room, p, t, c)
                 \/ \E ssrc \in {SnSsrc[t]} \union ToSet(SnLayers[t]) : SnPacket(room, p, ssrc)
            \/ \E bps \in SnBandwidths : SnBandwidth(room, p, bps)
       \/ \E t \in SnTracks : SnUnpublish(room, t)

SnSpec == SnInit /\ [][SnNext]_snVars

----------------------------------------------------------------------------
(* A subscription of the node is in force in the forwarding unit: its       *)
(* receiver has a session, its track is published by its sender, and the    *)
(* policy in the receiver's slot of the track's stream is the one of the    *)
(* subscription, through every order of joining, leaving and publishing     *)
(* (turbo_sfu_node.c).                                                      *)
SnSubscriptions ==
  \A room \in DOMAIN sn : \A k \in DOMAIN sn[room].subs :
    LET r == sn[room]
        sub == r.subs[k]
        slot == get_participant_index(r.sfu, k[1])
    IN  /\ k[1] \in DOMAIN r.sessions
        /\ k[2] \in DOMAIN r.tracks /\ r.tracks[k[2]] = sub.sender
        /\ slot # 0
        /\ \E s \in 1 .. SfSlots :
             /\ SfIs(r.sfu, s, sub.sender)
             /\ \E i \in DOMAIN r.sfu.slots[s].streams :
                  LET stream == r.sfu.slots[s].streams[i]
                  IN  /\ stream.ssrc = SnSsrc[k[2]]
                      /\ stream.recv[slot].enabled = sub.on
                      /\ stream.recv[slot].max = Max({sub.max - 1, 0})

(* What one step hands to receivers. *)
SnForwardsStep ==
  \A d \in snOut' :
     LET f == sn[d.room].sfu
         s == find_participant(f, d.from)
         stream == f.slots[s].streams[find_stream_by_ssrc(f.slots[s], d.ssrc)]
         recv == stream.recv[d.slot]
     IN  /\ d.slot # s /\ f.slots[d.slot].active /\ f.slots[d.slot].packet /\ recv.enabled
         /\ Len(stream.layers) > 1 =>
              \E l \in 1 .. Len(stream.layers) :
                /\ stream.layers[l] = d.ssrc
                /\ l - 1 <= recv.max /\ l - 1 <= select_layer_for_bandwidth(f.slots[d.slot].bw)
                /\ l - 1 > recv.layer => recv.age = SfHold

(* A packet is handed to a receiver only while the policy of its slot lets  *)
(* the stream through and on a layer that neither the policy nor the        *)
(* bandwidth of the receiver forbids; a receiver that goes up a layer has   *)
(* stayed on its former one for the hysteresis (sfu_forward_packet).        *)
SnForwards == [][SnForwardsStep]_snVars

(* A participant is one entry of the forwarding unit ("Check if already     *)
(* exists ... Already exists", sfu_add_participant).                        *)
SnUnique ==
  \A room \in DOMAIN sn : \A i, j \in 1 .. SfSlots :
    LET f == sn[room].sfu
    IN  f.slots[i].active /\ f.slots[j].active /\ f.slots[i].id = f.slots[j].id => i = j
=============================================================================
