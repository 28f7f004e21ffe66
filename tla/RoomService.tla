---------------------------- MODULE RoomService ----------------------------
(***************************************************************************)
(* The room service (webrtc/src/conference/turbo_room_service.c): rooms     *)
(* with their participants, tracks and subscriptions, the layout of a       *)
(* conference and the parties of a call-centre call, and the states of the  *)
(* call-centre agents.  Every operation runs under the service's mutexes,   *)
(* so it is one step.                                                       *)
(*                                                                          *)
(* Left out: names, codecs, versions, priorities (each goes with the policy *)
(* of its subscription) and the failure to allocate memory.                 *)
(***************************************************************************)
EXTENDS Integers, FiniteSets, Functions

CONSTANTS RsRooms, RsParticipants, RsTracks,
  RsRole,   \* role with which a participant joins
  RsKind    \* "audio", "camera" or "screen": kind and source of a track

ASSUME RsConstants ==
  /\ RsRole \in [RsParticipants -> {"customer", "agent", "supervisor", "observer", "bot", "guest"}]
  /\ RsKind \in [RsTracks -> {"audio", "camera", "screen"}]

VARIABLES
  rs,      \* turbo_room_service_t: rooms, states of agents, queue of calls
  rsMode   \* history: the supervisor mode a room was last reconciled for

rsVars == <<rs, rsMode>>

RsNone == "none"
RsNothing == [k \in {} |-> 0]
RsPut(fun, k, v) == [x \in DOMAIN fun \union {k} |-> IF x = k THEN v ELSE fun[x]]
RsDrop(fun, keys) == Restrict(fun, DOMAIN fun \ keys)
RsFail(s) == [ok |-> FALSE, s |-> s]
RsOk(s) == [ok |-> TRUE, s |-> s]
RsRoom(s, room, r) == RsOk([s EXCEPT !.rooms[room] = r])
RsIn(s, room, p) == room \in DOMAIN s.rooms /\ p \in DOMAIN s.rooms[room].parts

room_service_create ==
  [rooms |-> RsNothing, agents |-> [p \in RsParticipants |-> "available"],
   entries |-> RsNothing, sequence |-> 0]

(* An agent without an entry is available. *)
set_call_center_agent_state(s, agents, state) ==
  [s EXCEPT !.agents = [a \in DOMAIN @ |-> IF a \in agents THEN state ELSE @[a]]]

room_service_create_room(s, room) ==
  IF room \in DOMAIN s.rooms THEN RsFail(s)
  ELSE RsOk([s EXCEPT !.rooms = RsPut(@, room,
         [status |-> "open", node |-> RsNone, recording |-> FALSE, layout |-> "speaker",
          speaker |-> RsNone, pinned |-> RsNone, cc |-> RsNone, customer |-> RsNone,
          agent |-> RsNone, consult |-> RsNone,
          parts |-> RsNothing, tracks |-> RsNothing, subs |-> RsNothing])])

room_service_close_room(s, room) ==
  IF room \notin DOMAIN s.rooms THEN RsFail(s)
  ELSE LET r == s.rooms[room]
           calling == r.cc = "active"
           freed == IF calling THEN set_call_center_agent_state(s, {r.agent, r.consult}, "available") ELSE s
       IN  RsRoom(freed, room, [r EXCEPT !.status = "closed", !.cc = IF calling THEN "completed" ELSE @])

room_service_discard_unassigned_room(s, room) ==
  IF room \notin DOMAIN s.rooms THEN RsFail(s)
  ELSE IF s.rooms[room].node # RsNone THEN RsFail(s)
  ELSE RsOk([s EXCEPT !.rooms = RsDrop(@, {room})])

room_service_assign_sfu_node(s, room, node) ==
  IF room \in DOMAIN s.rooms THEN RsRoom(s, room, [s.rooms[room] EXCEPT !.node = node]) ELSE RsFail(s)

update_room_activity(r) ==
  IF r.status = "closed" THEN r
  ELSE [r EXCEPT !.status = IF DOMAIN r.parts = {} THEN "open" ELSE "active"]

room_service_add_participant(s, room, p, role) ==
  IF room \notin DOMAIN s.rooms \/ RsIn(s, room, p) THEN RsFail(s)
  ELSE RsRoom(s, room, update_room_activity([s.rooms[room] EXCEPT !.parts = RsPut(@, p, role)]))

(* The call ends with its customer or its agent. *)
RsCallAfter(r, p) ==
  IF p \in {r.customer, r.agent} /\ r.cc \notin {RsNone, "completed"}
  THEN [r EXCEPT !.cc = "completed", !.customer = RsNone, !.agent = RsNone, !.consult = RsNone]
  ELSE IF p = r.consult THEN [r EXCEPT !.consult = RsNone] ELSE r

RsFreed(r, p) ==
  IF p \in {r.customer, r.agent} /\ r.cc \notin {RsNone, "completed"} THEN {r.agent, r.consult}
  ELSE IF p = r.consult /\ r.cc = "active" THEN {p} ELSE {}

RsSubsLost(r, p) ==
  {k \in DOMAIN r.subs : k[1] = p \/ (k[2] \in DOMAIN r.tracks /\ r.tracks[k[2]].owner = p)}

(* The call and the tracks change even when the participant is not there. *)
room_service_remove_participant(s, room, p) ==
  IF room \notin DOMAIN s.rooms THEN RsFail(s)
  ELSE LET r == s.rooms[room]
           gone == [RsCallAfter(r, p) EXCEPT
                     !.subs = RsDrop(@, RsSubsLost(r, p)),
                     !.tracks = RsDrop(@, {t \in DOMAIN @ : @[t].owner = p})]
           freed == set_call_center_agent_state(s, RsFreed(r, p), "available")
       IN  [ok |-> p \in DOMAIN r.parts,
            s |-> [freed EXCEPT !.rooms[room] =
              IF p \in DOMAIN r.parts
              THEN update_room_activity([gone EXCEPT !.parts = RsDrop(@, {p})]) ELSE gone]]

(* A track that exists passes to its new owner. *)
room_service_publish_track(s, room, p, t, kind) ==
  IF ~RsIn(s, room, p) THEN RsFail(s)
  ELSE LET r == s.rooms[room]
           muted == t \in DOMAIN r.tracks /\ r.tracks[t].muted
       IN  IF r.parts[p] = "observer" THEN RsFail(s)
           ELSE RsRoom(s, room, [r EXCEPT !.tracks =
                  RsPut(@, t, [owner |-> p, kind |-> kind, muted |-> muted])])

room_service_unpublish_track(s, room, t) ==
  IF room \notin DOMAIN s.rooms THEN RsFail(s)
  ELSE LET r == s.rooms[room]
       IN  [ok |-> t \in DOMAIN r.tracks,
            s |-> [s EXCEPT !.rooms[room] =
              [r EXCEPT !.subs = RsDrop(@, {k \in DOMAIN @ : k[2] = t}), !.tracks = RsDrop(@, {t})]]]

room_service_set_track_muted(s, room, t, muted) ==
  IF room \notin DOMAIN s.rooms THEN RsFail(s)
  ELSE IF t \notin DOMAIN s.rooms[room].tracks THEN RsFail(s)
  ELSE RsRoom(s, room, [s.rooms[room] EXCEPT !.tracks[t].muted = muted])

room_service_set_subscription(s, room, p, t, sub) ==
  IF ~RsIn(s, room, p) THEN RsFail(s)
  ELSE IF t \notin DOMAIN s.rooms[room].tracks THEN RsFail(s)
  ELSE RsRoom(s, room, [s.rooms[room] EXCEPT !.subs = RsPut(@, <<p, t>>, sub)])

room_service_remove_subscription(s, room, p, t) ==
  IF room \notin DOMAIN s.rooms THEN RsFail(s)
  ELSE IF <<p, t>> \notin DOMAIN s.rooms[room].subs THEN RsFail(s)
  ELSE RsRoom(s, room, [s.rooms[room] EXCEPT !.subs = RsDrop(@, {<<p, t>>})])

room_service_start_recording(s, room) ==
  IF room \notin DOMAIN s.rooms THEN RsFail(s)
  ELSE IF s.rooms[room].recording THEN RsFail(s)
  ELSE RsRoom(s, room, [s.rooms[room] EXCEPT !.recording = TRUE])
room_service_stop_recording(s, room) ==
  IF room \notin DOMAIN s.rooms THEN RsFail(s)
  ELSE IF ~s.rooms[room].recording THEN RsFail(s)
  ELSE RsRoom(s, room, [s.rooms[room] EXCEPT !.recording = FALSE])

room_service_set_layout_mode(s, room, layout) ==
  IF room \notin DOMAIN s.rooms THEN RsFail(s)
  ELSE RsRoom(s, room, [s.rooms[room] EXCEPT !.layout = layout])
room_service_set_active_speaker(s, room, p) ==
  IF room \notin DOMAIN s.rooms \/ ~(p = RsNone \/ RsIn(s, room, p)) THEN RsFail(s)
  ELSE RsRoom(s, room, [s.rooms[room] EXCEPT !.speaker = p])
room_service_pin_participant(s, room, p) ==
  IF room \notin DOMAIN s.rooms \/ ~(p = RsNone \/ RsIn(s, room, p)) THEN RsFail(s)
  ELSE RsRoom(s, room, [s.rooms[room] EXCEPT !.pinned = p])

----------------------------------------------------------------------------
(* Subscriptions by policy *)

derive_video_subscription(r, track) ==
  IF track.muted THEN [enabled |-> FALSE, layer |-> "none", policy |-> "muted"]
  ELSE [enabled |-> TRUE,
        layer |-> CASE track.kind = "screen" \/ track.owner = r.pinned -> "high"
                    [] track.owner = r.speaker -> IF r.layout = "grid" THEN "medium" ELSE "high"
                    [] OTHER -> "low",
        policy |-> CASE track.kind = "screen" -> "screenshare"
                     [] track.owner = r.pinned -> "pin"
                     [] OTHER -> r.layout]

room_service_reconcile_subscriptions(s, room) ==
  IF room \notin DOMAIN s.rooms THEN RsFail(s)
  ELSE LET r == s.rooms[room]
           pairs == {k \in (DOMAIN r.parts) \X (DOMAIN r.tracks) : r.tracks[k[2]].owner # k[1]}
           derived(t) == IF r.tracks[t].kind = "audio"
                         THEN [enabled |-> ~r.tracks[t].muted, layer |-> "none", policy |-> "audio"]
                         ELSE derive_video_subscription(r, r.tracks[t])
       IN  RsRoom(s, room, [r EXCEPT !.subs =
             [k \in DOMAIN @ \union pairs |-> IF k \in pairs THEN derived(k[2]) ELSE @[k]]])

RsEngaged(r) == {r.agent, r.consult} \ {RsNone}
RsObservable(r) == {r.customer, r.agent, r.consult} \ {RsNone}
RsObserver(role) == role \in {"observer", "bot"}
RsPrimary(role) == role \in {"customer", "agent"}

(* In a room whose call has a customer and an agent the parties decide ... *)
RsAllowedByCall(r, p, q, kind, mode) ==
  CASE {p, q} \subseteq {r.customer, r.agent} -> "call"
    [] r.consult # RsNone /\ p = r.customer /\ q = r.consult -> RsNone
    [] r.consult # RsNone /\ p = r.agent /\ q = r.consult -> "consult"
    [] r.consult # RsNone /\ p = r.consult /\ q \in {r.agent, r.customer} -> "consult"
    [] r.parts[p] = "supervisor" /\ q \in RsObservable(r) /\ mode # "none" -> "monitor"
    [] RsObserver(r.parts[p]) /\ q \in RsObservable(r) -> "observe"
    [] r.parts[q] = "supervisor" /\ p \in RsEngaged(r) /\ mode = "whisper" /\ kind = "audio" -> "whisper"
    [] r.parts[q] = "supervisor" /\ p \in RsObservable(r) /\ mode = "barge" -> "barge"
    [] OTHER -> RsNone

(* ... and in any other room the roles. *)
RsAllowedByRole(r, p, q, kind, mode) ==
  CASE RsPrimary(r.parts[p]) /\ RsPrimary(r.parts[q]) -> "call"
    [] r.parts[p] = "supervisor" /\ RsPrimary(r.parts[q]) /\ mode # "none" -> "monitor"
    [] RsObserver(r.parts[p]) /\ RsPrimary(r.parts[q]) -> "observe"
    [] r.parts[q] = "supervisor" /\ r.parts[p] = "agent" /\ mode = "whisper" /\ kind = "audio" -> "whisper"
    [] r.parts[q] = "supervisor" /\ RsPrimary(r.parts[p]) /\ mode = "barge" -> "barge"
    [] OTHER -> RsNone

RsTopology(r) == r.customer # RsNone /\ r.agent # RsNone

call_center_subscription_allowed(r, p, q, kind, mode) ==
  IF p = q THEN RsNone
  ELSE IF RsTopology(r) THEN RsAllowedByCall(r, p, q, kind, mode)
  ELSE RsAllowedByRole(r, p, q, kind, mode)

derive_call_center_subscription(track, policy) ==
  CASE track.muted -> [enabled |-> FALSE, layer |-> "none", policy |-> "muted"]
    [] ~track.muted /\ track.kind = "audio" -> [enabled |-> TRUE, layer |-> "none", policy |-> policy]
    [] ~track.muted /\ track.kind = "screen" -> [enabled |-> TRUE, layer |-> "high", policy |-> "screenshare"]
    [] OTHER -> [enabled |-> TRUE, layer |-> "low", policy |-> policy]

(* The allowed pairs; every other subscription of the room is removed. *)
(* Mutant: subscriptions that are no longer allowed stay. *)
RsKept_all(r, mode) == DOMAIN r.subs
RsKept(r, mode) == {}

room_service_reconcile_call_center_subscriptions(s, room, mode) ==
  IF room \notin DOMAIN s.rooms THEN RsFail(s)
  ELSE LET r == s.rooms[room]
           policy(p, t) == call_center_subscription_allowed(r, p, r.tracks[t].owner, r.tracks[t].kind, mode)
           pairs == {k \in (DOMAIN r.parts) \X (DOMAIN r.tracks) : policy(k[1], k[2]) # RsNone}
       IN  RsRoom(s, room, [r EXCEPT !.subs = [k \in pairs \union RsKept(r, mode) |->
             IF k \in pairs THEN derive_call_center_subscription(r.tracks[k[2]], policy(k[1], k[2])) ELSE @[k]]])

----------------------------------------------------------------------------
(* The call of a room *)

room_service_start_call_center_room(s, room, customer, agent) ==
  IF ~RsIn(s, room, customer) \/ ~RsIn(s, room, agent) THEN RsFail(s)
  ELSE IF s.rooms[room].parts[customer] # "customer" \/ s.rooms[room].parts[agent] # "agent" THEN RsFail(s)
  ELSE RsRoom(set_call_center_agent_state(s, {agent}, "busy"), room,
         [s.rooms[room] EXCEPT !.cc = "active", !.customer = customer, !.agent = agent, !.consult = RsNone])

room_service_set_call_center_consult_agent(s, room, p) ==
  IF ~RsIn(s, room, p) THEN RsFail(s)
  ELSE LET r == s.rooms[room]
       IN  IF r.cc # "active" \/ r.agent \in {RsNone, p} \/ r.parts[p] # "agent" THEN RsFail(s)
           ELSE RsRoom(set_call_center_agent_state(
                         set_call_center_agent_state(s, {r.consult}, "available"), {p}, "busy"),
                       room, [r EXCEPT !.consult = p])

room_service_complete_call_center_transfer(s, room, released) ==
  IF room \notin DOMAIN s.rooms THEN RsFail(s)
  ELSE LET r == s.rooms[room]
       IN  IF r.cc # "active" \/ ~({r.agent, r.consult} \subseteq DOMAIN r.parts) THEN RsFail(s)
           ELSE IF {r.parts[r.agent], r.parts[r.consult]} # {"agent"} THEN RsFail(s)
           ELSE RsRoom(set_call_center_agent_state(
                         set_call_center_agent_state(s, {r.agent}, released), {r.consult}, "busy"),
                       room, [r EXCEPT !.agent = r.consult, !.consult = RsNone])

(* The states the agent may be left in by the new state of the call. *)
RsFinal ==
  ({"active"} \X {"available", "reserved", "busy", "offline", "wrap_up"})
  \union ({"wrap_up"} \X {"wrap_up", "offline"}) \union ({"completed"} \X {"available", "offline"})

room_service_finalize_call_center_room(s, room, state, agentState) ==
  IF room \notin DOMAIN s.rooms \/ <<state, agentState>> \notin RsFinal THEN RsFail(s)
  ELSE LET r == s.rooms[room]
       IN  IF r.cc = RsNone \/ r.agent = RsNone THEN RsFail(s)
           ELSE RsRoom(set_call_center_agent_state(s, {r.agent}, agentState), room, [r EXCEPT !.cc = state])

----------------------------------------------------------------------------
RsInit == rs = room_service_create /\ rsMode = RsNothing

RsCall(room, r) == rs' = r.s /\ rsMode' = RsDrop(rsMode, {room})

RsLife(room) ==
  \/ RsCall(room, room_service_create_room(rs, room))
  \/ RsCall(room, room_service_close_room(rs, room))

RsPlace(room) ==
  \/ RsCall(room, room_service_discard_unassigned_room(rs, room))
  \/ RsCall(room, room_service_assign_sfu_node(rs, room, "sfu"))

RsPeople(room, p) ==
  \/ RsCall(room, room_service_add_participant(rs, room, p, RsRole[p]))
  \/ RsCall(room, room_service_remove_participant(rs, room, p))

RsLook(room, p) ==
  \/ RsCall(room, room_service_pin_participant(rs, room, p))
  \/ RsCall(room, room_service_set_active_speaker(rs, room, p))

RsPublish(room, p, t) ==
  \/ RsCall(room, room_service_publish_track(rs, room, p, t, RsKind[t]))
  \/ RsCall(room, room_service_set_subscription(rs, room, p, t,
            [enabled |-> TRUE, layer |-> "low", policy |-> "manual"]))

RsTrack(room, p, t) ==
  \/ RsCall(room, room_service_unpublish_track(rs, room, t))
  \/ \E muted \in BOOLEAN : RsCall(room, room_service_set_track_muted(rs, room, t, muted))
  \/ RsCall(room, room_service_remove_subscription(rs, room, p, t))

RsShow(room) ==
  \/ RsCall(room, room_service_start_recording(rs, room))
  \/ RsCall(room, room_service_stop_recording(rs, room))
  \/ \E layout \in {"speaker", "grid"} : RsCall(room, room_service_set_layout_mode(rs, room, layout))
  \/ RsCall(room, room_service_reconcile_subscriptions(rs, room))

RsCallCenter(room, P, released, final) ==
  \/ \E p, q \in P : RsCall(room, room_service_start_call_center_room(rs, room, p, q))
  \/ \E p \in P : RsCall(room, room_service_set_call_center_consult_agent(rs, room, p))
  \/ \E state \in released : RsCall(room, room_service_complete_call_center_transfer(rs, room, state))
  \/ \E f \in final : RsCall(room, room_service_finalize_call_center_room(rs, room, f[1], f[2]))

RsReconcile(room, mode) ==
  /\ room \in DOMAIN rs.rooms
  /\ rs' = room_service_reconcile_call_center_subscriptions(rs, room, mode).s
  /\ rsMode' = RsPut(rsMode, room, mode)

(* A conference of the participants P with the tracks T, and the calls of a *)
(* call centre; the next-state relation of the service has both.            *)
RsConference(room, P, T) ==
  \/ RsLife(room) \/ RsPlace(room) \/ RsShow(room)
  \/ \E p \in P : RsPeople(room, p) \/ RsLook(room, p)
  \/ \E p \in P, t \in T : RsPublish(room, p, t) \/ RsTrack(room, p, t)

RsCalls(room, P, T, released, final) ==
  \/ RsLife(room)
  \/ \E p \in P : RsPeople(room, p) \/ \E t \in T : RsPublish(room, p, t)
  \/ RsCallCenter(room, P, released, final)
  \/ \E mode \in {"none", "monitor", "whisper", "barge"} : RsReconcile(room, mode)

RsNext ==
  \E room \in RsRooms :
    \/ RsConference(room, RsParticipants, RsTracks)
    \/ RsCalls(room, RsParticipants, RsTracks, {"available", "offline", "wrap_up"}, RsFinal)

RsSpec == RsInit /\ [][RsNext]_rsVars

----------------------------------------------------------------------------
(* Whatever joins, leaves and passes from hand to hand, a track belongs to  *)
(* a participant of the room and a subscription joins a participant and a   *)
(* track of the room.                                                       *)
RsReferences ==
  \A room \in DOMAIN rs.rooms :
    LET r == rs.rooms[room]
    IN  /\ \A t \in DOMAIN r.tracks : r.tracks[t].owner \in DOMAIN r.parts
        /\ \A k \in DOMAIN r.subs : k[1] \in DOMAIN r.parts /\ k[2] \in DOMAIN r.tracks

(* Who hears whom once the subscriptions of a call are reconciled: nobody   *)
(* hears their own tracks, the customer does not hear the consulted agent   *)
(* nor a supervisor who does not barge in, and customer and agent hear each *)
(* other.                                                                   *)
RsCallPrivate ==
  \A room \in DOMAIN rsMode : room \in DOMAIN rs.rooms =>
    LET r == rs.rooms[room]
        hears(p, q) == \E t \in DOMAIN r.tracks : r.tracks[t].owner = q /\ <<p, t>> \in DOMAIN r.subs
        present == DOMAIN r.parts
    IN  RsTopology(r) =>
          /\ \A p \in present : ~hears(p, p)
          /\ r.customer \in present =>
               /\ ~hears(r.customer, r.consult)
               /\ \A q \in present : r.parts[q] = "supervisor" /\ hears(r.customer, q) => rsMode[room] = "barge"
          /\ \A p, q \in {r.customer, r.agent} \intersect present :
               p # q => \A t \in DOMAIN r.tracks : r.tracks[t].owner = q => <<p, t>> \in DOMAIN r.subs

(* Rooms stay consistent and their calls private. *)
RsSound == RsReferences /\ RsCallPrivate
=============================================================================
