-------------------------------- MODULE Sfu --------------------------------
(***************************************************************************)
(* The selective forwarding unit of a room (webrtc/src/sfu/turbo_sfu.c): a  *)
(* table of participants, the streams each of them sends, and for every     *)
(* stream an array over the SLOTS of the table with the policy and the      *)
(* simulcast layer of the receiver in that slot.                            *)
(*                                                                          *)
(* Left out: statistics, and the length check of identifiers.  The time     *)
(* since the last switch of a layer is kept up to the hysteresis only.      *)
(***************************************************************************)
EXTENDS Integers, Sequences, FiniteSets, FiniteSetsExt, SequencesExt

CONSTANTS
  SfSlots,    \* SFU_MAX_PARTICIPANTS
  SfStreams,  \* SFU_MAX_STREAMS_PER_PARTICIPANT
  SfHold      \* SFU_LAYER_SWITCH_HYSTERESIS_MS in ticks of the clock

ASSUME SfConstants == {SfSlots, SfStreams, SfHold} \subseteq Nat \ {0}

SfHigh == 2      \* SIMULCAST_LAYER_HIGH; MEDIUM is 1, LOW is 0
SfEmpty == [active |-> FALSE]

sfu_create(max) ==
  [slots |-> [i \in 1 .. SfSlots |-> SfEmpty], count |-> 0,
   max |-> IF max \in 1 .. SfSlots THEN max ELSE SfSlots]

SfIs(f, i, id) == f.slots[i].active /\ f.slots[i].id = id
SfFirst(set) == IF set = {} THEN 0 ELSE Min(set)

(* The scan ends at participant_count, not at the end of the table. *)
find_participant(f, id) == SfFirst({i \in 1 .. f.count : SfIs(f, i, id)})
get_participant_index(f, id) == SfFirst({i \in 1 .. SfSlots : SfIs(f, i, id)})

sfu_add_participant(f, id) ==
  LET free == SfFirst({i \in 1 .. SfSlots : ~f.slots[i].active})
  IN  IF find_participant(f, id) # 0 \/ f.count >= f.max \/ free = 0 THEN [ok |-> FALSE, f |-> f]
      ELSE [ok |-> TRUE,
            f |-> [f EXCEPT !.count = @ + 1,
                            !.slots[free] = [active |-> TRUE, id |-> id, streams |-> << >>,
                                             bw |-> 2500000, packet |-> FALSE, keyframe |-> FALSE]]]

sfu_remove_participant(f, id) ==
  LET i == find_participant(f, id)
  IN  IF i = 0 THEN f ELSE [f EXCEPT !.slots[i] = SfEmpty, !.count = @ - 1]

(* The three setters of a participant do nothing when it is not found. *)
SfSet(f, id, slot(_)) ==
  LET i == find_participant(f, id) IN IF i = 0 THEN f ELSE [f EXCEPT !.slots[i] = slot(@)]
sfu_set_participant_bandwidth(f, id, bps) == SfSet(f, id, LAMBDA p : [p EXCEPT !.bw = bps])
sfu_set_participant_callback(f, id, set) == SfSet(f, id, LAMBDA p : [p EXCEPT !.packet = set])
sfu_set_participant_keyframe_callback(f, id, set) ==
  SfSet(f, id, LAMBDA p : [p EXCEPT !.keyframe = set])

----------------------------------------------------------------------------
(* Streams *)

(* layers: the SSRCs of the layers, << >> for a stream without simulcast. *)
sfu_add_stream(f, id, ssrc, layers) ==
  LET i == find_participant(f, id)
  IN  IF i = 0 \/ (i # 0 /\ Len(f.slots[i].streams) >= SfStreams) THEN [ok |-> FALSE, f |-> f]
      ELSE [ok |-> TRUE,
            f |-> [f EXCEPT !.slots[i].streams = Append(@,
              [ssrc |-> ssrc, layers |-> IF Len(layers) \in 1 .. 3 THEN layers ELSE <<ssrc>>,
               recv |-> [r \in 1 .. SfSlots |->
                          [layer |-> SfHigh, age |-> SfHold, enabled |-> TRUE, max |-> SfHigh]]])]]

find_stream_by_ssrc(p, ssrc) ==
  SfFirst({k \in 1 .. Len(p.streams) : ssrc = p.streams[k].ssrc \/ ssrc \in ToSet(p.streams[k].layers)})

sfu_remove_stream(f, id, ssrc) ==
  LET i == find_participant(f, id)
      k == IF i = 0 THEN 0
           ELSE SfFirst({j \in 1 .. Len(f.slots[i].streams) : f.slots[i].streams[j].ssrc = ssrc})
  IN  IF k = 0 THEN [ok |-> FALSE, f |-> f]
      ELSE [ok |-> TRUE, f |-> [f EXCEPT !.slots[i].streams = RemoveAt(@, k)]]

sfu_set_receiver_stream_policy(f, receiver, sender, ssrc, enabled, max) ==
  LET r == get_participant_index(f, receiver)
      s == find_participant(f, sender)
      k == IF s = 0 THEN 0 ELSE find_stream_by_ssrc(f.slots[s], ssrc)
  IN  IF r = 0 \/ k = 0 THEN [ok |-> FALSE, f |-> f]
      ELSE [ok |-> TRUE,
            f |-> [f EXCEPT !.slots[s].streams[k].recv[r] =
                     [@ EXCEPT !.enabled = enabled, !.max = max]]]

----------------------------------------------------------------------------
(* Forwarding *)

select_layer_for_bandwidth(bps) == IF bps >= 2000000 THEN 2 ELSE IF bps >= 1000000 THEN 1 ELSE 0

(* Mutant: no hysteresis on the way up. *)
should_switch_layer_at_once(recv, layer) == layer # recv.layer

should_switch_layer(recv, layer) ==
  layer < recv.layer \/ (layer > recv.layer /\ recv.age >= SfHold)

SfTarget(stream, r, bps) ==
  Min({select_layer_for_bandwidth(bps), stream.recv[r].max, Len(stream.layers) - 1})

(* The slots a packet of the stream goes to at all. *)
SfReceivers(f, s, stream) ==
  {r \in (1 .. SfSlots) \ {s} : f.slots[r].active /\ f.slots[r].packet /\ stream.recv[r].enabled}

(* Every receiver moves to its target layer if it may; the packet goes to   *)
(* those who are on its layer then.                                         *)
sfu_forward_packet(f, sender, ssrc) ==
  LET s == find_participant(f, sender)
      k == IF s = 0 THEN 0 ELSE find_stream_by_ssrc(f.slots[s], ssrc)
      stream == f.slots[s].streams[k]
      simulcast == Len(stream.layers) > 1
      to == SfReceivers(f, s, stream)
      target == [r \in to |-> SfTarget(stream, r, f.slots[r].bw)]
      moved == {r \in to : simulcast /\ should_switch_layer(stream.recv[r], target[r])}
      recv == [r \in 1 .. SfSlots |-> IF r \in moved
                THEN [stream.recv[r] EXCEPT !.layer = target[r], !.age = 0] ELSE stream.recv[r]]
  IN  IF k = 0 THEN [ok |-> FALSE, f |-> f, to |-> {}, keyframes |-> {}]
      ELSE [ok |-> TRUE,
            f |-> [f EXCEPT !.slots[s].streams[k].recv = recv],
            to |-> {r \in to : ~simulcast \/ ssrc = stream.layers[recv[r].layer + 1]},
            keyframes |-> IF f.slots[s].keyframe THEN {stream.layers[target[r] + 1] : r \in moved} ELSE {}]

(* The clock of sfu_get_time_us. *)
SfTick(f) ==
  [f EXCEPT !.slots = [i \in 1 .. SfSlots |->
    IF ~@[i].active THEN @[i]
    ELSE [@[i] EXCEPT !.streams = [k \in DOMAIN @ |->
           [@[k] EXCEPT !.recv = [r \in 1 .. SfSlots |-> [@[r] EXCEPT !.age = Min({@ + 1, SfHold})]]]]]]]
=============================================================================
