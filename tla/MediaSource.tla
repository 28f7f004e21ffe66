---------------------------- MODULE MediaSource ----------------------------
(***************************************************************************)
(* The published streams of the media server (core/media_source.c): a       *)
(* source has tracks, subscribers that are called for every frame, and a    *)
(* ring of frames since the last key frame, which a new subscriber may have *)
(* replayed; the registry holds the sources by key.                         *)
(*                                                                          *)
(* Every function of the C file is an operator on the source `s` or on the  *)
(* registry `r` that returns what the function returns and leaves behind.   *)
(* A frame is its number, its track and whether it is a key frame.  A       *)
(* subscriber is its subscription id and whom it calls back.                *)
(***************************************************************************)
EXTENDS Integers, FiniteSets, SequencesExt

CONSTANTS
  MsMaxSources,  \* registry: max_sources
  MsMaxTracks,   \* config.max_tracks
  MsMaxSubs,     \* config.max_subscribers
  MsGopCap,      \* config.gop_capacity
  MsIdMax,       \* UINT32_MAX, the last subscription id of a source
  MsNsMax        \* UINT32_MAX, the last subscription namespace

ASSUME MsConstants ==
  {MsMaxSources, MsMaxTracks, MsMaxSubs, MsGopCap, MsIdMax, MsNsMax} \subseteq Nat \ {0}

MsResult(rc, s) == [rc |-> rc, s |-> s]

MsNoFrame == [n |-> 0, track |-> 0, key |-> FALSE]

-----------------------------------------------------------------------------
(* The state field is left out: nothing ever closes a source, so that IDLE  *)
(* and PUBLISHING differ for no caller.                                     *)
turbo_media_source_create(ns) ==
  [subscription_namespace |-> ns, tracks |-> <<>>, next_track_id |-> 0,
   subscribers |-> <<>>, next_subscription_id |-> 1,
   gop_frames |-> [i \in 0 .. MsGopCap - 1 |-> MsNoFrame], gop_count |-> 0, gop_start |-> 0,
   has_video_track |-> FALSE, has_video_keyframe |-> FALSE, frames_published |-> 0]

(* Mutant: the ring is rewound but not emptied. *)
turbo_media_clear_gop_start(s) == [s EXCEPT !.gop_start = 0]

turbo_media_clear_gop(s) ==
  [s EXCEPT !.gop_frames = [i \in DOMAIN @ |-> MsNoFrame], !.gop_count = 0, !.gop_start = 0]

turbo_media_track(s, id) == {i \in DOMAIN s.tracks : s.tracks[i].id = id}

(* A negative id asks for the next free one. *)
turbo_media_source_add_track(s, t) ==
  LET id == IF t.id >= 0 THEN t.id ELSE s.next_track_id
  IN  IF Len(s.tracks) >= MsMaxTracks THEN MsResult("FULL", s)
      ELSE IF turbo_media_track(s, id) # {} THEN MsResult("EXISTS", s)
      ELSE MsResult("OK",
             [s EXCEPT !.tracks = Append(@, [t EXCEPT !.id = id]),
                       !.next_track_id = IF id >= @ THEN id + 1 ELSE @,
                       !.has_video_track = @ \/ t.type = "video"])

(* The end of turbo_media_cache_frame: the frame takes the next slot, or    *)
(* that of the oldest frame.                                                *)
turbo_media_ring_put(s, f) ==
  IF s.gop_count < MsGopCap
  THEN [s EXCEPT !.gop_frames[(s.gop_start + s.gop_count) % MsGopCap] = f,
                 !.gop_count = @ + 1]
  ELSE [s EXCEPT !.gop_frames[s.gop_start] = f,
                 !.gop_start = (@ + 1) % MsGopCap]

turbo_media_cache_frame(s, f, type) ==
  LET starts == s.has_video_track /\ type = "video" /\ f.key
      open   == IF starts THEN [turbo_media_clear_gop(s) EXCEPT !.has_video_keyframe = TRUE] ELSE s
  IN  IF ~s.has_video_track \/ starts \/ s.has_video_keyframe
      THEN turbo_media_ring_put(open, f)
      ELSE s

(* The subscribers that a publication reaches: it ends at the first one     *)
(* whose callback fails.                                                    *)
turbo_media_reached(s, failing) ==
  LET bad == {i \in DOMAIN s.subscribers : s.subscribers[i].whom \in failing}
  IN  {i \in DOMAIN s.subscribers : \A j \in bad : i <= j}

(* `whom` is who was called back, `rc` the callback's failure if any. *)
turbo_media_source_publish(s, f, failing) ==
  LET found   == turbo_media_track(s, f.track)
      type    == s.tracks[CHOOSE i \in found : TRUE].type
      reached == {s.subscribers[i].whom : i \in turbo_media_reached(s, failing)}
  IN  IF found = {} THEN [rc |-> "NOT_FOUND", s |-> s, whom |-> {}]
      ELSE [rc |-> IF reached \intersect failing = {} THEN "OK" ELSE "CALLBACK",
            s |-> [turbo_media_cache_frame(s, f, type) EXCEPT !.frames_published = @ + 1],
            whom |-> reached]

(* The cached frames from the oldest to the newest. *)
turbo_media_gop(s) ==
  [k \in 1 .. s.gop_count |-> s.gop_frames[(s.gop_start + k - 1) % MsGopCap]]

MsReplay(s) == turbo_media_gop(s)

(* `fail`: the replayed frame, counted from 1, whose callback fails, or 0.  *)
(* The subscriber is entered before the replay and taken back if it fails;  *)
(* its id is used up.                                                       *)
turbo_media_source_subscribe(s, whom, replay, fail) ==
  LET id       == <<s.subscription_namespace, s.next_subscription_id>>
      used     == [s EXCEPT !.next_subscription_id = @ + 1]
      replayed == IF replay THEN MsReplay(s) ELSE <<>>
      None(rc) == [rc |-> rc, s |-> s, id |-> <<0, 0>>, replayed |-> <<>>]
  IN  IF Len(s.subscribers) >= MsMaxSubs \/ s.next_subscription_id > MsIdMax THEN None("FULL")
      ELSE IF fail \in DOMAIN replayed THEN [None("CALLBACK") EXCEPT !.s = used]
      ELSE [rc |-> "OK", id |-> id, replayed |-> replayed,
            s |-> [used EXCEPT !.subscribers = Append(@, [id |-> id, whom |-> whom])]]

turbo_media_source_unsubscribe(s, id) ==
  LET found == {i \in DOMAIN s.subscribers : s.subscribers[i].id = id}
  IN  IF found = {} THEN MsResult("NOT_FOUND", s)
      ELSE MsResult("OK", [s EXCEPT !.subscribers = RemoveAt(@, Min(found))])

-----------------------------------------------------------------------------
(* The registry: the sources by key and the next namespace. *)
turbo_media_registry_create == [sources |-> <<>>, next_subscription_namespace |-> 1]

(* A removed source must not leave an id that matches its replacement: the  *)
(* namespace is new, and 0 once all of them are used up.                    *)
turbo_media_registry_get_or_create(r, key) ==
  IF key \in DOMAIN r.sources THEN MsResult("OK", r)
  ELSE IF Cardinality(DOMAIN r.sources) >= MsMaxSources \/ r.next_subscription_namespace = 0
  THEN MsResult("FULL", r)
  ELSE MsResult("OK",
         [r EXCEPT !.sources = @ @@ (key :> turbo_media_source_create(r.next_subscription_namespace)),
                   !.next_subscription_namespace = (@ + 1) % (MsNsMax + 1)])

turbo_media_registry_remove(r, key) ==
  [r EXCEPT !.sources = [k \in DOMAIN @ \ {key} |-> @[k]]]
=============================================================================
