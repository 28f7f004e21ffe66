--------------------------- MODULE ServerRuntime ---------------------------
(***************************************************************************)
(* The runtime of the media server (server/server_runtime.c): protocol      *)
(* sessions publish to sources of the registry or play them.  A publisher   *)
(* creates the source of its key and adds its tracks; a player subscribes;  *)
(* closing a session unsubscribes it or, if it was told to, removes the     *)
(* source with all its subscriptions.  All calls come from one thread and   *)
(* a frame callback does not call back into the runtime.                    *)
(*                                                                          *)
(* A key is the pair of application and stream; a stream is a sequence of   *)
(* path segments.                                                           *)
(***************************************************************************)
EXTENDS MediaSource

CONSTANTS
  SrRtmp,      \* RTMP sessions
  SrStream,    \* RTMP streams, sequences of segments
  SrMaxFrames  \* bound: frames published to one source

VARIABLES
  sr,      \* the runtime: registry and counters
  srSess,  \* the sessions, of all protocols
  srGot,   \* history: the numbers of the frames every session was called back with
  srLog    \* history: the frames published to every source

srVars == <<sr, srSess, srGot, srLog>>

-----------------------------------------------------------------------------
SrClosed == [role |-> "none", key |-> <<"", <<>>>>, subscription_id |-> <<0, 0>>,
             remove_source_on_close |-> FALSE]

turbo_media_server_runtime_create ==
  [registry |-> turbo_media_registry_create, subscriptions_created |-> 0, subscriptions_removed |-> 0]

turbo_media_server_rtmp_source_key(stream) == <<"live", stream>>

(* `path`: the segments of the URI after the host and the leading slashes;  *)
(* an empty last segment is a slash at the end.  A single segment is a      *)
(* stream of the default application, which is also RTMP's.                 *)
turbo_media_server_rtsp_source_key(path) ==
  IF path = <<>> \/ Tail(path) = <<"">> THEN MsResult("INVALID", <<"", <<>>>>)
  ELSE IF Len(path) = 1 THEN MsResult("OK", <<"live", path>>)
  ELSE MsResult("OK", <<Head(path), Tail(path)>>)

SrSource(r, key) == r.registry.sources[key]
SrExists(r, key) == key \in DOMAIN r.registry.sources
SrPut(r, key, s) == [r EXCEPT !.registry.sources[key] = s]

turbo_media_server_runtime_get_or_create_source(r, key) ==
  LET got == turbo_media_registry_get_or_create(r.registry, key)
  IN  MsResult(got.rc, [r EXCEPT !.registry = got.s])

turbo_media_server_runtime_remove_source(r, key) ==
  IF SrExists(r, key)
  THEN [r EXCEPT !.registry = turbo_media_registry_remove(@, key),
                 !.subscriptions_removed = @ + Len(SrSource(r, key).subscribers)]
  ELSE r

turbo_media_server_runtime_add_track(r, key, t) ==
  LET got   == turbo_media_server_runtime_get_or_create_source(r, key)
      added == turbo_media_source_add_track(SrSource(got.s, key), t)
  IN  IF got.rc # "OK" THEN got ELSE MsResult(added.rc, SrPut(got.s, key, added.s))

(* The tracks up to the first that is refused stay. *)
turbo_media_server_session_add_tracks(r, key, tracks) ==
  FoldLeft(LAMBDA acc, t : IF acc.rc # "OK" THEN acc
                           ELSE turbo_media_server_runtime_add_track(acc.s, key, t),
           MsResult("OK", r), tracks)

turbo_media_server_runtime_subscribe(r, key, whom, replay, fail) ==
  LET got == turbo_media_source_subscribe(SrSource(r, key), whom, replay, fail)
  IN  IF ~SrExists(r, key) THEN [rc |-> "NOT_FOUND", s |-> r, id |-> <<0, 0>>, replayed |-> <<>>]
      ELSE [got EXCEPT !.s = [SrPut(r, key, got.s) EXCEPT
                                !.subscriptions_created = @ + (IF got.rc = "OK" THEN 1 ELSE 0)]]

turbo_media_server_runtime_unsubscribe(r, key, id) ==
  LET got == turbo_media_source_unsubscribe(SrSource(r, key), id)
  IN  IF ~SrExists(r, key) \/ got.rc # "OK" THEN r
      ELSE [SrPut(r, key, got.s) EXCEPT !.subscriptions_removed = @ + 1]

(* turbo_media_server_protocol_session_open for a publisher: a failure      *)
(* leaves behind the source and the tracks it had created.                  *)
SrOpenPublisher(r, key, tracks) ==
  LET got == turbo_media_server_runtime_get_or_create_source(r, key)
  IN  IF got.rc # "OK" THEN got
      ELSE turbo_media_server_session_add_tracks(got.s, key, tracks)

turbo_media_server_protocol_session_close(r, sess) ==
  IF sess.role = "PLAYER"
  THEN turbo_media_server_runtime_unsubscribe(r, sess.key, sess.subscription_id)
  ELSE IF sess.role = "PUBLISHER" /\ sess.remove_source_on_close
  THEN turbo_media_server_runtime_remove_source(r, sess.key)
  ELSE r

turbo_media_server_default_rtmp_tracks ==
  <<[id |-> 0, type |-> "video"], [id |-> 1, type |-> "audio"]>>

-----------------------------------------------------------------------------
(* The steps, for a session p of any protocol.                              *)

(* The log of a source begins with the source. *)
SrLogged(r) == [k \in DOMAIN r.registry.sources |->
                  IF SrExists(sr, k) /\ SrSource(sr, k).subscription_namespace
                                          = SrSource(r, k).subscription_namespace
                  THEN srLog[k] ELSE <<>>]

SrOpenPublish(p, key, tracks, remove) ==
  LET got == SrOpenPublisher(sr, key, tracks)
  IN  /\ srSess[p].role = "none"
      /\ sr' = got.s
      /\ srLog' = SrLogged(got.s)
      /\ srSess' = IF got.rc # "OK" THEN srSess
                   ELSE [srSess EXCEPT ![p] = [SrClosed EXCEPT !.role = "PUBLISHER", !.key = key,
                                                 !.remove_source_on_close = remove]]
      /\ UNCHANGED srGot

SrOpenPlay(p, key, replay, fail) ==
  LET got == turbo_media_server_runtime_subscribe(sr, key, p, replay, fail)
  IN  /\ srSess[p].role = "none"
      /\ sr' = got.s
      /\ srSess' = IF got.rc # "OK" THEN srSess
                   ELSE [srSess EXCEPT ![p] = [SrClosed EXCEPT !.role = "PLAYER", !.key = key,
                                                               !.subscription_id = got.id]]
      /\ srGot' = [srGot EXCEPT ![p] = [i \in DOMAIN got.replayed |-> got.replayed[i].n]]
      /\ UNCHANGED srLog

SrClose(p) ==
  LET r == turbo_media_server_protocol_session_close(sr, srSess[p])
  IN  /\ srSess[p].role # "none"
      /\ sr' = r
      /\ srSess' = [srSess EXCEPT ![p] = SrClosed]
      /\ srGot' = [srGot EXCEPT ![p] = <<>>]
      /\ srLog' = SrLogged(r)

SrPlayers == {p \in DOMAIN srSess : srSess[p].role = "PLAYER"}

(* turbo_media_server_protocol_session_publish *)
SrPublish(p, track, iskey, failing) ==
  LET key == srSess[p].key
      src == SrSource(sr, key)
      f   == [n |-> src.frames_published + 1, track |-> track, key |-> iskey]
      got == turbo_media_source_publish(src, f, failing)
  IN  /\ srSess[p].role = "PUBLISHER"
      /\ \/ /\ ~SrExists(sr, key)
            /\ UNCHANGED <<sr, srGot, srLog>>
         \/ /\ SrExists(sr, key)
            /\ src.frames_published < SrMaxFrames
            /\ sr' = SrPut(sr, key, got.s)
            /\ srGot' = [q \in DOMAIN srGot |-> IF q \in got.whom THEN Append(srGot[q], f.n) ELSE srGot[q]]
            /\ srLog' = IF got.rc = "NOT_FOUND" THEN srLog
                        ELSE [srLog EXCEPT ![key] =
                                Append(@, [frame |-> f, video |-> src.has_video_track,
                                           type |-> (CHOOSE t \in Range(src.tracks) : t.id = track).type])]
      /\ UNCHANGED srSess

(* turbo_media_server_runtime_remove_source, called by the embedding program*)
SrRemove(key) ==
  /\ SrExists(sr, key)
  /\ sr' = turbo_media_server_runtime_remove_source(sr, key)
  /\ srLog' = SrLogged(turbo_media_server_runtime_remove_source(sr, key))
  /\ UNCHANGED <<srSess, srGot>>

(* turbo_media_server_runtime_add_track, called by the embedding program *)
SrAddTrack(key, t) ==
  LET got == turbo_media_server_runtime_add_track(sr, key, t)
  IN  /\ sr' = got.s
      /\ srLog' = SrLogged(got.s)
      /\ UNCHANGED <<srSess, srGot>>

-----------------------------------------------------------------------------
(* RTMP sessions *)
SrInit(sessions) ==
  /\ sr = turbo_media_server_runtime_create
  /\ srSess = [p \in sessions |-> SrClosed]
  /\ srGot = [p \in sessions |-> <<>>]
  /\ srLog = <<>>

SrRtmp_open(p, stream) ==
  LET key == turbo_media_server_rtmp_source_key(stream)
  IN  \/ \E remove \in BOOLEAN :
           SrOpenPublish(p, key, turbo_media_server_default_rtmp_tracks, remove)
      \/ \E replay \in BOOLEAN, fail \in 0 .. 1 : SrOpenPlay(p, key, replay, fail)

(* The frames of turbo_media_server_rtmp_publish_video and _audio: track    *)
(* and key frame; audio is never a key frame.                               *)
SrRtmpFrames == {<<0, TRUE>>, <<0, FALSE>>, <<1, FALSE>>}

-----------------------------------------------------------------------------
(* Properties *)

SrKeys == DOMAIN sr.registry.sources

(* What may be cached of a log: everything until there is a video track,    *)
(* and with one everything from its first key frame on.                     *)
SrStarts(log, i) == log[i].type = "video" /\ log[i].frame.key
SrCacheable(log, i) == ~log[i].video \/ \E j \in 1 .. i : SrStarts(log, j)
SrSinceKey(log, i) == \A j \in i + 1 .. Len(log) : ~SrStarts(log, j)

(* The ring replays exactly what it should: the newest cacheable frames     *)
(* since the last video key frame, oldest first, as many as fit, wherever   *)
(* the ring wraps and whenever the video track was added.                   *)
SrReplayWindow ==
  \A k \in SrKeys :
    LET log    == srLog[k]
        window == SelectSeq([i \in DOMAIN log |-> i],
                            LAMBDA i : SrCacheable(log, i) /\ SrSinceKey(log, i))
        newest == SubSeq(window, 1 + Max({0, Len(window) - MsGopCap}), Len(window))
    IN  turbo_media_gop(SrSource(sr, k)) = [i \in DOMAIN newest |-> log[newest[i]].frame]

(* A player is called back with every frame at most once and in the order   *)
(* of publication: the replayed ones first, none of them again live.        *)
SrPlayerOrder ==
  \A p \in DOMAIN srGot : \A i, j \in DOMAIN srGot[p] : i < j => srGot[p][i] < srGot[p][j]

SrSubscribed == UNION {{<<k, x>> : x \in Range(SrSource(sr, k).subscribers)} : k \in SrKeys}

(* Every subscription calls back the one open player session that holds its *)
(* id, also after its source was removed and created again under the same   *)
(* key; no session's closing takes another's subscription; and the counters *)
(* of the runtime account for the subscriptions there are.                  *)
SrSubscribersOwned ==
  /\ \A kx \in SrSubscribed :
       /\ srSess[kx[2].whom].role = "PLAYER"
       /\ srSess[kx[2].whom].key = kx[1]
       /\ srSess[kx[2].whom].subscription_id = kx[2].id
  /\ \A p \in DOMAIN srSess :
       srSess[p].role = "PLAYER" /\ srSess[p].key \in SrKeys
         /\ SrSource(sr, srSess[p].key).subscription_namespace = srSess[p].subscription_id[1]
         => \E kx \in SrSubscribed : kx[2].whom = p
  /\ Cardinality(SrSubscribed) = sr.subscriptions_created - sr.subscriptions_removed

(* What the sessions of turbo_media_server rely on: an exact replay window, *)
(* frames in order, and subscriptions that are their own.                   *)
SrServes == SrReplayWindow /\ SrPlayerOrder /\ SrSubscribersOwned
=============================================================================
