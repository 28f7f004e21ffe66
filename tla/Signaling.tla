----------------------------- MODULE Signaling -----------------------------
(***************************************************************************)
(* The WebRTC signaling server (webrtc/src/signaling): the connections of   *)
(* peers, the rooms they join, the outbox of each, the messages one peer    *)
(* sends to another, the timeouts of the cleanup thread, and the admission  *)
(* of new connections per source address.  All of it is under one mutex; a  *)
(* handler is one step.  Time and message budgets of peers are left open:   *)
(* a timeout or a refusal may come at any moment.                           *)
(***************************************************************************)
EXTENDS Naturals, Sequences, FiniteSets, Functions, FiniteSetsExt, SequencesExt

CONSTANTS SgConnections, SgRooms,
  SgIds,            \* identities a token may carry (jwt_enabled)
  SgMaxPeers, SgMaxRooms, SgMaxOutbox,
  SgSources, SgMaxStates, SgMaxPerSource, SgBurst, SgTtl,
  SgMaxPending      \* requests admitted whose connection is not open yet

VARIABLES sg,       \* [running, peers: connection -> peer, ids: the hash map of peers]
  sgSource          \* [states: source -> state, inactive: their list, pending: source -> count]

sgVars == <<sg, sgSource>>
SgNone == "none"
SgNothing == [k \in {} |-> 0]
SgPut(fun, k, v) == [x \in DOMAIN fun \union {k} |-> IF x = k THEN v ELSE fun[x]]

----------------------------------------------------------------------------
(* Messages: the client's view of its room is what the sent ones told it *)

SgSeen(view, m) == CASE m.t = "peers" -> m.ids
                     [] m.t = "peer-joined" -> view \union m.ids
                     [] m.t = "peer-left" -> view \ m.ids
                     [] OTHER -> view
SgPeer(id) == [id |-> id, bound |-> FALSE, room |-> SgNone, closing |-> FALSE,
               outbox |-> <<>>, wire |-> "ok", view |-> {}]

SgMembers(s, room) == {c \in DOMAIN s.peers : s.peers[c].room = room}
SgIdsOf(s, room) == {s.peers[c].id : c \in SgMembers(s, room)}
SgRoomsOf(s) == {s.peers[c].room : c \in DOMAIN s.peers} \ {SgNone}

flush_peer_outbox(p) ==
  CASE p.outbox = <<>> \/ p.wire = "full" -> p
    [] p.wire = "broken" -> [p EXCEPT !.closing = TRUE]
    [] OTHER -> [p EXCEPT !.outbox = <<>>, !.view = FoldLeft(SgSeen, @, p.outbox)]

close_peer(p) == [p EXCEPT !.closing = TRUE]

send_json_message(p, m) ==
  CASE p.closing -> p
    [] Len(p.outbox) >= SgMaxOutbox -> close_peer(p)
    [] OTHER -> flush_peer_outbox([p EXCEPT !.outbox = Append(@, m)])

SgOther == [t |-> "message", ids |-> {}]
SgSend(s, c, m) == [s EXCEPT !.peers[c] = send_json_message(@, m)]

broadcast(s, room, from, m) ==
  [s EXCEPT !.peers = [c \in DOMAIN @ |->
     IF @[c].room = room /\ @[c].id # from THEN send_json_message(@[c], m) ELSE @[c]]]

----------------------------------------------------------------------------
(* Peers *)

SgOpened(s, c) == [s EXCEPT !.peers = SgPut(@, c, SgPeer(c)), !.ids = SgPut(@, c, c)]

remove_peer(s, c) ==
  [s EXCEPT !.ids = Restrict(@, DOMAIN @ \ {s.peers[c].id}), !.peers = Restrict(@, DOMAIN @ \ {c})]

remove_peer_and_notify(s, c) ==
  LET p == s.peers[c]
  IN  remove_peer(IF p.room = SgNone THEN s
                  ELSE broadcast(s, p.room, p.id, [t |-> "peer-left", ids |-> {p.id}]), c)

(* An identity belongs to one connection; once bound it does not change. *)
bind_peer_identity(s, c, id) ==
  LET p == s.peers[c]
  IN  IF p.bound THEN [ok |-> p.id = id, s |-> s]
      ELSE IF id \in DOMAIN s.ids /\ s.ids[id] # c THEN [ok |-> FALSE, s |-> s]
      ELSE [ok |-> TRUE,
            s |-> [s EXCEPT !.peers[c].id = id, !.peers[c].bound = TRUE,
                            !.ids = SgPut(Restrict(@, DOMAIN @ \ {p.id}), id, c)]]

(* Mutant: the members of the room are not told of the new one. *)
SgWelcome_silent(s, c, room) ==
  SgSend(SgSend(s, c, SgOther), c, [t |-> "peers", ids |-> SgIdsOf(s, room)])
(* The answer, the list of the room, and the notice to the others *)
SgWelcome(s, c, room) ==
  broadcast(SgSend(SgSend(s, c, SgOther), c, [t |-> "peers", ids |-> SgIdsOf(s, room)]),
            room, s.peers[c].id, [t |-> "peer-joined", ids |-> {s.peers[c].id}])

(* A peer leaves its old room before the new one is found to be one too     *)
(* many, and the old room is not told.                                      *)
handle_join_message(s0, c, room, id) ==
  LET b == bind_peer_identity(s0, c, id)
      s == b.s
      p == s.peers[c]
      left == [s EXCEPT !.peers[c].room = SgNone]
      inside == p.room = room
  IN  IF ~b.ok THEN [SgSend(s, c, SgOther) EXCEPT !.peers[c] = close_peer(@)]
      ELSE IF inside THEN SgWelcome(s, c, room)
      ELSE IF room \in SgRoomsOf(s)
      THEN IF Cardinality(SgMembers(s, room)) >= SgMaxPeers THEN SgSend(s, c, SgOther)
           ELSE SgWelcome([left EXCEPT !.peers[c].room = room], c, room)
      ELSE IF Cardinality(SgRoomsOf(left)) >= SgMaxRooms THEN SgSend(left, c, SgOther)
      ELSE SgWelcome([left EXCEPT !.peers[c].room = room], c, room)

find_routable_peer(s, c, to) ==
  to \in DOMAIN s.ids /\ s.peers[c].room # SgNone /\ s.peers[s.ids[to]].room = s.peers[c].room

(* Offer, answer, candidate and end of candidates take the same way. *)
handle_offer_message(s, c, to) ==
  SgSend(s, IF find_routable_peer(s, c, to) THEN s.ids[to] ELSE c, SgOther)

handle_list_peers_message(s, c) ==
  IF s.peers[c].room = SgNone THEN s ELSE SgSend(s, c, [t |-> "peers", ids |-> SgIdsOf(s, s.peers[c].room)])

----------------------------------------------------------------------------
(* Admission of sources *)

SgState(active, age, tokens) == [active |-> active, age |-> age, tokens |-> tokens]
unlink_inactive_source(z, k) == [z EXCEPT !.inactive = SelectSeq(@, LAMBDA x : x # k)]
link_inactive_source(z, k) ==
  [unlink_inactive_source(z, k) EXCEPT !.inactive = Append(@, k), !.states[k].age = 0]

SgAlive(z, k) == z.states[k].age < SgTtl
expire_source_states(z) ==
  LET stay == {i \in 1 .. Len(z.inactive) : SgAlive(z, z.inactive[i])}
      kept == IF stay = {} THEN <<>> ELSE SubSeq(z.inactive, Min(stay), Len(z.inactive))
      gone == ToSet(z.inactive) \ ToSet(kept)
  IN  [z EXCEPT !.inactive = kept, !.states = Restrict(@, DOMAIN @ \ gone)]

source_state_get_or_create(z, k) ==
  IF k \in DOMAIN z.states THEN z
  ELSE LET e == expire_source_states(z)
       IN  IF Cardinality(DOMAIN e.states) >= SgMaxStates THEN e
           ELSE [e EXCEPT !.states = SgPut(@, k, SgState(0, 0, SgBurst))]

(* A request is counted, its connection not yet. *)
pre_admit_source(z0, k) ==
  LET z == source_state_get_or_create(z0, k)
      seen == [z EXCEPT !.states[k].age = 0]
      Linked(y) == IF y.states[k].active = 0 THEN link_inactive_source(y, k) ELSE y
      taken == [seen EXCEPT !.states[k].tokens = @ - 1]
  IN  IF k \notin DOMAIN z.states THEN [ok |-> FALSE, z |-> z]
      ELSE IF z.states[k].tokens = 0 THEN [ok |-> FALSE, z |-> Linked(seen)]
      ELSE IF z.states[k].active >= SgMaxPerSource THEN [ok |-> FALSE, z |-> taken]
      ELSE [ok |-> TRUE, z |-> Linked(taken)]

bind_source_connection(z, k) ==
  IF k \notin DOMAIN z.states THEN z
  ELSE IF z.states[k].active >= SgMaxPerSource THEN z
  ELSE [unlink_inactive_source(z, k) EXCEPT !.states[k].active = @ + 1, !.states[k].age = 0]

release_source_key(z, k) ==
  LET less == [z EXCEPT !.states[k].active = @ - 1, !.states[k].age = 0]
  IN  IF k \notin DOMAIN z.states THEN z
      ELSE IF z.states[k].active = 0 THEN z
      ELSE IF less.states[k].active = 0 THEN link_inactive_source(less, k) ELSE less

(* consume_token_bucket refills by the time that went by: in a while one     *)
(* token more, or not yet                                                    *)
SgAged(z, more) ==
  [z EXCEPT !.states = [k \in DOMAIN @ |->
     SgState(@[k].active, IF @[k].age < SgTtl THEN @[k].age + 1 ELSE SgTtl,
             IF @[k].tokens < SgBurst THEN @[k].tokens + more ELSE SgBurst)]]

----------------------------------------------------------------------------
SgInit ==
  /\ sg = [running |-> TRUE, peers |-> SgNothing, ids |-> SgNothing]
  /\ sgSource = [states |-> SgNothing, inactive |-> <<>>, pending |-> [k \in SgSources |-> 0]]

(* signaling_websocket_open and the CLOSE event *)
SgOpen(c) == sg.running /\ c \notin DOMAIN sg.peers /\ sg' = SgOpened(sg, c)
SgClosed(c) == c \in DOMAIN sg.peers /\ sg' = remove_peer_and_notify(sg, c)

(* handle_message: a peer that is being closed is not listened to *)
SgMessage(c, after) == c \in DOMAIN sg.peers /\ ~sg.peers[c].closing /\ sg' = after
SgJoin(c) == \E room \in SgRooms, id \in SgIds : SgMessage(c, handle_join_message(sg, c, room, id))
SgTalk(c) ==
  /\ c \in DOMAIN sg.peers /\ sg.peers[c].bound
  /\ \/ \E to \in SgIds : SgMessage(c, handle_offer_message(sg, c, to))
     \/ SgMessage(c, handle_list_peers_message(sg, c))
(* Over the budget, no identity yet, a token that is not good, not a text *)
SgRefuse(c) == SgMessage(c, [SgSend(sg, c, SgOther) EXCEPT !.peers[c] = close_peer(@)])
SgKick(c) == c \in DOMAIN sg.peers /\ sg.peers[c].room # SgNone
             /\ sg' = [SgSend(sg, c, SgOther) EXCEPT !.peers[c] = close_peer(@)]
SgBroadcast(room) == room \in SgRoomsOf(sg) /\ sg' = broadcast(sg, room, SgNone, SgOther)

(* The connection takes no more for a while, or never again. *)
SgWire(c) == \E w \in {"ok", "full", "broken"} :
  c \in DOMAIN sg.peers /\ sg.peers[c].wire # "broken" /\ sg' = [sg EXCEPT !.peers[c].wire = w]

(* One round of the cleanup thread: the outboxes, then the timeouts *)
SgCleanup == \E late \in SUBSET DOMAIN sg.peers :
  sg' = [sg EXCEPT !.peers = [c \in DOMAIN @ |->
           LET p == IF @[c].closing THEN @[c] ELSE flush_peer_outbox(@[c])
           IN  IF c \in late THEN close_peer(p) ELSE p]]

signaling_stop == sg' = [sg EXCEPT !.running = FALSE, !.peers = [c \in DOMAIN @ |-> close_peer(@[c])]]
signaling_start == ~sg.running /\ sg.peers = SgNothing /\ sg' = [sg EXCEPT !.running = TRUE]

SgPeersNext ==
  \/ SgCleanup \/ signaling_stop \/ signaling_start
  \/ \E c \in SgConnections : SgOpen(c) \/ SgClosed(c) \/ SgJoin(c) \/ SgTalk(c) \/ SgRefuse(c) \/ SgKick(c) \/ SgWire(c)
  \/ \E room \in SgRooms : SgBroadcast(room)

SgAdmit(k) ==
  /\ sgSource.pending[k] < SgMaxPending
  /\ \E r \in {pre_admit_source(sgSource, k)} :
       sgSource' = IF r.ok THEN [r.z EXCEPT !.pending[k] = @ + 1] ELSE r.z
SgBind(k) ==
  /\ sgSource.pending[k] > 0
  /\ sgSource' = bind_source_connection([sgSource EXCEPT !.pending[k] = @ - 1], k)
SgRelease(k) ==
  /\ k \in DOMAIN sgSource.states /\ sgSource.states[k].active > 0
  /\ sgSource' = release_source_key(sgSource, k)
SgExpire == sgSource' = expire_source_states(sgSource)
SgTick == \E more \in 0 .. 1 : sgSource' = SgAged(sgSource, more)

SgSourcesNext == SgExpire \/ SgTick \/ \E k \in SgSources : SgAdmit(k) \/ SgBind(k) \/ SgRelease(k)

SgSpec == SgInit /\ [][(SgPeersNext /\ UNCHANGED sgSource) \/ (SgSourcesNext /\ UNCHANGED sg)]_sgVars

----------------------------------------------------------------------------
(* Through joins, changes of room, kicks, timeouts, outboxes that fill and  *)
(* connections that break: the table of identities is exact, and a member   *)
(* that is still connected knows, once its outbox is through, everybody who *)
(* is in its room.                                                          *)
SgView(p) == FoldLeft(SgSeen, p.view, p.outbox)
SgRoomKnown ==
  /\ sg.ids = [id \in {sg.peers[c].id : c \in DOMAIN sg.peers} |->
                 CHOOSE c \in DOMAIN sg.peers : sg.peers[c].id = id]
  /\ \A c, d \in DOMAIN sg.peers : sg.peers[c].id = sg.peers[d].id => c = d
  /\ \A c \in DOMAIN sg.peers : ~sg.peers[c].closing /\ sg.peers[c].room # SgNone =>
       SgIdsOf(sg, sg.peers[c].room) \subseteq SgView(sg.peers[c])

(* A source without a connection is in the list of inactive ones exactly    *)
(* once, the longest unseen first, so that it is forgotten in time and the  *)
(* table never stays full; no source has more connections than it may.     *)
SgSourcesExact ==
  LET z == sgSource
  IN  /\ ToSet(z.inactive) = {k \in DOMAIN z.states : z.states[k].active = 0}
      /\ Len(z.inactive) = Cardinality(ToSet(z.inactive))
      /\ \A i \in 1 .. Len(z.inactive) - 1 : z.states[z.inactive[i]].age >= z.states[z.inactive[i + 1]].age
      /\ Cardinality(DOMAIN z.states) <= SgMaxStates
      /\ \A k \in DOMAIN z.states : z.states[k].active <= SgMaxPerSource

(* The tables of the signaling server, of peers and of sources, are exact. *)
SgSound == SgRoomKnown /\ SgSourcesExact
=============================================================================
