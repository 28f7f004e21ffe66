----------------------------- MODULE CallQueue -----------------------------
(***************************************************************************)
(* The call queue of the room service (turbo_room_service.c) and the        *)
(* handler of the HTTP API that routes the head of the queue into a room    *)
(* (apps/room_service/src/http_api.c).  A queue operation runs under the    *)
(* queue's mutex and is one step; the routing handler makes one such call   *)
(* after another, and other clients' calls come in between.                 *)
(*                                                                          *)
(* A claim is a lease: age tells whether it ran out.  One queue is          *)
(* modelled, queues share nothing but the states of the agents.             *)
(***************************************************************************)
EXTENDS RoomService

CONSTANTS CqEntries,     \* function: entry id -> endpoint, for the callers
  CqAgents,              \* the same for the callees
  CqPriorities, CqRouters,
  CqMaxSequence          \* bound on the number of times anything is queued

VARIABLES cqRouter,   \* the routing handlers: step, claimed match, room
  cqRouted            \* history: for each reply "routed", the match and the room

cqVars == <<cqRouter, cqRouted>>

----------------------------------------------------------------------------
call_center_queue_claim_is_expired(e, leaseZero) == e.state = "claimed" /\ (leaseZero \/ e.expired)


recover_stale_call_center_queue_claims(s, leaseZero) ==
  LET stale == {k \in DOMAIN s.entries : call_center_queue_claim_is_expired(s.entries[k], leaseZero)}
  IN  set_call_center_agent_state(
        [s EXCEPT !.entries = [k \in DOMAIN @ |->
           IF k \in stale THEN [@[k] EXCEPT !.state = "queued", !.expired = FALSE] ELSE @[k]]],
        {s.entries[k].endpoint : k \in {x \in stale : x[1] = "callee"}}, "available")

(* The waiting entries of a side, an agent's only while the agent is free *)
CqWaiting(s, side) ==
  {k \in DOMAIN s.entries : /\ k[1] = side /\ s.entries[k].state = "queued"
                            /\ side = "callee" => s.agents[s.entries[k].endpoint] = "available"}

find_best_call_center_queue_entry(s, side) ==
  LET w == CqWaiting(s, side)
      before(x, y) == \/ s.entries[x].priority > s.entries[y].priority
                      \/ /\ s.entries[x].priority = s.entries[y].priority
                         /\ s.entries[x].sequence <= s.entries[y].sequence
  IN  {x \in w : \A y \in w : before(x, y)}

mark_call_center_queue_entry_state(s, keys, state) ==
  [s EXCEPT !.entries = [k \in DOMAIN @ |->
     IF k \in keys THEN [@[k] EXCEPT !.state = state, !.expired = FALSE] ELSE @[k]]]

compact_call_center_queue_entries(s) ==
  {k \in DOMAIN s.entries : s.entries[k].state \in {"queued", "claimed"}}

enqueue_call_center_queue_entry(s, k, endpoint, priority) ==
  LET fresh == [endpoint |-> endpoint, priority |-> priority, sequence |-> s.sequence + 1,
                state |-> "queued", expired |-> FALSE]
      queue(entries) == RsOk([s EXCEPT !.sequence = @ + 1, !.entries = RsPut(entries, k, fresh)])
  IN  IF k \notin DOMAIN s.entries
      THEN queue(Restrict(s.entries, compact_call_center_queue_entries(s)))
      ELSE CASE s.entries[k].state = "claimed" -> RsFail(s)
             [] s.entries[k].state = "queued" ->
                  RsOk([s EXCEPT !.entries[k].endpoint = endpoint, !.entries[k].priority = priority])
             [] OTHER -> queue(s.entries)

remove_call_center_queue_entry(s, k) ==
  IF k \notin DOMAIN s.entries THEN RsFail(s)
  ELSE IF s.entries[k].state # "queued" THEN RsFail(s)
  ELSE RsOk(mark_call_center_queue_entry_state(s, {k}, "canceled"))

get_call_center_queue_depth(s) == recover_stale_call_center_queue_claims(s, FALSE)

pop_call_center_queue_entry(s, side) ==
  LET t == recover_stale_call_center_queue_claims(s, FALSE)
  IN  mark_call_center_queue_entry_state(t, find_best_call_center_queue_entry(t, side), "canceled")

(* match is the pair of claimed entries, empty when a side is empty *)
claim_call_center_queue_match(s) ==
  LET t == recover_stale_call_center_queue_claims(s, FALSE)
      callers == find_best_call_center_queue_entry(t, "caller")
      callees == find_best_call_center_queue_entry(t, "callee")
      k == CHOOSE x \in callees : TRUE
  IN  IF callers = {} \/ callees = {} THEN [match |-> <<>>, s |-> t]
      ELSE [match |-> <<CHOOSE x \in callers : TRUE, k>>,
            s |-> set_call_center_agent_state(
                    mark_call_center_queue_entry_state(t, callers \union callees, "claimed"),
                    {t.entries[k].endpoint}, "reserved")]

CqClaimed(s, match) ==
  \A i \in {1, 2} : match[i] \in DOMAIN s.entries /\ s.entries[match[i]].state = "claimed"

set_claimed_call_center_queue_match_state(s, match, state) ==
  IF ~CqClaimed(s, match) THEN RsFail(s)
  ELSE RsOk(set_call_center_agent_state(
              mark_call_center_queue_entry_state(s, {match[1], match[2]}, state),
              {s.entries[match[2]].endpoint}, IF state = "routed" THEN "busy" ELSE "available"))

match_call_center_queue(s) ==
  LET c == claim_call_center_queue_match(s)
  IN  IF c.match = <<>> THEN c.s
      ELSE set_claimed_call_center_queue_match_state(c.s, c.match, "routed").s

----------------------------------------------------------------------------
(* route_call_center_queue *)

CqIdle == [pc |-> "idle", match |-> <<>>, ids |-> <<>>, seqs |-> <<>>, room |-> RsNone, created |-> FALSE]

CqSet(i, fields) == cqRouter' = [cqRouter EXCEPT ![i] = fields]

CqRouteClaim(i, room) ==
  /\ cqRouter[i].pc = "idle"
  /\ room \notin DOMAIN rs.rooms
  /\ \E c \in {claim_call_center_queue_match(rs)} :
       /\ rs' = c.s
       /\ IF c.match = <<>> THEN UNCHANGED cqRouter
          ELSE CqSet(i, [pc |-> IF c.s.entries[c.match[1]].endpoint = c.s.entries[c.match[2]].endpoint
                               THEN "rollback" ELSE "create",
                         match |-> c.match, room |-> room, created |-> FALSE,
                         ids |-> <<c.s.entries[c.match[1]].endpoint, c.s.entries[c.match[2]].endpoint>>,
                         seqs |-> <<c.s.entries[c.match[1]].sequence, c.s.entries[c.match[2]].sequence>>])
  /\ UNCHANGED cqRouted

(* A call of the handler: on success the next step, on failure the undoing *)
CqRouteCall(i, pc, next, r) ==
  /\ cqRouter[i].pc = pc
  /\ rs' = r.s
  /\ CqSet(i, [cqRouter[i] EXCEPT !.pc = IF r.ok THEN next ELSE "rollback",
                                  !.created = @ \/ (pc = "create" /\ r.ok)])
  /\ UNCHANGED cqRouted

CqRouteBuild(i) ==
  LET h == cqRouter[i]
  IN  \/ CqRouteCall(i, "create", "caller", room_service_create_room(rs, h.room))
      \/ CqRouteCall(i, "caller", "callee", room_service_add_participant(rs, h.room, h.ids[1], "customer"))
      \/ CqRouteCall(i, "callee", "start", room_service_add_participant(rs, h.room, h.ids[2], "agent"))
      \/ CqRouteCall(i, "start", "record", room_service_start_call_center_room(rs, h.room, h.ids[1], h.ids[2]))
      \/ CqRouteCall(i, "record", "complete", room_service_start_recording(rs, h.room))
      \/ CqRouteCall(i, "record", "complete", RsOk(rs))

CqRouteComplete(i) ==
  LET h == cqRouter[i]
      r == set_claimed_call_center_queue_match_state(rs, h.match, "routed")
  IN  /\ h.pc = "complete"
      /\ rs' = r.s
      /\ IF r.ok
         THEN /\ CqSet(i, CqIdle)
              /\ cqRouted' = cqRouted \union {[seqs |-> h.seqs, router |-> i, room |-> h.room]}
         ELSE CqSet(i, [h EXCEPT !.pc = "rollback"]) /\ UNCHANGED cqRouted

CqRouteRollback(i) ==
  CqRouteCall(i, "rollback", "discard",
    RsOk(set_claimed_call_center_queue_match_state(rs, cqRouter[i].match, "queued").s))

(* The handler closes the room it cannot discard. *)
CqRouteDiscard(i) ==
  LET h == cqRouter[i]
      d == room_service_discard_unassigned_room(rs, h.room)
  IN  /\ h.pc = "discard"
      /\ rs' = IF ~h.created THEN rs ELSE IF d.ok THEN d.s ELSE room_service_close_room(rs, h.room).s
      /\ CqSet(i, CqIdle) /\ UNCHANGED cqRouted

----------------------------------------------------------------------------
CqInit ==
  /\ rs = room_service_create /\ rsMode = RsNothing
  /\ cqRouter = [i \in CqRouters |-> CqIdle] /\ cqRouted = {}

CqKeys == ({"caller"} \X DOMAIN CqEntries) \union ({"callee"} \X DOMAIN CqAgents)
CqEndpoint(k) == IF k[1] = "caller" THEN CqEntries[k[2]] ELSE CqAgents[k[2]]

CqQueueCall(s) == rs' = s /\ UNCHANGED <<rsMode, cqVars>>

CqEnqueue(k) ==
  /\ rs.sequence < CqMaxSequence
  /\ \E p \in CqPriorities : CqQueueCall(enqueue_call_center_queue_entry(rs, k, CqEndpoint(k), p).s)
CqRemove(k) == CqQueueCall(remove_call_center_queue_entry(rs, k).s)
CqPop == \E side \in {"caller", "callee"} : CqQueueCall(pop_call_center_queue_entry(rs, side))
CqLook == CqQueueCall(get_call_center_queue_depth(rs))
CqMatch == CqQueueCall(match_call_center_queue(rs))
CqRecover == CqQueueCall(recover_stale_call_center_queue_claims(rs, TRUE))
CqLease ==
  \E k \in {x \in DOMAIN rs.entries : rs.entries[x].state = "claimed"} :
    CqQueueCall([rs EXCEPT !.entries[k].expired = TRUE])
CqAgentState ==
  \E a \in Range(CqAgents), state \in {"available", "offline"} :
    CqQueueCall(set_call_center_agent_state(rs, {a}, state))

(* Once a call is routed its room may be closed. *)
CqHangUp == \E d \in cqRouted : CqQueueCall(room_service_close_room(rs, d.room).s)

CqRoute(i) ==
  /\ \/ \E room \in RsRooms : CqRouteClaim(i, room)
     \/ CqRouteBuild(i) \/ CqRouteComplete(i) \/ CqRouteRollback(i) \/ CqRouteDiscard(i)
  /\ UNCHANGED rsMode

CqNext ==
  \/ \E k \in CqKeys : CqEnqueue(k) \/ CqRemove(k)
  \/ CqPop \/ CqLook \/ CqMatch \/ CqRecover \/ CqLease \/ CqAgentState \/ CqHangUp
  \/ \E i \in CqRouters : CqRoute(i)

CqSpec == CqInit /\ [][CqNext]_<<rsVars, cqVars>>

----------------------------------------------------------------------------

=============================================================================
