----------------------------- MODULE Revocation -----------------------------
(***************************************************************************)
(* Revocation of tokens (webrtc/src/auth): every signalling and SFU node    *)
(* keeps a bounded list of revoked digests with the version it belongs to   *)
(* (turbo_media_revocation.c); a distributor brings the list of the control *)
(* plane to all nodes, by one event for a node that is at the version       *)
(* before and by a whole snapshot for any other                             *)
(* (turbo_media_revocation_fanout.c), over HTTPS requests that may fail,    *)
(* come late or lose their answer (turbo_media_revocation_https.c).         *)
(*                                                                          *)
(* A version is the pair of epoch and sequence; a digest is a model value.  *)
(* The control plane is external: it gives every version one list.          *)
(***************************************************************************)
EXTENDS Integers, Sequences, FiniteSets

CONSTANTS
  RvTargets,     \* how many nodes the distributor serves
  RvDigests,     \* digests of tokens
  RvMaxEntries,  \* max_entries of a node
  RvMaxAttempts, \* max_attempts of the distributor
  RvMaxEpoch,    \* bound: epochs of the control plane
  RvMaxSequence, \* bound: sequence numbers of an epoch
  RvMaxVersions, \* bound: versions of a run
  RvMaxLate,     \* bound: requests under way that nobody waits for
  RvMaxRestarts  \* bound: restarts of nodes

ASSUME RvConstants ==
  /\ {RvTargets, RvMaxEntries, RvMaxAttempts, RvMaxEpoch, RvMaxVersions} \subseteq Nat \ {0}
  /\ {RvMaxSequence, RvMaxLate, RvMaxRestarts} \subseteq Nat

VARIABLES
  rvNode,     \* turbo_media_revocation_state_t of every node
  rvFan,      \* turbo_media_revocation_fanout_t: canonical version and what each node acknowledged
  rvOp,       \* the publication under way
  rvLate,     \* requests whose sender gave up and that may still come
  rvLists,    \* the list of every version the control plane has given out
  rvUnseen,   \* nodes that restarted after their last acknowledgement
  rvRestarts

rvVars == <<rvNode, rvFan, rvOp, rvLate, rvLists, rvUnseen, rvRestarts>>

RvNodes == 1 .. RvTargets
RvZero == <<0, 0>>
RvVersions == (1 .. RvMaxEpoch) \X (0 .. RvMaxSequence)

version_less(v, w) == v[1] < w[1] \/ (v[1] = w[1] /\ v[2] < w[2])
RvCurrent == CHOOSE v \in DOMAIN rvLists : \A w \in DOMAIN rvLists : ~version_less(v, w)
RvResult(code, s) == [code |-> code, s |-> s]

----------------------------------------------------------------------------
(* A node. *)

revocation_state_create ==
  [v |-> RvZero, required |-> RvZero, synchronized |-> FALSE, digests |-> {}]

(* The node has no list until a snapshot comes that covers v. *)
revocation_require_snapshot(s, v) ==
  [s EXCEPT !.synchronized = FALSE,
            !.required = IF @ = RvZero \/ version_less(@, v) THEN v ELSE @]

RvSnapshotStale(s, v) ==
  IF s.synchronized THEN ~version_less(s.v, v) ELSE version_less(v, s.required)

(* usable: the digests parse and memory can be had. *)
revocation_apply_snapshot(s, v, list, usable) ==
  IF RvSnapshotStale(s, v) THEN RvResult("stale", s)
  ELSE IF Cardinality(list) > RvMaxEntries
       THEN RvResult("limit", revocation_require_snapshot(s, v))
  ELSE IF ~usable THEN RvResult("error", revocation_require_snapshot(s, v))
  ELSE RvResult("applied", [v |-> v, required |-> RvZero, synchronized |-> TRUE, digests |-> list])

(* Mutant: an event that skips a sequence number is applied. *)
RvExactNext_later(s, v) == v[1] = s.v[1]
RvExactNext(s, v) == v[1] = s.v[1] /\ v[2] = s.v[2] + 1

revocation_apply_revoke(s, v, d) ==
  IF ~s.synchronized THEN RvResult("gap", revocation_require_snapshot(s, v))
  ELSE IF ~version_less(s.v, v) THEN RvResult("stale", s)
  ELSE IF ~RvExactNext(s, v) THEN RvResult("gap", revocation_require_snapshot(s, v))
  ELSE IF d \notin s.digests /\ Cardinality(s.digests) >= RvMaxEntries
       THEN RvResult("limit", revocation_require_snapshot(s, v))
  ELSE RvResult("applied", [s EXCEPT !.v = v, !.digests = @ \union {d}])

revocation_check_digest(s, d) ==
  IF ~s.synchronized THEN "unknown" ELSE IF d \in s.digests THEN "revoked" ELSE "clear"

(* What a node does with a request. *)
RvApply(s, req, usable) ==
  IF req.event THEN revocation_apply_revoke(s, req.v, CHOOSE d \in req.list : TRUE)
  ELSE revocation_apply_snapshot(s, req.v, req.list, usable)

----------------------------------------------------------------------------
(* The distributor. *)

RvNoVersion == RvZero   \* canonical_initialized is 0
RvIdle == [event |-> FALSE, v |-> RvZero, prev |-> RvZero, digest |-> {}, list |-> {},
           node |-> 0, sends |-> "none", attempt |-> 0, result |-> "none"]

revocation_fanout_create ==
  [canonical |-> RvNoVersion, target |-> [n \in RvNodes |-> [state |-> "unknown", v |-> RvZero]]]

RvBelieved(target) == target.state \in {"synchronized", "recovered"}

(* Which request goes to the node first. *)
event_ready(target, op) == op.event /\ RvBelieved(target) /\ target.v = op.prev

(* The publication at its next node, or over. *)
RvGoTo(op, n, fan) ==
  IF n > RvTargets THEN RvIdle
  ELSE [op EXCEPT !.node = n, !.attempt = 1, !.result = "none",
                  !.sends = IF event_ready(fan.target[n], op) THEN "revoke" ELSE "snapshot"]

(* The request of the present attempt. *)
RvRequest(op) ==
  [node |-> op.node, event |-> op.sends = "revoke", v |-> op.v,
   list |-> IF op.sends = "revoke" THEN op.digest ELSE op.list]

response_covers(s, v) == s.synchronized /\ ~version_less(s.v, v)

RvSucceeds(op, s) == op.result \in {"applied", "stale"} /\ response_covers(s, op.v)

(* An attempt succeeds; the node's version is the one it answers. *)
target_mark_synchronized(fan, op, v) ==
  [fan EXCEPT !.target[op.node] =
    [state |-> IF op.event /\ op.sends = "snapshot" THEN "recovered" ELSE "synchronized", v |-> v]]

target_mark_failed(fan, op) == [fan EXCEPT !.target[op.node].state = "failed"]

(* An attempt fails: another one, or the snapshot after the event, or the  *)
(* next node.                                                               *)
RvFails(retryable) ==
  \/ /\ retryable /\ rvOp.attempt < RvMaxAttempts
     /\ rvOp' = [rvOp EXCEPT !.attempt = @ + 1, !.result = "none"]
     /\ UNCHANGED rvFan
  \/ /\ ~(retryable /\ rvOp.attempt < RvMaxAttempts) /\ rvOp.sends = "revoke"
     /\ rvOp' = [rvOp EXCEPT !.attempt = 1, !.result = "none", !.sends = "snapshot"]
     /\ UNCHANGED rvFan
  \/ /\ ~(retryable /\ rvOp.attempt < RvMaxAttempts) /\ rvOp.sends = "snapshot"
     /\ rvFan' = target_mark_failed(rvFan, rvOp)
     /\ rvOp' = RvGoTo(rvOp, rvOp.node + 1, rvFan)

----------------------------------------------------------------------------
RvInit ==
  /\ rvNode = [n \in RvNodes |-> revocation_state_create]
  /\ rvFan = revocation_fanout_create
  /\ rvOp = RvIdle
  /\ rvLate = {}
  /\ rvLists = [v \in {<<1, 0>>} |-> {}]
  /\ rvUnseen = {}
  /\ rvRestarts = 0

RvNewVersion(v, list) == [w \in DOMAIN rvLists \union {v} |-> IF w = v THEN list ELSE rvLists[w]]
RvNextSequence == <<RvCurrent[1], RvCurrent[2] + 1>>

(* turbo_media_revocation_fanout_publish_snapshot: at the present version,  *)
(* to reconcile, or at a new one with any list.                             *)
revocation_fanout_publish_snapshot(v, list) ==
  /\ rvOp = RvIdle
  /\ \/ v = RvCurrent /\ list = rvLists[v] /\ UNCHANGED rvLists
     \/ /\ Cardinality(DOMAIN rvLists) < RvMaxVersions
        /\ v \in {RvNextSequence, <<RvCurrent[1] + 1, 0>>} \intersect RvVersions
        /\ rvLists' = RvNewVersion(v, list)
  /\ ~version_less(v, rvFan.canonical)
  /\ rvFan' = [rvFan EXCEPT !.canonical = v]
  /\ rvOp' = RvGoTo([RvIdle EXCEPT !.v = v, !.list = list], 1, rvFan)
  /\ UNCHANGED <<rvNode, rvLate, rvUnseen, rvRestarts>>

(* turbo_media_revocation_fanout_publish_revoke: the next version, the      *)
(* digest and a covering snapshot that has it.                              *)
revocation_fanout_publish_revoke(d) ==
  /\ rvOp = RvIdle /\ rvFan.canonical # RvNoVersion
  /\ RvNextSequence \in RvVersions /\ Cardinality(DOMAIN rvLists) < RvMaxVersions
  /\ RvNextSequence = <<rvFan.canonical[1], rvFan.canonical[2] + 1>>
  /\ LET list == rvLists[RvCurrent] \union {d}
     IN  /\ rvLists' = RvNewVersion(RvNextSequence, list)
         /\ rvFan' = [rvFan EXCEPT !.canonical = RvNextSequence]
         /\ rvOp' = RvGoTo([RvIdle EXCEPT !.event = TRUE, !.v = RvNextSequence, !.digest = {d},
                                          !.prev = rvFan.canonical, !.list = list], 1, rvFan)
  /\ UNCHANGED <<rvNode, rvLate, rvUnseen, rvRestarts>>

(* The request comes to the node in time and is applied; the node reads its *)
(* status for the answer in a later step.                                   *)
RvArrives(usable) ==
  /\ rvOp # RvIdle /\ rvOp.result = "none"
  /\ \E r \in {RvApply(rvNode[rvOp.node], RvRequest(rvOp), usable)} :
       /\ rvNode' = [rvNode EXCEPT ![rvOp.node] = r.s]
       /\ rvOp' = [rvOp EXCEPT !.result = r.code]
  /\ UNCHANGED <<rvFan, rvLate, rvLists, rvUnseen, rvRestarts>>

(* The answer with the status comes back to send_snapshot_bounded or        *)
(* send_revoke_bounded.                                                     *)
RvAnswered ==
  /\ rvOp.result # "none"
  /\ LET s == rvNode[rvOp.node]
     IN  \/ /\ RvSucceeds(rvOp, s)
            /\ \E fan \in {target_mark_synchronized(rvFan, rvOp, s.v)} :
                 rvFan' = fan /\ rvOp' = RvGoTo(rvOp, rvOp.node + 1, fan)
            /\ rvUnseen' = rvUnseen \ {rvOp.node}
         \/ ~RvSucceeds(rvOp, s) /\ RvFails(FALSE) /\ UNCHANGED rvUnseen
  /\ UNCHANGED <<rvNode, rvLate, rvLists, rvRestarts>>

(* The answer is lost or the connection cannot be closed in order: the      *)
(* attempt counts as retryable.                                             *)
RvAnswerLost ==
  /\ rvOp.result # "none"
  /\ RvFails(TRUE)
  /\ UNCHANGED <<rvNode, rvLate, rvLists, rvUnseen, rvRestarts>>

(* The node cannot be reached or refuses (no token, 4xx: not retryable).    *)
RvRefused(retryable) ==
  /\ rvOp # RvIdle /\ rvOp.result = "none"
  /\ RvFails(retryable)
  /\ UNCHANGED <<rvNode, rvLate, rvLists, rvUnseen, rvRestarts>>

(* The sender's time is over while the request is still under way.          *)
RvTimeout ==
  /\ rvOp # RvIdle /\ rvOp.result = "none"
  /\ Cardinality(rvLate) < RvMaxLate
  /\ rvLate' = rvLate \union {RvRequest(rvOp)}
  /\ RvFails(TRUE)
  /\ UNCHANGED <<rvNode, rvLists, rvUnseen, rvRestarts>>

RvArrivesLate(req, usable) ==
  /\ req \in rvLate
  /\ rvNode' = [rvNode EXCEPT ![req.node] = RvApply(@, req, usable).s]
  /\ rvLate' = rvLate \ {req}
  /\ UNCHANGED <<rvFan, rvOp, rvLists, rvUnseen, rvRestarts>>

(* A node starts again with an empty projection; the answer to a request it *)
(* was working on is lost before.                                           *)
RvRestart(n) ==
  /\ rvRestarts < RvMaxRestarts
  /\ rvOp.node = n => rvOp.result = "none"
  /\ rvNode' = [rvNode EXCEPT ![n] = revocation_state_create]
  /\ rvUnseen' = rvUnseen \union {n}
  /\ rvRestarts' = rvRestarts + 1
  /\ UNCHANGED <<rvFan, rvOp, rvLate, rvLists>>

(* room_service: the membership changed, the distributor is built anew. *)
room_service_rebuild_revocation_fanout ==
  /\ rvOp = RvIdle /\ rvFan # revocation_fanout_create
  /\ rvFan' = revocation_fanout_create
  /\ UNCHANGED <<rvNode, rvOp, rvLate, rvLists, rvUnseen, rvRestarts>>

RvNext ==
  \/ \E v \in RvVersions, list \in SUBSET RvDigests : revocation_fanout_publish_snapshot(v, list)
  \/ \E d \in RvDigests : revocation_fanout_publish_revoke(d)
  \/ \E usable \in BOOLEAN : RvArrives(usable)
  \/ RvAnswered
  \/ RvAnswerLost
  \/ \E retryable \in BOOLEAN : RvRefused(retryable)
  \/ RvTimeout
  \/ \E req \in rvLate, usable \in BOOLEAN : RvArrivesLate(req, usable)
  \/ \E n \in RvNodes : RvRestart(n)
  \/ room_service_rebuild_revocation_fanout

RvSpec == RvInit /\ [][RvNext]_rvVars

----------------------------------------------------------------------------
(* A node that answers for a token at all answers as the control plane's    *)
(* list of the node's version says, whatever requests came late, twice, in  *)
(* another order, or were too large (turbo_media_revocation_check_digest).  *)
RvExact ==
  \A n \in RvNodes, d \in RvDigests :
    LET s == rvNode[n]
        c == revocation_check_digest(s, d)
    IN  c # "unknown" =>
          s.v \in DOMAIN rvLists /\ c = IF d \in rvLists[s.v] THEN "revoked" ELSE "clear"

(* A node that the distributor's report counts as synchronized has          *)
(* acknowledged the canonical version; unless it has restarted since, it is *)
(* at the acknowledged version or later, and when it has lost its list it   *)
(* refuses everything up to that version.                                   *)
RvAcknowledged ==
  \A n \in RvNodes :
    LET s == rvNode[n]
        t == rvFan.target[n]
    IN  RvBelieved(t) =>
          /\ rvOp = RvIdle \/ rvOp.node > n => ~version_less(t.v, rvFan.canonical)
          /\ n \notin rvUnseen =>
               /\ ~version_less(s.v, t.v)
               /\ s.synchronized \/ version_less(t.v, s.required)

(* Nodes answer by a list the control plane had, and the distributor counts *)
(* as synchronized only nodes that are.                                     *)
RvSound == RvExact /\ RvAcknowledged
=============================================================================
