---------------------------- MODULE TenantQuota ----------------------------
(***************************************************************************)
(* The tenant quota of a node (webrtc/src/security/turbo_media_tenant_      *)
(* quota.c): the leases of the tenants at the version of the control plane  *)
(* and what the tenants have reserved of them.  A tenant that loses its     *)
(* lease keeps its slot until it has released everything.                   *)
(*                                                                          *)
(* The five resources of a lease are alike; one stands for them.  The       *)
(* control plane is external: it gives every version one set of leases, and *)
(* its messages may be lost, repeated or come in any order.                 *)
(***************************************************************************)
EXTENDS Integers, FiniteSets, Functions

CONSTANTS
  TqTenants,
  TqMaxTenants,  \* max_tenants: the slots of the node
  TqMaxLimit,    \* bound: limits of leases
  TqMaxEpoch,    \* bound: epochs of the control plane
  TqMaxSequence, \* bound: sequence numbers of an epoch
  TqMaxVersions, \* bound: versions of a run
  TqMaxTime,     \* bound: ticks of the clock
  TqMaxRestarts  \* bound: restarts of the node

ASSUME TqConstants ==
  /\ {TqMaxTenants, TqMaxEpoch, TqMaxVersions} \subseteq Nat \ {0}
  /\ {TqMaxLimit, TqMaxSequence, TqMaxTime, TqMaxRestarts} \subseteq Nat

VARIABLES
  tq,        \* turbo_media_tenant_quota_projection_t
  tqIssued,  \* every version of the control plane: its leases and the tenant its update is for
  tqHeld,    \* what each tenant holds on the node
  tqNow, tqRestarts

tqVars == <<tq, tqIssued, tqHeld, tqNow, tqRestarts>>

TqZero == <<0, 0>>
TqLease == [limit : 0 .. TqMaxLimit, expires : 1 .. TqMaxTime]
TqNoLease == [limit |-> 0, expires |-> 0]
TqEvery == "all"   \* the version has a snapshot only

quota_version_less(v, w) == v[1] < w[1] \/ (v[1] = w[1] /\ v[2] < w[2])

(* A slot: expires = 0 stands for has_lease = 0. *)
tenant_quota_projection_create ==
  [v |-> TqZero, required |-> TqZero, synchronized |-> FALSE, slots |-> [t \in {} |-> 0]]

quota_require_snapshot(p, v) ==
  [p EXCEPT !.synchronized = FALSE,
            !.required = IF quota_version_less(@, v) THEN v ELSE @]

TqUsed(p, t) == IF t \in DOMAIN p.slots THEN p.slots[t].used ELSE 0
TqHasLease(slot) == slot.lease # TqNoLease

(* Mutant: tenants without a lease in the snapshot are forgotten. *)
TqRetained_none(p, leases) == {}
TqRetained(p, leases) == {t \in DOMAIN p.slots \ DOMAIN leases : p.slots[t].used # 0}

TqStale(p, v) ==
  IF p.synchronized THEN ~quota_version_less(p.v, v) ELSE quota_version_less(v, p.required)

(* usable: the leases are for this node and have an expiry, and memory can  *)
(* be had.                                                                  *)
tenant_quota_apply_snapshot(p, v, leases, usable) ==
  IF TqStale(p, v) THEN p
  ELSE IF \/ ~usable
          \/ Cardinality(DOMAIN leases \union TqRetained(p, leases)) > TqMaxTenants
       THEN quota_require_snapshot(p, v)
  ELSE [v |-> v, required |-> TqZero, synchronized |-> TRUE,
        slots |-> [t \in DOMAIN leases \union TqRetained(p, leases) |->
                    [lease |-> IF t \in DOMAIN leases THEN leases[t] ELSE TqNoLease,
                     used |-> TqUsed(p, t)]]]

(* The slots with one for t: its own, a free one, or one that neither has   *)
(* a lease nor is used.                                                     *)
TqIdle(p) == {t \in DOMAIN p.slots : ~TqHasLease(p.slots[t]) /\ p.slots[t].used = 0}
TqRoom(p, t) ==
  IF t \in DOMAIN p.slots \/ Cardinality(DOMAIN p.slots) < TqMaxTenants THEN {DOMAIN p.slots}
  ELSE {DOMAIN p.slots \ {u} : u \in TqIdle(p)}

tenant_quota_apply_update(p, v, t, lease, usable) ==
  IF ~p.synchronized THEN quota_require_snapshot(p, v)
  ELSE IF ~quota_version_less(p.v, v) THEN p
  ELSE IF \/ v # <<p.v[1], p.v[2] + 1>> \/ ~usable \/ TqRoom(p, t) = {}
       THEN quota_require_snapshot(p, v)
  ELSE LET keep == CHOOSE d \in TqRoom(p, t) : TRUE
       IN  [p EXCEPT !.v = v,
                     !.slots = [u \in keep \union {t} |->
                       IF u = t THEN [lease |-> lease, used |-> TqUsed(p, t)] ELSE p.slots[u]]]

tenant_quota_reserve(p, t, amount, now) ==
  IF ~p.synchronized THEN [code |-> "unknown", p |-> p]
  ELSE IF t \notin DOMAIN p.slots THEN [code |-> "no lease", p |-> p]
  ELSE LET slot == p.slots[t]
       IN  IF ~TqHasLease(slot) THEN [code |-> "no lease", p |-> p]
           ELSE IF now >= slot.lease.expires THEN [code |-> "expired", p |-> p]
           ELSE IF slot.used > slot.lease.limit \/ amount > slot.lease.limit - slot.used
                THEN [code |-> "limit", p |-> p]
           ELSE [code |-> "ok", p |-> [p EXCEPT !.slots[t].used = @ + amount]]

tenant_quota_release(p, t, amount) ==
  IF TqUsed(p, t) < amount THEN [code |-> "error", p |-> p]
  ELSE IF TqUsed(p, t) = amount /\ ~TqHasLease(p.slots[t])
       THEN [code |-> "ok", p |-> [p EXCEPT !.slots = Restrict(@, DOMAIN @ \ {t})]]
  ELSE [code |-> "ok", p |-> [p EXCEPT !.slots[t].used = @ - amount]]

----------------------------------------------------------------------------
TqInit ==
  /\ tq = tenant_quota_projection_create
  /\ tqIssued = [v \in {<<1, 0>>} |-> [leases |-> [t \in {} |-> TqNoLease], for |-> TqEvery]]
  /\ tqHeld = [t \in TqTenants |-> 0]
  /\ tqNow = 0
  /\ tqRestarts = 0

TqCurrent == CHOOSE v \in DOMAIN tqIssued : \A w \in DOMAIN tqIssued : ~quota_version_less(v, w)

TqIssue(v, version) ==
  /\ Cardinality(DOMAIN tqIssued) < TqMaxVersions
  /\ tqIssued' = [w \in DOMAIN tqIssued \union {v} |-> IF w = v THEN version ELSE tqIssued[w]]
  /\ UNCHANGED <<tq, tqHeld, tqNow, tqRestarts>>

(* The control plane gives a tenant another lease. *)
TqIssueUpdate(t, lease) ==
  /\ TqCurrent[2] < TqMaxSequence
  /\ TqIssue(<<TqCurrent[1], TqCurrent[2] + 1>>,
       [leases |-> [u \in DOMAIN tqIssued[TqCurrent].leases \union {t} |->
                      IF u = t THEN lease ELSE tqIssued[TqCurrent].leases[u]],
        for |-> t])

(* The control plane starts an epoch with the leases of some tenants only. *)
TqIssueEpoch(tenants) ==
  /\ TqCurrent[1] < TqMaxEpoch /\ tenants \subseteq DOMAIN tqIssued[TqCurrent].leases
  /\ TqIssue(<<TqCurrent[1] + 1, 0>>,
       [leases |-> Restrict(tqIssued[TqCurrent].leases, tenants), for |-> TqEvery])

(* A message of any version comes, for the first time or again. *)
TqSnapshotComes(v, usable) ==
  /\ tq' = tenant_quota_apply_snapshot(tq, v, tqIssued[v].leases, usable)
  /\ UNCHANGED <<tqIssued, tqHeld, tqNow, tqRestarts>>

TqUpdateComes(v, usable) ==
  /\ tqIssued[v].for # TqEvery
  /\ tq' = tenant_quota_apply_update(tq, v, tqIssued[v].for, tqIssued[v].leases[tqIssued[v].for], usable)
  /\ UNCHANGED <<tqIssued, tqHeld, tqNow, tqRestarts>>

TqReserve(t, amount) ==
  \E r \in {tenant_quota_reserve(tq, t, amount, tqNow)} :
    /\ tq' = r.p
    /\ tqHeld' = IF r.code = "ok" THEN [tqHeld EXCEPT ![t] = @ + amount] ELSE tqHeld
    /\ UNCHANGED <<tqIssued, tqNow, tqRestarts>>

(* Whoever holds something gives it back, whatever became of the lease. *)
TqRelease(t, amount) ==
  /\ amount <= tqHeld[t]
  /\ tq' = tenant_quota_release(tq, t, amount).p
  /\ tqHeld' = [tqHeld EXCEPT ![t] = @ - amount]
  /\ UNCHANGED <<tqIssued, tqNow, tqRestarts>>

TqTick ==
  /\ tqNow < TqMaxTime
  /\ tqNow' = tqNow + 1
  /\ UNCHANGED <<tq, tqIssued, tqHeld, tqRestarts>>

(* The process and what it held are gone. *)
TqRestart ==
  /\ tqRestarts < TqMaxRestarts
  /\ tq' = tenant_quota_projection_create
  /\ tqHeld' = [t \in TqTenants |-> 0]
  /\ tqRestarts' = tqRestarts + 1
  /\ UNCHANGED <<tqIssued, tqNow>>

TqNext ==
  \/ \E t \in TqTenants, lease \in TqLease : TqIssueUpdate(t, lease)
  \/ \E tenants \in SUBSET TqTenants : TqIssueEpoch(tenants)
  \/ \E v \in DOMAIN tqIssued, usable \in BOOLEAN : TqSnapshotComes(v, usable)
  \/ \E v \in DOMAIN tqIssued, usable \in BOOLEAN : TqUpdateComes(v, usable)
  \/ \E t \in TqTenants, amount \in 1 .. TqMaxLimit : TqReserve(t, amount)
  \/ \E t \in TqTenants, amount \in 1 .. TqMaxLimit : TqRelease(t, amount)
  \/ TqTick
  \/ TqRestart

TqSpec == TqInit /\ [][TqNext]_tqVars

----------------------------------------------------------------------------
(* The node counts for every tenant exactly what the tenant holds, also     *)
(* while the node has lost its place in the stream and after the tenant     *)
(* lost its lease; a synchronized node enforces exactly the leases of its   *)
(* version (turbo_media_tenant_quota_apply_snapshot, _update, _release).    *)
TqProjection ==
  /\ \A t \in TqTenants : TqUsed(tq, t) = tqHeld[t]
  /\ tq.synchronized =>
       /\ tq.v \in DOMAIN tqIssued
       /\ {t \in DOMAIN tq.slots : TqHasLease(tq.slots[t])} = DOMAIN tqIssued[tq.v].leases
       /\ \A t \in DOMAIN tqIssued[tq.v].leases : tq.slots[t].lease = tqIssued[tq.v].leases[t]
  /\ Cardinality(DOMAIN tq.slots) <= TqMaxTenants
=============================================================================
