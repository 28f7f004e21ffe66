--------------------------- MODULE QuotaAllocator ---------------------------
(***************************************************************************)
(* The allocator of tenant quotas in the control plane (webrtc/src/         *)
(* security/turbo_media_tenant_quota_allocator.c): the cap of every tenant  *)
(* and the leases it has issued to nodes under that cap.  Changes carry the *)
(* version that follows the allocator's own; a gap makes it refuse          *)
(* everything until a snapshot covers the gap.                              *)
(*                                                                          *)
(* The resources of a lease are alike; one stands for them.  Sums are kept  *)
(* in 64 bits and limits in 32, so that a sum of the at most 4096 leases    *)
(* cannot wrap.                                                             *)
(***************************************************************************)
EXTENDS Integers, FiniteSets, FiniteSetsExt, Functions

CONSTANTS
  TaTenants,
  TaNodes,
  TaMaxTenants,  \* max_tenants: slots for policies
  TaMaxIssued,   \* max_issued_leases: slots for leases
  TaSnapshots,   \* the policies and leases that a snapshot may have
  TaMaxLimit,    \* bound: limits of policies and leases
  TaMaxEpoch,    \* bound: epochs
  TaMaxSequence, \* bound: sequence numbers
  TaMaxTime      \* bound: ticks of the clock

ASSUME TaConstants ==
  /\ {TaMaxTenants, TaMaxIssued, TaMaxEpoch} \subseteq Nat \ {0}
  /\ {TaMaxLimit, TaMaxSequence, TaMaxTime} \subseteq Nat

VARIABLES
  ta,     \* turbo_media_tenant_quota_allocator_t
  taNow

taVars == <<ta, taNow>>

TaZero == <<0, 0>>
TaVersions == (1 .. TaMaxEpoch) \X (0 .. TaMaxSequence)
TaLimits == 0 .. TaMaxLimit
TaLease == [limit : TaLimits, expires : 0 .. TaMaxTime]
TaKeys == TaTenants \X TaNodes

allocator_version_less(v, w) == v[1] < w[1] \/ (v[1] = w[1] /\ v[2] < w[2])

(* policies: the cap of a tenant; leases: by tenant and node. *)
tenant_quota_allocator_create ==
  [v |-> TaZero, required |-> TaZero, synchronized |-> FALSE,
   policies |-> [t \in {} |-> 0], leases |-> [k \in {} |-> 0]]

allocator_require_snapshot(a, v) ==
  [a EXCEPT !.synchronized = FALSE,
            !.required = IF allocator_version_less(@, v) THEN v ELSE @]

allocator_prune_expired(a, now) ==
  [a EXCEPT !.leases = Restrict(@, {k \in DOMAIN @ : now < @[k].expires})]

(* The limits issued to the tenant, without the lease of one key. *)
TaSum(leases, t, except) ==
  MapThenSumSet(LAMBDA k : leases[k].limit, {k \in DOMAIN leases : k[1] = t} \ {except})
TaNobody == TaZero

(* Mutant: the cap bounds each lease and not their sum. *)
allocator_commitments_for_tenant_none(a, t, except) == 0
allocator_commitments_for_tenant(a, t, except) == TaSum(a.leases, t, except)

allocator_snapshot_leases_valid(policies, leases, now) ==
  /\ Cardinality(DOMAIN leases) <= TaMaxIssued
  /\ \A k \in DOMAIN leases : leases[k].expires > now /\ k[1] \in DOMAIN policies
  /\ \A t \in DOMAIN policies : TaSum(leases, t, TaNobody) <= policies[t]

(* usable: the identifiers are valid and memory can be had. *)
tenant_quota_allocator_apply_snapshot(a, v, policies, leases, usable, now) ==
  IF a.synchronized /\ ~allocator_version_less(a.v, v) THEN a
  ELSE IF ~a.synchronized /\ allocator_version_less(v, a.required) THEN a
  ELSE IF \/ ~usable
          \/ Cardinality(DOMAIN policies) > TaMaxTenants
          \/ ~allocator_snapshot_leases_valid(policies, leases, now)
       THEN allocator_require_snapshot(a, v)
  ELSE [v |-> v, required |-> TaZero, synchronized |-> TRUE, policies |-> policies, leases |-> leases]

(* The common beginning of the three changes: what becomes of a change      *)
(* whose version is not the next one, and the expired leases otherwise.     *)
TaAdmitted(a, v) == a.synchronized /\ v = <<a.v[1], a.v[2] + 1>>
TaNotNext(a, v) ==
  IF a.synchronized /\ ~allocator_version_less(a.v, v) THEN a ELSE allocator_require_snapshot(a, v)

TaPut(f, k, x) == [j \in DOMAIN f \union {k} |-> IF j = k THEN x ELSE f[j]]

tenant_quota_allocator_set_policy(a, v, t, limit, now) ==
  IF ~TaAdmitted(a, v) THEN TaNotNext(a, v)
  ELSE LET p == allocator_prune_expired(a, now)
       IN  IF \/ allocator_commitments_for_tenant(p, t, TaNobody) > limit      \* OVERCOMMITTED
              \/ t \notin DOMAIN p.policies /\ Cardinality(DOMAIN p.policies) >= TaMaxTenants
           THEN p
           ELSE [p EXCEPT !.policies = TaPut(@, t, limit), !.v = v]

tenant_quota_allocator_grant(a, v, k, lease, now) ==
  IF lease.expires <= now THEN a                                               \* ERROR
  ELSE IF ~TaAdmitted(a, v) THEN TaNotNext(a, v)
  ELSE LET p == allocator_prune_expired(a, now)
       IN  IF k[1] \notin DOMAIN p.policies THEN p                             \* NOT_FOUND
           ELSE IF \/ allocator_commitments_for_tenant(p, k[1], k) + lease.limit > p.policies[k[1]]
                   \/ k \notin DOMAIN p.leases /\ Cardinality(DOMAIN p.leases) >= TaMaxIssued
           THEN p
           ELSE [p EXCEPT !.leases = TaPut(@, k, lease), !.v = v]

tenant_quota_allocator_revoke(a, v, k, now) ==
  IF ~TaAdmitted(a, v) THEN TaNotNext(a, v)
  ELSE LET p == allocator_prune_expired(a, now)
       IN  IF k \notin DOMAIN p.leases THEN p
           ELSE [p EXCEPT !.leases = Restrict(@, DOMAIN @ \ {k}), !.v = v]

(* The leases of a node, or none while the allocator is not synchronized;   *)
(* and the allocator after it.                                              *)
tenant_quota_allocator_build_node_snapshot(a, n, now) ==
  IF ~a.synchronized THEN [leases |-> [k \in {} |-> 0], a |-> a]
  ELSE LET p == allocator_prune_expired(a, now)
       IN  [leases |-> Restrict(p.leases, {k \in DOMAIN p.leases : k[2] = n}), a |-> p]

----------------------------------------------------------------------------
TaInit == ta = tenant_quota_allocator_create /\ taNow = 0

TaApplySnapshot(v, c, usable) ==
  ta' = tenant_quota_allocator_apply_snapshot(ta, v, c.policies, c.leases, usable, taNow) /\ UNCHANGED taNow
TaSetPolicy(v, t, limit) ==
  ta' = tenant_quota_allocator_set_policy(ta, v, t, limit, taNow) /\ UNCHANGED taNow
TaGrant(v, k, lease) ==
  ta' = tenant_quota_allocator_grant(ta, v, k, lease, taNow) /\ UNCHANGED taNow
TaRevoke(v, k) ==
  ta' = tenant_quota_allocator_revoke(ta, v, k, taNow) /\ UNCHANGED taNow
TaBuildSnapshot(n) ==
  ta' = tenant_quota_allocator_build_node_snapshot(ta, n, taNow).a /\ UNCHANGED taNow
(* The clock is the wall clock of the caller and may go back. *)
TaClock(now) == taNow' = now /\ UNCHANGED ta

TaNext ==
  \/ \E v \in TaVersions, c \in TaSnapshots, usable \in BOOLEAN : TaApplySnapshot(v, c, usable)
  \/ \E v \in TaVersions, t \in TaTenants, limit \in TaLimits : TaSetPolicy(v, t, limit)
  \/ \E v \in TaVersions, k \in TaKeys, lease \in TaLease : TaGrant(v, k, lease)
  \/ \E v \in TaVersions, k \in TaKeys : TaRevoke(v, k)
  \/ \E n \in TaNodes : TaBuildSnapshot(n)
  \/ \E now \in 0 .. TaMaxTime : TaClock(now)

TaSpec == TaInit /\ [][TaNext]_taVars

----------------------------------------------------------------------------
(* The leases of a tenant, as the snapshots for the nodes would hand them   *)
(* out at any time from now on, are together within the tenant's cap, after *)
(* any order of grants, replacements, tighter policies, expiries and        *)
(* snapshots (turbo_media_tenant_quota_allocator_grant, _set_policy).       *)
TaBudget ==
  \A t \in TaTenants :
    LET handed(n) == tenant_quota_allocator_build_node_snapshot(ta, n, taNow).leases
        sum == MapThenSumSet(LAMBDA n : TaSum(handed(n), t, TaNobody), TaNodes)
    IN  sum > 0 => t \in DOMAIN ta.policies /\ sum <= ta.policies[t]
=============================================================================
