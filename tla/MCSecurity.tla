------------------------------ MODULE MCSecurity ------------------------------
(***************************************************************************)
(* The parts of the security control plane for model checking: the          *)
(* revocation lists, the quota of a node and the allocator of quotas share  *)
(* no state, so each is explored alone.                                     *)
(***************************************************************************)
EXTENDS Revocation, TenantQuota, QuotaAllocator, TLC

CONSTANTS t1, t2, n1, n2   \* tenants and nodes of the allocator

VARIABLE part

(* Snapshots of the allocator: good ones, leases beyond the cap, of a       *)
(* tenant without a policy, too many, and some that expire soon.            *)
MCContent(policies, leases) == [policies |-> policies, leases |-> leases]
MCLease(limit, expires) == [limit |-> limit, expires |-> expires]
MCNothing == [k \in {} |-> 0]
MCSnapshots ==
  { MCContent(MCNothing, MCNothing),
    MCContent([t \in {t1} |-> 2], MCNothing),
    MCContent([t \in {t1, t2} |-> 1], MCNothing),
    MCContent([t \in {t1} |-> 2], [k \in {<<t1, n1>>} |-> MCLease(2, 1)]),
    MCContent([t \in {t1} |-> 2], [k \in {<<t1, n1>>, <<t1, n2>>} |-> MCLease(1, 2)]),
    MCContent([t \in {t1} |-> 2], [k \in {<<t1, n1>>, <<t1, n2>>} |-> MCLease(2, 1)]),
    MCContent([t \in {t1} |-> 2], [k \in {<<t2, n1>>} |-> MCLease(1, 1)]),
    MCContent([t \in {t1, t2} |-> 2], [k \in {t1, t2} \X {n1, n2} |-> MCLease(1, 1)]) }

(* Digests and the tenants of the node are interchangeable. *)
MCSymmetry == Permutations(RvDigests) \union Permutations(TqTenants)

MCInit == part \in {"revocation", "quota", "allocator"} /\ RvInit /\ TqInit /\ TaInit

MCNext ==
  /\ UNCHANGED part
  /\ \/ part = "revocation" /\ RvNext /\ UNCHANGED <<tqVars, taVars>>
     \/ part = "quota" /\ TqNext /\ UNCHANGED <<rvVars, taVars>>
     \/ part = "allocator" /\ TaNext /\ UNCHANGED <<rvVars, tqVars>>

MCSpec == MCInit /\ [][MCNext]_<<part, rvVars, tqVars, taVars>>
=============================================================================
