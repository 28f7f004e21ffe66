---------------------------- MODULE MCConference ----------------------------
(***************************************************************************)
(* Conferences for model checking: the SFU node, the call queue of the room *)
(* service, the SFU server and the signaling server.  A behaviour explores  *)
(* one of them.                                                             *)
(***************************************************************************)
EXTENDS SfuNode, CallQueue, SfuServer, Signaling, TLC

CONSTANTS p1, p2, caller, callee, t1, r1, r2, i1, i2

VARIABLE part

(* One track of two layers in the SFU node. *)
MCSsrc == [t \in SnTracks |-> 1]
MCLayers == [t \in SnTracks |-> <<1, 2>>]

(* A customer and an agent of the call queue. *)
MCRole == (caller :> "customer") @@ (callee :> "agent")
MCKind == (t1 :> "audio")
MCEntries == (1 :> caller) @@ (2 :> callee)
MCAgents == (1 :> callee)

MCSymmetry == Permutations({p1, p2}) \union Permutations({r1, r2}) \union Permutations({i1, i2})

MCInit ==
  /\ part \in {"node", "routers", "queue", "media", "upkeep", "peers", "sources"}
  /\ SnInit /\ CqInit /\ AsInit /\ SgInit

(* The SFU server with all its participants, and the rest with one, who     *)
(* only unsubscribes.                                                       *)
MCServer ==
  \/ part = "media" /\ AsMedia
  \/ /\ part = "upkeep" /\ AsNext
     /\ \A k \in DOMAIN as'.desired : ~as'.desired[k]
     /\ Cardinality(DOMAIN as'.node.sessions \union DOMAIN as'.sessions) <= 1

(* Two routers and a caller; or one router at a time and an agent who calls *)
(* in as well.                                                              *)
MCQueue ==
  \/ part = "routers" /\ CqNext /\ \A k \in DOMAIN rs'.entries : k[1] = "callee" \/ k[2] = 1
  \/ part = "queue" /\ CqNext /\ \E i \in CqRouters : cqRouter'[i] = CqIdle

MCNext ==
  /\ UNCHANGED part
  /\ \/ part = "node" /\ SnNext /\ UNCHANGED <<rsVars, cqVars, as, sgVars>>
     \/ MCQueue /\ UNCHANGED <<snVars, as, sgVars>>
     \/ MCServer /\ UNCHANGED <<snVars, rsVars, cqVars, sgVars>>
     \/ part = "peers" /\ SgPeersNext /\ UNCHANGED <<snVars, rsVars, cqVars, as, sgSource>>
     \/ part = "sources" /\ SgSourcesNext /\ UNCHANGED <<snVars, rsVars, cqVars, as, sg>>

MCSpec == MCInit /\ [][MCNext]_<<part, snVars, rsVars, cqVars, as, sgVars>>
=============================================================================
