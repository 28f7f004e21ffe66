------------------------------ MODULE DcOwner ------------------------------
(***************************************************************************)
(* The lifetime of data channel peers (turbo_datachannel.c).  A context    *)
(* has one transport owner thread; every public call takes a lease on its  *)
(* peer, posts a task into the context's one command slot and waits for    *)
(* the owner to run it.  Destruction closes admission, waits for leases    *)
(* and raw-packet callbacks, has the owner tear the peer down and then     *)
(* unlinks and frees it; called from a callback, on the owner, it is       *)
(* deferred until the owner unwinds.  What the tasks do is the subject of  *)
(* DataChannel.tla.                                                        *)
(***************************************************************************)
EXTENDS Naturals, FiniteSets

CONSTANTS DcThreads,   \* application threads
          DcPeers,     \* peers, each created at most once
          DcNone       \* no command, no peer

VARIABLE dc

(* DcPeer: life is "none", "linked" (in peers_head) or "freed"; torn holds   *)
(* once dc_peer_destroy_resources_owner_task ran                             *)
DcPeer0 ==
    [life |-> "none", destroying |-> FALSE, deferred |-> FALSE, ops |-> 0,
     callbacks |-> 0, torn |-> FALSE]

DcInit ==
    dc = [destroying |-> FALSE, stop |-> FALSE, slot |-> DcNone, done |-> FALSE,
          freed |-> FALSE,
          peer |-> [p \in DcPeers |-> DcPeer0],
          at |-> [t \in DcThreads |-> [pc |-> "idle", peer |-> DcNone, task |-> "none"]],
          owner |-> [pc |-> "top", peer |-> DcNone, data |-> FALSE, left |-> {}]]

(* peer_mutex is held by the owner while it polls the peers *)
DcUnlocked == dc.owner.pc \notin {"poll", "polling"}

At(d, t, pc) == [d EXCEPT !.at[t].pc = pc]

Idle(d, t) ==
    [d EXCEPT !.at[t] = [pc |-> "idle", peer |-> DcNone, task |-> "none"]]

(***************************************************************************)
(* Leases                                                                  *)
(***************************************************************************)
dc_peer_acquire(d, p) ==
    [ok |-> ~d.peer[p].destroying,
     d |-> IF d.peer[p].destroying THEN d ELSE [d EXCEPT !.peer[p].ops = @ + 1]]

dc_peer_release(d, p) ==
    [d EXCEPT !.peer[p].ops = @ - 1]

DcQuiet(d, p) == d.peer[p].ops = 0 /\ d.peer[p].callbacks = 0

(* Mutant: the owner's destroy closes admission and forgets to be reaped *)
DcDefer_lost(d, p) == [d EXCEPT !.peer[p].destroying = TRUE]

(* A destroy on the owner only closes admission and callbacks *)
DcDefer(d, p) ==
    IF d.peer[p].destroying THEN d
    ELSE [d EXCEPT !.peer[p].destroying = TRUE, !.peer[p].deferred = TRUE]

turbo_dc_peer_create(p) ==
    /\ DcUnlocked /\ ~dc.destroying /\ dc.peer[p].life = "none"
    /\ dc' = [dc EXCEPT !.peer[p].life = "linked"]

(* Any public call of a peer or a channel: refused once the peer is being    *)
(* destroyed, else leased and posted.  An application does not use a peer    *)
(* that has been freed.                                                      *)
DcCall(t, p) ==
    /\ dc.at[t].pc = "idle" /\ dc.peer[p].life = "linked" /\ ~dc.peer[p].destroying
    /\ dc' = [dc_peer_acquire(dc, p).d EXCEPT
                 !.at[t] = [pc |-> "post", peer |-> p, task |-> "op"]]

(* Removing the raw-packet handler holds a lease and waits for callbacks that *)
(* are still running                                                         *)
turbo_dc_peer_set_transport_data_handler(t, p) ==
    /\ dc.at[t].pc = "idle" /\ dc.peer[p].life = "linked" /\ ~dc.peer[p].destroying
    /\ dc' = [dc_peer_acquire(dc, p).d EXCEPT
                 !.at[t] = [pc |-> "quiesce", peer |-> p, task |-> "op"]]

DcQuiesced(t) ==
    /\ dc.at[t].pc = "quiesce" /\ dc.peer[dc.at[t].peer].callbacks = 0
    /\ dc' = At(dc, t, "release")

DcRelease(t) ==
    /\ dc.at[t].pc = "release"
    /\ dc' = Idle(dc_peer_release(dc, dc.at[t].peer), t)

(***************************************************************************)
(* dc_post_sync off the owner thread: one command at a time, then wait     *)
(***************************************************************************)
dc_post_sync(t) ==
    /\ dc.at[t].pc = "post" /\ (dc.slot = DcNone \/ dc.stop)
    /\ dc' = IF dc.stop
             THEN IF dc.at[t].task = "op" THEN At(dc, t, "release") ELSE Idle(dc, t)
             ELSE [At(dc, t, "wait") EXCEPT
                      !.slot = [by |-> t, task |-> dc.at[t].task, peer |-> dc.at[t].peer],
                      !.done = FALSE]

DcPosted(t) ==
    /\ dc.at[t].pc = "wait" /\ (dc.done \/ dc.stop)
    /\ dc' = [At(dc, t, CASE dc.at[t].task = "op" -> "release"
                          [] dc.at[t].task = "teardown" -> "unlink"
                          [] OTHER -> "drain_peers") EXCEPT !.slot = DcNone]

(***************************************************************************)
(* turbo_dc_peer_destroy off the owner thread                              *)
(***************************************************************************)
dc_peer_begin_destroy(t, p) ==
    /\ dc.at[t].pc = "idle" /\ dc.peer[p].life = "linked" /\ ~dc.peer[p].destroying
    /\ dc' = [dc EXCEPT !.peer[p].destroying = TRUE,
                        !.at[t] = [pc |-> "drain", peer |-> p, task |-> "teardown"]]

DcDrained(t) ==
    /\ dc.at[t].pc = "drain" /\ DcQuiet(dc, dc.at[t].peer)
    /\ dc' = At(dc, t, "post")

dc_peer_unlink_from_context(d, p) == [d EXCEPT !.peer[p].life = "freed"]

DcUnlink(t) ==
    /\ dc.at[t].pc = "unlink" /\ DcUnlocked
    /\ dc' = Idle(dc_peer_unlink_from_context(dc, dc.at[t].peer), t)

(***************************************************************************)
(* turbo_dc_context_destroy: close peer creation, have the owner close the *)
(* admission of every peer, wait until the last one is unlinked, stop and  *)
(* join the owner                                                          *)
(***************************************************************************)
turbo_dc_context_destroy(t) ==
    /\ dc.at[t].pc = "idle" /\ DcUnlocked /\ ~dc.destroying
    /\ dc' = [dc EXCEPT !.destroying = TRUE,
                        !.at[t] = [pc |-> "post", peer |-> DcNone, task |-> "admission"]]

DcPeersDrained(t) ==
    /\ dc.at[t].pc = "drain_peers" /\ DcUnlocked
    /\ \A p \in DcPeers : dc.peer[p].life # "linked"
    /\ dc' = [At(dc, t, "join") EXCEPT !.stop = TRUE]

DcJoined(t) ==
    /\ dc.at[t].pc = "join" /\ dc.owner.pc = "exited"
    /\ dc' = [At(dc, t, "gone") EXCEPT !.freed = TRUE]

DcThreadStep(t) ==
    \/ \E p \in DcPeers : \/ DcCall(t, p)
                          \/ turbo_dc_peer_set_transport_data_handler(t, p)
                          \/ dc_peer_begin_destroy(t, p)
    \/ DcQuiesced(t) \/ DcRelease(t) \/ dc_post_sync(t) \/ DcPosted(t)
    \/ DcDrained(t) \/ DcUnlink(t)
    \/ turbo_dc_context_destroy(t) \/ DcPeersDrained(t) \/ DcJoined(t)

(***************************************************************************)
(* The owner thread                                                        *)
(***************************************************************************)
OwnerAt(d, pc) == [d EXCEPT !.owner.pc = pc]

dc_peer_destroy_resources_owner_task(d, p) == [d EXCEPT !.peer[p].torn = TRUE]

(* Mutant: a deferred peer is reaped although a caller still holds its lease *)
DcReapable_leased(d) ==
    {p \in DcPeers : d.peer[p].life = "linked" /\ d.peer[p].deferred}

(* Deferred peers nobody uses any more *)
DcReapable(d) ==
    {p \in DcPeers : d.peer[p].life = "linked" /\ d.peer[p].deferred /\ DcQuiet(d, p)}

(* finish_destroy on the owner runs the teardown inline and unlinks *)
dc_reap_deferred_peers ==
    /\ dc.owner.pc = "top"
    /\ \E p \in DcReapable(dc) :
          dc' = dc_peer_unlink_from_context(dc_peer_destroy_resources_owner_task(dc, p), p)

(* The end of the wait: stop, a command to run, or the peers to poll *)
dc_transport_thread_main ==
    /\ dc.owner.pc = "top" /\ DcReapable(dc) = {}
    /\ dc' = IF dc.stop THEN OwnerAt(dc, "exited")
             ELSE IF dc.slot # DcNone /\ ~dc.done THEN OwnerAt(dc, "command")
             ELSE [OwnerAt(dc, "poll") EXCEPT
                      !.owner.left = {p \in DcPeers : dc.peer[p].life = "linked"}]

(* The owner enters a peer's code; a raw packet is handed to the handler     *)
(* only while the peer is not being destroyed, and the callback is counted   *)
dc_handle_incoming_packet(d, p, data, pc) ==
    [OwnerAt(d, pc) EXCEPT
        !.owner.peer = p,
        !.owner.data = data /\ ~d.peer[p].destroying,
        !.peer[p].callbacks = @ + IF data /\ ~d.peer[p].destroying THEN 1 ELSE 0]

dc_context_close_peer_admission(d) ==
    [d EXCEPT !.peer = [p \in DcPeers |->
        IF d.peer[p].life = "linked" THEN DcDefer(d, p).peer[p] ELSE d.peer[p]]]

DcRun ==
    /\ dc.owner.pc = "command"
    /\ CASE dc.slot.task = "op" ->
              \E data \in BOOLEAN :
                 dc' = dc_handle_incoming_packet(dc, dc.slot.peer, data, "running")
         [] dc.slot.task = "teardown" ->
              dc' = [dc_peer_destroy_resources_owner_task(dc, dc.slot.peer) EXCEPT
                        !.owner.pc = "running", !.owner.peer = DcNone]
         [] OTHER ->
              dc' = [dc_context_close_peer_admission(dc) EXCEPT
                        !.owner.pc = "running", !.owner.peer = DcNone]

(* One peer of the poll; a peer being destroyed is skipped *)
dc_poll_direct_peer ==
    /\ dc.owner.pc = "poll"
    /\ \E p \in dc.owner.left, data \in BOOLEAN :
          LET d == [dc EXCEPT !.owner.left = @ \ {p}]
          IN dc' = IF dc.peer[p].destroying THEN d
                   ELSE dc_handle_incoming_packet(d, p, data, "polling")

DcPolled ==
    /\ dc.owner.pc = "poll" /\ dc.owner.left = {}
    /\ dc' = OwnerAt(dc, "top")

(* Inside a callback the application may destroy any peer it still has *)
DcCallbackDestroys ==
    /\ dc.owner.pc \in {"running", "polling"} /\ dc.owner.peer # DcNone
    /\ \E p \in DcPeers :
          /\ dc.peer[p].life = "linked" /\ ~dc.peer[p].destroying
          /\ dc' = DcDefer(dc, p)

(* The callback returns; a command's poster is told *)
DcReturn ==
    /\ dc.owner.pc \in {"running", "polling"}
    /\ LET d == IF dc.owner.data
                THEN [dc EXCEPT !.peer[dc.owner.peer].callbacks = @ - 1] ELSE dc
           e == [d EXCEPT !.owner.peer = DcNone, !.owner.data = FALSE]
       IN dc' = IF dc.owner.pc = "polling" THEN OwnerAt(e, "poll")
                ELSE [OwnerAt(e, "top") EXCEPT !.done = TRUE]

DcOwnerStep ==
    dc_reap_deferred_peers \/ dc_transport_thread_main \/ DcRun
        \/ dc_poll_direct_peer \/ DcPolled \/ DcReturn

DcNext ==
    \/ \E p \in DcPeers : turbo_dc_peer_create(p)
    \/ \E t \in DcThreads : DcThreadStep(t)
    \/ DcOwnerStep \/ DcCallbackDestroys

(* The owner thread runs and callbacks return; a thread that waits for a     *)
(* condition goes on once it holds, and one that keeps contending for the    *)
(* command slot or for peer_mutex gets it in the end.                        *)
DcFairness ==
    /\ WF_dc(DcOwnerStep)
    /\ \A t \in DcThreads :
          /\ WF_dc(DcQuiesced(t)) /\ WF_dc(DcRelease(t)) /\ WF_dc(DcPosted(t))
          /\ WF_dc(DcDrained(t)) /\ WF_dc(DcJoined(t))
          /\ SF_dc(dc_post_sync(t)) /\ SF_dc(DcUnlink(t)) /\ SF_dc(DcPeersDrained(t))

DcSpec == DcInit /\ [][DcNext]_dc /\ DcFairness

(* A lease or a callback keeps its peer: while a call holds a lease, and     *)
(* while the owner runs a peer's code, the peer is neither torn down nor     *)
(* freed; the poster of a command the owner is running still waits for it    *)
(* (its arguments are on the poster's stack); and once the context's storage *)
(* is gone no peer is linked, the owner has exited and no other thread is    *)
(* inside a call.                                                            *)
DcLeases ==
    /\ \A t \in DcThreads : dc.at[t].task = "op" =>
          dc.peer[dc.at[t].peer].life = "linked" /\ ~dc.peer[dc.at[t].peer].torn
    /\ dc.owner.peer # DcNone =>
          dc.peer[dc.owner.peer].life = "linked" /\ ~dc.peer[dc.owner.peer].torn
    /\ dc.owner.pc \in {"command", "running"} =>
          dc.slot # DcNone /\ dc.at[dc.slot.by].pc = "wait"
    /\ dc.freed => /\ dc.owner.pc = "exited"
                   /\ \A p \in DcPeers : dc.peer[p].life # "linked"
                   /\ \A t \in DcThreads : dc.at[t].pc \in {"idle", "gone"}

(* Destruction ends: a peer whose destruction has begun, from whichever      *)
(* thread or callback, is freed, and a context that is being destroyed gives *)
(* back its storage.                                                         *)
DcDrains ==
    /\ \A p \in DcPeers : dc.peer[p].destroying ~> dc.peer[p].life = "freed"
    /\ dc.destroying ~> dc.freed
=============================================================================
