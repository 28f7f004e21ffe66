---------------------------- MODULE DataChannel ----------------------------
(***************************************************************************)
(* Two data channel peers and the SCTP association between them            *)
(* (turbo_datachannel.c, dcep_protocol.c, sctp_session.c, dtls_session.c): *)
(* the peer's state and what the application is told of it, channels       *)
(* opened by DCEP and closed by stream resets.  Every handler runs whole   *)
(* on the owner thread (DcOwner.tla); a callback it makes may call back    *)
(* into the peer, so handlers return the SET of states the application's   *)
(* reactions can leave.  SCTP and DTLS are external: ordered delivery of   *)
(* messages and reset requests, responses to resets on their own.          *)
(***************************************************************************)
EXTENDS Naturals, Sequences, FiniteSets, Functions, TLC

CONSTANTS DcIds,        \* 0 .. MAX_CHANNELS - 1
          DcMaxGen,     \* channels created by the applications
          DcMaxWire     \* messages an SCTP send buffer takes

VARIABLE dn             \* the two ends, the wires, the channels created

Ends == {"c", "s"}

Other(e) == IF e = "c" THEN "s" ELSE "c"

(* turbo_dc_peer_s.  told is the state on_state last reported; out the       *)
(* outgoing streams SCTP is resetting; assoc the association as SCTP has it  *)
DcEnd(server) ==
    [state |-> "new", told |-> "new", server |-> server, link |-> "none",
     fingerprint |-> "none", done |-> FALSE, socket |-> TRUE, assoc |-> "none",
     ids |-> {}, chan |-> <<>>, out |-> {}, deferred |-> FALSE]

DnInit ==
    dn = [end |-> [e \in Ends |-> DcEnd(e = "s")],
          wire |-> [e \in Ends |-> <<>>],
          resets |-> [e \in Ends |-> {}],
          gen |-> 0]

(***************************************************************************)
(* The peer's state.  A peer destroyed inside a callback makes no more     *)
(* callbacks.                                                              *)
(***************************************************************************)
dc_state_transition_allowed(old, new) ==
    /\ old # new /\ old # "closed"
    /\ old = "disconnecting" => new = "closed"
    /\ old = "failed" => new \in {"disconnecting", "closed"}

(* on_state: the application may destroy the peer in it *)
on_state(z, e, new) ==
    IF z.end[e].deferred THEN {z}
    ELSE {[z EXCEPT !.end[e].told = new, !.end[e].deferred = d] : d \in BOOLEAN}

dc_notify_state(z, e, new) ==
    IF dc_state_transition_allowed(z.end[e].state, new)
    THEN on_state([z EXCEPT !.end[e].state = new], e, new)
    ELSE {z}

DcSend(z, e, msg) == [z EXCEPT !.wire[Other(e)] = Append(@, msg)]

(* The association ends without the other side's consent *)
DcAborted(z, e) ==
    IF z.end[e].assoc = "up" /\ ~z.end[e].deferred
    THEN DcSend(z, e, [kind |-> "abort", sid |-> 0, gen |-> 0]) ELSE z

(* Reassembly is cleared, the socket closed (an abort goes out unless the    *)
(* peer is being destroyed), the transport closed                            *)
dc_peer_close_impl(z, e) ==
    IF z.end[e].state = "closed" THEN {z}
    ELSE UNION {LET c == IF y.end[e].socket THEN DcAborted(y, e) ELSE y
                IN dc_notify_state([c EXCEPT !.end[e].socket = FALSE,
                                             !.end[e].assoc = "lost"], e, "closed") :
                y \in dc_notify_state(z, e, "disconnecting")}

(* on_error may close the peer; FAILED is reported only if it still is *)
dc_fail_peer(z, e) ==
    IF z.end[e].state \in {"failed", "disconnecting", "closed"} THEN {z}
    ELSE LET f == [z EXCEPT !.end[e].state = "failed"]
         IN UNION {IF y.end[e].state = "failed" THEN on_state(y, e, "failed") ELSE {y} :
                   y \in {f} \cup (IF f.end[e].deferred THEN {} ELSE dc_peer_close_impl(f, e))}

(***************************************************************************)
(* Channels: the map and the bitmap of ids                                 *)
(***************************************************************************)
DcFree(z, e) ==
    {i \in DcIds : i % 2 = (IF z.end[e].server THEN 1 ELSE 0) /\ i \notin z.end[e].ids}

(* The smallest free id of the role the peer has now *)
peer_alloc_channel_id(z, e) ==
    CHOOSE i \in DcFree(z, e) : \A j \in DcFree(z, e) : i <= j

dc_channel_create(z, e) ==
    IF DcFree(z, e) = {} \/ z.gen = DcMaxGen \/ z.end[e].deferred THEN {}
    ELSE LET i == peer_alloc_channel_id(z, e)
         IN {[z EXCEPT !.gen = @ + 1,
                       !.end[e].ids = @ \cup {i},
                       !.end[e].chan = Restrict(@, (DOMAIN @) \ {i}) @@
                          (i :> [gen |-> z.gen + 1, open |-> FALSE, sent |-> FALSE])]}

(* usrsctp_sendv: refused without a socket and an association, on a stream   *)
(* that is being reset, and by a full buffer                                 *)
DcSendable(z, e, i) ==
    /\ z.end[e].socket /\ z.end[e].assoc = "up" /\ i \notin z.end[e].out
    /\ Len(z.wire[Other(e)]) < DcMaxWire

(* SCTP resets our outgoing stream: a request after all of its data *)
sctp_reset_channel_stream(z, e, i, g) ==
    IF z.end[e].socket /\ z.end[e].assoc = "up" /\ i \notin z.end[e].out
    THEN DcSend([z EXCEPT !.end[e].out = @ \cup {i}], e,
                [kind |-> "reset", sid |-> i, gen |-> g])
    ELSE z

(* on_close may create the next channel: the id of the one being closed is   *)
(* still taken.  It is given back when the callback's reference is dropped.  *)
dc_channel_close_owner_impl_mode(z, e, i) ==
    LET g == z.end[e].chan[i].gen
        u == [z EXCEPT !.end[e].chan = Restrict(@, (DOMAIN @) \ {i})]
        r == sctp_reset_channel_stream(u, e, i, g)
    IN {[y EXCEPT !.end[e].ids = @ \ {i}] : y \in {r} \cup dc_channel_create(r, e)}

(* What an application does in on_channel, on_open or on_message of a        *)
(* channel: nothing, close it, or destroy the peer                           *)
DcReacts(z, e, i) ==
    {z} \cup dc_channel_close_owner_impl_mode(z, e, i)
        \cup {[z EXCEPT !.end[e].deferred = TRUE]}

DcHas(z, e, i) == i \in DOMAIN z.end[e].chan

(***************************************************************************)
(* DCEP                                                                    *)
(***************************************************************************)
dcep_send_open(z, e, i) ==
    IF DcSendable(z, e, i)
    THEN DcSend([z EXCEPT !.end[e].chan[i].sent = TRUE], e,
                [kind |-> "open", sid |-> i, gen |-> z.end[e].chan[i].gen])
    ELSE z

dc_channel_open(z, e, i) ==
    IF z.end[e].chan[i].open \/ z.end[e].chan[i].sent \/ z.end[e].state # "connected"
    THEN z ELSE dcep_send_open(z, e, i)

(* on_open is called if on_channel left the channel and the peer alone *)
DcOpened(z, e, i) ==
    IF DcHas(z, e, i) /\ ~z.end[e].deferred THEN DcReacts(z, e, i) ELSE {z}

(* The remote role's ids only, and none that is in use *)
DcAdmits(z, e, msg) ==
    /\ (msg.sid % 2 = 0) = z.end[e].server
    /\ msg.sid \notin z.end[e].ids

(* OPEN: publish, have the ACK accepted by SCTP or roll back and reset the   *)
(* stream; then is_open, on_channel and on_open                              *)
dcep_handle_open(z, e, msg) ==
    LET i == msg.sid
        p == [z EXCEPT !.end[e].ids = @ \cup {i},
                       !.end[e].chan = Restrict(@, (DOMAIN @) \ {i}) @@
                          (i :> [gen |-> msg.gen, open |-> TRUE, sent |-> FALSE])]
    IN IF ~DcAdmits(z, e, msg) \/ z.end[e].deferred THEN {z}
       ELSE IF ~DcSendable(z, e, i) THEN {sctp_reset_channel_stream(z, e, i, msg.gen)}
       ELSE UNION {DcOpened(y, e, i) :
                   y \in DcReacts(DcSend(p, e, [kind |-> "ack", sid |-> i, gen |-> msg.gen]),
                                  e, i)}

(* Mutant: an ACK opens a channel whose OPEN was never sent *)
dcep_handle_ack_any(z, e, i) ==
    IF ~z.end[e].deferred /\ DcHas(z, e, i) /\ ~z.end[e].chan[i].open
    THEN DcReacts([z EXCEPT !.end[e].chan[i].open = TRUE], e, i)
    ELSE {z}

(* ACK: only for a channel whose OPEN was accepted and that is not open yet *)
dcep_handle_ack(z, e, i) ==
    IF /\ ~z.end[e].deferred /\ DcHas(z, e, i)
       /\ z.end[e].chan[i].sent /\ ~z.end[e].chan[i].open
    THEN DcReacts([z EXCEPT !.end[e].chan[i].open = TRUE], e, i)
    ELSE {z}

(***************************************************************************)
(* sctp_inbound_packet_cb                                                  *)
(***************************************************************************)
(* A remote reset of its outgoing stream: SCTP answers it, and the channel   *)
(* that has the id is closed with a reset of our own                         *)
dc_channel_handle_stream_reset(z, e, msg) ==
    LET a == [z EXCEPT !.resets[Other(e)] = @ \cup {msg.sid}]
    IN IF DcHas(z, e, msg.sid) /\ ~z.end[e].deferred
       THEN dc_channel_close_owner_impl_mode(a, e, msg.sid) ELSE {a}

(* A data message reaches on_message of an open channel *)
DcMessage(z, e, i) ==
    IF ~z.end[e].deferred /\ DcHas(z, e, i) /\ z.end[e].chan[i].open
    THEN DcReacts(z, e, i) ELSE {z}

sctp_inbound_packet_cb(z, e, msg) ==
    CASE msg.kind = "open" -> dcep_handle_open(z, e, msg)
      [] msg.kind = "ack" -> dcep_handle_ack(z, e, msg.sid)
      [] msg.kind = "data" -> DcMessage(z, e, msg.sid)
      [] msg.kind = "reset" -> dc_channel_handle_stream_reset(z, e, msg)
      [] msg.kind = "abort" -> {[z EXCEPT !.end[e].assoc = "lost"]}

DnReceive(e) ==
    /\ dn.wire[e] # <<>> /\ dn.end[e].socket /\ dn.end[e].assoc = "up"
    /\ dn' \in sctp_inbound_packet_cb([dn EXCEPT !.wire[e] = Tail(@)], e, Head(dn.wire[e]))

(* Partially reliable channels lose messages; a closed association all *)
DnLose(e) ==
    /\ dn.wire[e] # <<>>
    /\ Head(dn.wire[e]).kind = "data" \/ dn.end[e].assoc = "lost"
    /\ dn' = [dn EXCEPT !.wire[e] = Tail(@)]

(* The response to our reset: the stream may be used again *)
DnResetDone(e) ==
    \E i \in dn.resets[e] :
       dn' = [dn EXCEPT !.resets[e] = @ \ {i}, !.end[e].out = @ \ {i}]

(***************************************************************************)
(* DTLS, and the association started when it is done                       *)
(***************************************************************************)
verify_remote_fingerprint(z, e) == z.end[e].fingerprint = "right"

(* usrsctp_bind and usrsctp_connect fail without a socket, and the second time *)
sctp_start_association(z, e) ==
    IF z.end[e].socket /\ z.end[e].assoc = "none" THEN {[z EXCEPT !.end[e].assoc = "started"]} ELSE dc_fail_peer(z, e)

(* SSL_do_handshake completes only between a client and a server that are    *)
(* both connecting; else it wants more, fails, or the other side is gone     *)
dtls_process_handshake(z, e) ==
    {z} \cup dc_fail_peer(z, e) \cup dc_notify_state(z, e, "closed")
        \cup IF z.end[e].server = z.end[Other(e)].server THEN {}
             ELSE IF ~verify_remote_fingerprint(z, e) THEN dc_fail_peer(z, e)
             ELSE sctp_start_association([z EXCEPT !.end[e].done = TRUE], e)

(* A handshake record, or the retransmission timer, while it is not done *)
DnHandshake(e) ==
    /\ dn.end[e].link # "none" /\ ~dn.end[e].done /\ dn.end[e].state # "new"
    /\ dn.end[Other(e)].link # "none"
    /\ dn' \in dtls_process_handshake(dn, e)

(* COMM_UP, or sctp_poll_status that finds the association established *)
DnUp(e) ==
    /\ dn.end[e].assoc = "started" /\ dn.end[Other(e)].assoc \in {"started", "up"}
    /\ dn.end[Other(e)].done
    /\ dn' \in dc_notify_state([dn EXCEPT !.end[e].assoc = "up"], e, "connected")

(***************************************************************************)
(* The application's calls; all are refused once the peer is being         *)
(* destroyed                                                               *)
(***************************************************************************)
turbo_dc_peer_set_dtls_role(e) ==
    /\ dn.end[e].state = "new"
    /\ dn' = [dn EXCEPT !.end[e].server = ~@]

turbo_dc_peer_set_remote_fingerprint(e) ==
    \E f \in {"right", "wrong"} : dn' = [dn EXCEPT !.end[e].fingerprint = f]

turbo_dc_peer_set_external_transport(e) ==
    \/ dn.end[e].link = "external" /\ dn' = [dn EXCEPT !.end[e].link = "none"]
    \/ dn.end[e].link = "none" /\ dn' = [dn EXCEPT !.end[e].link = "external"]

(* Over an external transport the state is set without asking whether it may *)
dc_external_handshake_task(z, e) ==
    dtls_process_handshake([z EXCEPT !.end[e].state = "connecting"], e)

(* Setting up a transport of its own may fail and leave the peer as it is *)
dc_start_transport_task(z, e) ==
    {z} \cup UNION {dtls_process_handshake(y, e) :
                    y \in dc_notify_state([z EXCEPT !.end[e].link = "direct"], e, "connecting")}

turbo_dc_peer_connect(e) ==
    dn' \in IF dn.end[e].link = "external" THEN dc_external_handshake_task(dn, e)
            ELSE dc_start_transport_task(dn, e)

turbo_dc_peer_close(e) == dn' \in dc_peer_close_impl(dn, e)

turbo_dc_channel_create(e) == dn' \in dc_channel_create(dn, e)

turbo_dc_channel_open(e) ==
    \E i \in DOMAIN dn.end[e].chan : dn' = dc_channel_open(dn, e, i)

turbo_dc_channel_send(e) ==
    \E i \in DOMAIN dn.end[e].chan :
       /\ dn.end[e].chan[i].open /\ DcSendable(dn, e, i)
       /\ dn' = DcSend(dn, e, [kind |-> "data", sid |-> i, gen |-> dn.end[e].chan[i].gen])

turbo_dc_channel_close(e) ==
    \E i \in DOMAIN dn.end[e].chan : dn' \in dc_channel_close_owner_impl_mode(dn, e, i)

DnPeerCall(e) ==
    /\ ~dn.end[e].deferred
    /\ \/ turbo_dc_peer_set_dtls_role(e) \/ turbo_dc_peer_set_remote_fingerprint(e)
       \/ turbo_dc_peer_set_external_transport(e) \/ turbo_dc_peer_connect(e)

DnChannelCall(e) ==
    /\ ~dn.end[e].deferred
    /\ \/ turbo_dc_channel_create(e) \/ turbo_dc_channel_open(e)
       \/ turbo_dc_channel_send(e) \/ turbo_dc_channel_close(e)

DnClose(e) == ~dn.end[e].deferred /\ turbo_dc_peer_close(e)

(* Connecting and failing, before there are channels *)
DnConnecting ==
    \E e \in Ends : DnPeerCall(e) \/ DnClose(e) \/ DnHandshake(e) \/ DnUp(e)
                       \/ DnReceive(e) \/ DnLose(e)

(* Channels over an association *)
DnTalking ==
    \E e \in Ends : DnChannelCall(e) \/ DnClose(e)
                       \/ DnReceive(e) \/ DnLose(e) \/ DnResetDone(e)

DnNext == DnConnecting \/ DnTalking

(* Two connected peers *)
DnConnected ==
    LET up(e) == [DcEnd(e = "s") EXCEPT !.state = "connected", !.told = "connected",
                     !.link = "direct", !.fingerprint = "right", !.done = TRUE,
                     !.assoc = "up"]
    IN dn = [end |-> [e \in Ends |-> up(e)], wire |-> [e \in Ends |-> <<>>],
             resets |-> [e \in Ends |-> {}], gen |-> 0]

DnSpec == DnInit /\ [][DnNext]_dn

(* Both ends of an open channel are the same channel: an id that is open on  *)
(* both sides, neither of which is being destroyed, was opened there by one  *)
(* OPEN of one of them, whatever was closed, reset, refused or created under *)
(* the same id in the meantime.                                              *)
DnPaired ==
    \A i \in DcIds :
       (\A e \in Ends : /\ DcHas(dn, e, i) /\ dn.end[e].chan[i].open
                       /\ ~dn.end[e].deferred) =>
           dn.end["c"].chan[i].gen = dn.end["s"].chan[i].gen

(* The application is not left with a stale state: unless it destroyed the   *)
(* peer or is connecting over its own transport, the state on_state last     *)
(* reported is the peer's state.                                             *)
DnTold ==
    \A e \in Ends : \/ dn.end[e].told = dn.end[e].state
                    \/ dn.end[e].deferred \/ dn.end[e].state = "connecting"

(* The two ends agree on their channels and the application on their state. *)
DnSound == DnPaired /\ DnTold
=============================================================================
