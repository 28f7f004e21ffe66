-------------------------- MODULE SctpReassembly --------------------------
(***************************************************************************)
(* The reassembly of partially delivered SCTP messages (sctp_session.c):   *)
(* usrsctp hands a large message to the receive callback in fragments; the *)
(* peer collects them in a few slots, keyed by stream and sequence number, *)
(* and gives only whole messages to the channel.                           *)
(***************************************************************************)
EXTENDS Naturals, Sequences, FiniteSets, SequencesExt

CONSTANTS RxStreams,   \* incoming streams
          RxSlots,     \* SCTP_REASSEMBLY_SLOTS
          RxMax,       \* SCTP_REASSEMBLY_MESSAGE_MAX
          RxPpids,     \* payload protocol identifiers
          RxMessages   \* messages begun on a stream (bound)

VARIABLE rx

RxFree == [used |-> FALSE, sid |-> 0, ssn |-> 0, ppid |-> 0, discarding |-> FALSE,
           data |-> <<>>, length |-> 0]

(* Of the remote stream: ssn its sequence number, msg and frag the message   *)
(* and the fragments of it sent so far.  out is the last message given to    *)
(* the channel.                                                              *)
RxInit ==
    rx = [slot |-> [i \in 1 .. RxSlots |-> RxFree], blocked |-> FALSE, failed |-> FALSE,
          from |-> [s \in RxStreams |-> [ssn |-> 0, msg |-> 1, frag |-> 0]],
          out |-> <<>>]

sctp_reassembly_clear_all(r) ==
    [r EXCEPT !.slot = [i \in 1 .. RxSlots |-> RxFree], !.blocked = FALSE]

sctp_reassembly_clear_stream(r, s) ==
    [r EXCEPT !.slot = [i \in 1 .. RxSlots |-> IF @[i].used /\ @[i].sid = s THEN RxFree ELSE @[i]]]

sctp_reassembly_clear_identity(r, s, n) ==
    [r EXCEPT !.slot = [i \in 1 .. RxSlots |->
        IF @[i].used /\ @[i].sid = s /\ @[i].ssn = n THEN RxFree ELSE @[i]]]

RxBlock(r) == [sctp_reassembly_clear_all(r) EXCEPT !.blocked = TRUE]

(* Mutant: a message that is too long leaves its slot, the rest arrives as one *)
RxDiscard_cleared(r, i, eor) == [r EXCEPT !.slot[i] = RxFree]

(* The message is given up; what is left of it is thrown away until its end *)
RxDiscard(r, i, eor) ==
    [r EXCEPT !.slot[i] = IF eor THEN RxFree
                          ELSE [@ EXCEPT !.discarding = TRUE, !.data = <<>>, !.length = 0]]

(* The result and what is delivered, if anything.  f has the fragment's      *)
(* label, stream, sequence number, ppid and length; alloc says whether       *)
(* malloc gives a buffer.                                                    *)
sctp_reassemble_message(r, f, eor, alloc) ==
    LET mine == {i \in 1 .. RxSlots :
                    r.slot[i].used /\ r.slot[i].sid = f.sid /\ r.slot[i].ssn = f.ssn}
        free == {i \in 1 .. RxSlots : ~r.slot[i].used}
        i == IF mine # {} THEN CHOOSE k \in mine : TRUE
             ELSE CHOOSE k \in free : \A j \in free : k <= j
        taken == [RxFree EXCEPT !.used = TRUE, !.sid = f.sid, !.ssn = f.ssn, !.ppid = f.ppid]
        drop(z) == [r |-> z, out |-> <<>>]
    IN IF r.blocked THEN drop(r)
       ELSE IF f.length = 0 \/ f.length > RxMax THEN
           IF mine # {} THEN drop(RxDiscard(r, i, eor))
           ELSE IF eor THEN drop(r)
           ELSE IF free = {} THEN drop(RxBlock(r))
           ELSE drop([r EXCEPT !.slot[i] = [taken EXCEPT !.discarding = TRUE]])
       ELSE IF mine # {} /\ r.slot[i].ppid # f.ppid THEN
           drop([r EXCEPT !.slot[i] = RxFree, !.blocked = ~eor])
       ELSE IF mine # {} /\ r.slot[i].discarding THEN
           drop(IF eor THEN [r EXCEPT !.slot[i] = RxFree] ELSE r)
       ELSE IF mine = {} /\ eor THEN [r |-> r, out |-> <<f.label>>]
       ELSE IF mine = {} /\ free = {} THEN drop(RxBlock(r))
       ELSE IF mine = {} /\ ~alloc THEN
           drop([r EXCEPT !.slot[i] = [taken EXCEPT !.discarding = TRUE]])
       ELSE LET z == IF mine # {} THEN r ELSE [r EXCEPT !.slot[i] = taken]
            IN IF f.length > RxMax - z.slot[i].length THEN drop(RxDiscard(z, i, eor))
               ELSE LET d == Append(z.slot[i].data, f.label)
                    IN IF eor THEN [r |-> [z EXCEPT !.slot[i] = RxFree], out |-> d]
                       ELSE drop([z EXCEPT !.slot[i].data = d, !.slot[i].length = @ + f.length])

(* The remote goes on to its next message *)
RxNextMessage(g, ssn) == [ssn |-> ssn, msg |-> g.msg + 1, frag |-> 0]

(* A fragment; a peer whose reassembly is blocked fails *)
RxFragment(s) ==
    \E len \in 0 .. RxMax + 1, ppid \in RxPpids, eor, alloc \in BOOLEAN :
       LET g == rx.from[s]
           f == [label |-> <<s, g.msg, g.frag + 1>>, sid |-> s, ssn |-> g.ssn,
                 ppid |-> ppid, length |-> len]
       IN /\ ~rx.failed /\ g.msg <= RxMessages /\ g.frag <= RxMax
          /\ \E m \in {sctp_reassemble_message(rx, f, eor, alloc)} :
                rx' = [m.r EXCEPT !.out = m.out, !.failed = m.r.blocked,
                                  !.from[s] = IF eor THEN RxNextMessage(g, g.ssn + 1)
                                              ELSE [g EXCEPT !.frag = @ + 1]]

(* usrsctp gives up a message it has begun to deliver *)
sctp_handle_partial_delivery_event(s) ==
    LET g == rx.from[s]
    IN /\ g.frag > 0 /\ ~rx.failed
       /\ rx' = [sctp_reassembly_clear_identity(rx, s, g.ssn) EXCEPT
                    !.from[s] = RxNextMessage(g, g.ssn + 1), !.out = <<>>]

(* The remote resets the stream: it numbers its messages from zero again *)
sctp_handle_stream_reset_event(s) ==
    /\ ~rx.failed /\ rx.from[s].msg <= RxMessages
    /\ rx' = [sctp_reassembly_clear_stream(rx, s) EXCEPT
                 !.from[s] = RxNextMessage(@, 0), !.out = <<>>]

(* SCTP_RESTART: every stream starts again *)
RxRestart ==
    /\ ~rx.failed /\ \A s \in RxStreams : rx.from[s].msg <= RxMessages
    /\ rx' = [sctp_reassembly_clear_all(rx) EXCEPT
                 !.from = [s \in RxStreams |-> RxNextMessage(@[s], 0)], !.out = <<>>]

RxNext ==
    \/ \E s \in RxStreams : \/ RxFragment(s)
                            \/ sctp_handle_partial_delivery_event(s)
                            \/ sctp_handle_stream_reset_event(s)
    \/ RxRestart

RxSpec == RxInit /\ [][RxNext]_rx

(* A channel gets whole messages only: what is delivered is the fragments of *)
(* one message, from its first to its last and in order, whatever messages   *)
(* were rejected, aborted or begun on other streams in between.              *)
RxExact ==
    rx.out # <<>> =>
       LET s == rx.out[1][1]
       IN /\ \A k \in 1 .. Len(rx.out) : rx.out[k] = <<s, rx.out[1][2], k>>
          /\ rx.from[s].msg = rx.out[1][2] + 1
=============================================================================
