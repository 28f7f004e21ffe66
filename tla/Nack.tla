-------------------------------- MODULE Nack --------------------------------
(***************************************************************************)
(* Negative acknowledgement of RTP packets (rtc/rtp/nack.c) and the history *)
(* of sent packets (rtc/rtp/rtp_history.c): the receiver lists the packets  *)
(* it misses and asks for them a few times, the RTCP message packs their    *)
(* numbers into blocks, and the sender looks them up in its history.        *)
(*                                                                          *)
(* Packets are named by their place in the stream, of which their sequence  *)
(* number is the remainder; a run is shorter than one cycle of the numbers  *)
(* but may wrap.  The network loses, duplicates and reorders both packets   *)
(* and messages.                                                            *)
(***************************************************************************)
EXTENDS Integers, Sequences, FiniteSets, SequencesExt

CONSTANTS
  NkSeqMod,      \* 2^16: how many sequence numbers there are
  NkFirst,       \* the sequence number of the first packet
  NkMaxMissing,  \* NACK_MAX_MISSING_PACKETS
  NkMaxAge,      \* NACK_MAX_PACKET_AGE_MS, in ticks
  NkMaxRetries,  \* NACK_MAX_RETRIES
  NkRetry,       \* NACK_RETRY_INTERVAL_MS, in ticks
  NkBlpBits,     \* 16: the bits of a BLP
  NkHistory,     \* max_packets of the history
  NkCount,       \* max_count of the callers
  NkMaxPackets,  \* bound: packets of a run
  NkMaxTime      \* bound: ticks of a run

ASSUME NkConstants ==
  /\ NkSeqMod \in Nat /\ NkSeqMod % 2 = 0 /\ NkMaxPackets < NkSeqMod \div 2
  /\ NkFirst \in 0 .. NkSeqMod - 1
  /\ {NkMaxMissing, NkMaxAge, NkMaxRetries, NkRetry, NkBlpBits, NkHistory, NkCount} \subseteq Nat \ {0}

VARIABLES
  nk,      \* nack_receiver_t
  nkHist,  \* rtp_history_t of the sender: a slot holds the packet, or NkNone
  nkSent,  \* how many packets were sent
  nkGot,   \* the packets that came to the receiver
  nkAsks,  \* how often each packet was asked for
  nkAsked, \* the numbers of the last request
  nkMsg,   \* the last request as RTCP blocks, as long as it may come
  nkResent,\* what the sender sent again for the last message that came
  nkNow

nkVars == <<nk, nkHist, nkSent, nkGot, nkAsks, nkAsked, nkMsg, nkResent, nkNow>>

NkNone == -1
NkPackets == 0 .. NkMaxPackets - 1
NkSeq(n) == (NkFirst + n) % NkSeqMod

(* The packet of the run that has the number. *)
NkPlace(s) == (s - NkFirst) % NkSeqMod

nack_receiver_create == [initialized |-> FALSE, highest |-> 0, missing |-> <<>>]

(* The difference with regard to the wrap; seq_diff of nack.c. *)
nack_seq_diff(a, b) ==
  LET d == a - b
  IN  IF d > NkSeqMod \div 2 THEN d - NkSeqMod
      ELSE IF d < -(NkSeqMod \div 2) THEN d + NkSeqMod ELSE d

-----------------------------------------------------------------------------
(* The receiver *)

NkMissing(r) == {r.missing[i].seq : i \in DOMAIN r.missing}

add_missing_packet(r, s, now) ==
  IF s \in NkMissing(r) \/ Len(r.missing) >= NkMaxMissing THEN r
  ELSE [r EXCEPT !.missing = Append(@, [seq |-> s, first |-> now, last |-> 0, retries |-> 0])]

(* Mutant: a packet that comes late is not struck off the list. *)
remove_missing_packet_not(r, s) == r

remove_missing_packet(r, s) == [r EXCEPT !.missing = SelectSeq(@, LAMBDA e : e.seq # s)]

(* A packet behind the highest one is a late one or a retransmission; one   *)
(* ahead puts the packets between on the list.                              *)
nack_receiver_process_packet(r, s, now) ==
  IF ~r.initialized THEN [r EXCEPT !.initialized = TRUE, !.highest = s]
  ELSE IF nack_seq_diff(s, r.highest) <= 0 THEN remove_missing_packet(r, s)
  ELSE LET expected == (r.highest + 1) % NkSeqMod
           gap      == nack_seq_diff(s, expected)
           tracked  == IF gap < NkMaxMissing THEN gap ELSE NkMaxMissing
           lost     == [i \in 1 .. tracked |-> (expected + i - 1) % NkSeqMod]
       IN  [FoldLeft(LAMBDA q, m : add_missing_packet(q, m, now), r, lost) EXCEPT !.highest = s]

NkGivenUp(e, now) == now - e.first > NkMaxAge \/ e.retries >= NkMaxRetries

NkDue(e, now) == ~NkGivenUp(e, now) /\ ~(e.last > 0 /\ now - e.last < NkRetry)

(* The first `max` entries that are due. *)
nack_receiver_get_nacks(r, max, now) ==
  LET due   == {i \in DOMAIN r.missing : NkDue(r.missing[i], now)}
      taken == {i \in due : Cardinality({j \in due : j < i}) < max}
  IN  [r |-> [r EXCEPT !.missing = [i \in DOMAIN @ |->
                IF i \in taken THEN [@[i] EXCEPT !.last = now, !.retries = r.missing[i].retries + 1]
                ELSE @[i]]],
       seqs |-> [k \in 1 .. Cardinality(taken) |->
                   r.missing[CHOOSE i \in taken : Cardinality({j \in taken : j < i}) = k - 1].seq]]

nack_receiver_cleanup_old(r, now) ==
  [r EXCEPT !.missing = SelectSeq(@, LAMBDA e : ~NkGivenUp(e, now))]

-----------------------------------------------------------------------------
(* The RTCP message: a block is a PID and the set of bits of its BLP.       *)

(* How many numbers from position i on go in the block that begins there. *)
NkBlockLen(seqs, i) ==
  LET fits(j) == /\ j <= Len(seqs) /\ j < i + NkBlpBits + 1
                 /\ nack_seq_diff(seqs[j], seqs[i]) \in 1 .. NkBlpBits
  IN  CHOOSE k \in 1 .. Len(seqs) - i + 1 :
        (\A j \in i + 1 .. i + k - 1 : fits(j)) /\ ~fits(i + k)

NkBlock(seqs, i) ==
  [pid |-> seqs[i],
   blp |-> {nack_seq_diff(seqs[j], seqs[i]) - 1 : j \in i + 1 .. i + NkBlockLen(seqs, i) - 1}]

nack_build_rtcp(seqs) ==
  LET from[i \in 1 .. Len(seqs) + 1] ==
        IF i > Len(seqs) THEN <<>> ELSE <<NkBlock(seqs, i)>> \o from[i + NkBlockLen(seqs, i)]
  IN  from[1]

NkBlockSeqs(b) ==
  <<b.pid>> \o [k \in 1 .. Cardinality(b.blp) |->
     (b.pid + 1 + CHOOSE bit \in b.blp : Cardinality({c \in b.blp : c < bit}) = k - 1) % NkSeqMod]

nack_parse_rtcp(blocks, max) ==
  LET all == FlattenSeq([i \in DOMAIN blocks |-> NkBlockSeqs(blocks[i])])
  IN  SubSeq(all, 1, IF Len(all) < max THEN Len(all) ELSE max)

-----------------------------------------------------------------------------
(* The sender *)

rtp_history_put(h, n) == [h EXCEPT ![NkSeq(n) % NkHistory] = n]

rtp_history_get(h, s) ==
  LET n == h[s % NkHistory] IN IF n # NkNone /\ NkSeq(n) = s THEN n ELSE NkNone

nack_sender_process_nack(h, seqs) ==
  {rtp_history_get(h, seqs[i]) : i \in DOMAIN seqs} \ {NkNone}

-----------------------------------------------------------------------------
NkInit ==
  /\ nk = nack_receiver_create
  /\ nkHist = [i \in 0 .. NkHistory - 1 |-> NkNone]
  /\ nkSent = 0 /\ nkGot = {} /\ nkAsks = [n \in NkPackets |-> 0]
  /\ nkAsked = <<>> /\ nkMsg = <<>> /\ nkResent = {} /\ nkNow = 1

(* A packet longer than max_packet_size does not get into the history. *)
nack_sender_add_packet(fits) ==
  /\ nkSent < NkMaxPackets
  /\ nkHist' = IF fits THEN rtp_history_put(nkHist, nkSent) ELSE nkHist
  /\ nkSent' = nkSent + 1
  /\ UNCHANGED <<nk, nkGot, nkAsks, nkAsked, nkMsg, nkResent, nkNow>>

NkArrive(n) ==
  /\ n < nkSent
  /\ nk' = nack_receiver_process_packet(nk, NkSeq(n), nkNow)
  /\ nkGot' = nkGot \union {n}
  /\ UNCHANGED <<nkHist, nkSent, nkAsks, nkAsked, nkMsg, nkResent, nkNow>>

NkAsk ==
  \E r \in {nack_receiver_get_nacks(nk, NkCount, nkNow)} :
    /\ r.seqs # <<>>
    /\ nk' = r.r
    /\ nkAsks' = [n \in NkPackets |-> nkAsks[n] + IF \E i \in DOMAIN r.seqs : NkPlace(r.seqs[i]) = n
                                                 THEN 1 ELSE 0]
    /\ nkAsked' = r.seqs
    /\ nkMsg' = nack_build_rtcp(r.seqs)
    /\ nkResent' = {}
    /\ UNCHANGED <<nkHist, nkSent, nkGot, nkNow>>

NkCleanup ==
  /\ nk' = nack_receiver_cleanup_old(nk, nkNow)
  /\ UNCHANGED <<nkHist, nkSent, nkGot, nkAsks, nkAsked, nkMsg, nkResent, nkNow>>

NkMessage ==
  /\ nkMsg # <<>>
  /\ nkResent' = nack_sender_process_nack(nkHist, nack_parse_rtcp(nkMsg, NkCount))
  /\ UNCHANGED <<nk, nkHist, nkSent, nkGot, nkAsks, nkAsked, nkMsg, nkNow>>

NkTick ==
  /\ nkNow < NkMaxTime
  /\ nkNow' = nkNow + 1
  /\ UNCHANGED <<nk, nkHist, nkSent, nkGot, nkAsks, nkAsked, nkMsg, nkResent>>

NkNext ==
  \/ \E fits \in BOOLEAN : nack_sender_add_packet(fits)
  \/ \E n \in NkPackets : NkArrive(n)
  \/ NkAsk \/ NkCleanup \/ NkMessage \/ NkTick

NkSpec == NkInit /\ [][NkNext]_nkVars

-----------------------------------------------------------------------------
(* Properties *)

(* The receiver lists and asks for packets that it really misses: none of   *)
(* them has come, each is behind the highest one, none is listed twice, and *)
(* none is asked for more than NACK_MAX_RETRIES times, whatever the order   *)
(* in which packets come and however the list is cleaned up.                *)
NkAsksMissing ==
  /\ \A i, j \in DOMAIN nk.missing : nk.missing[i].seq = nk.missing[j].seq => i = j
  /\ \A s \in NkMissing(nk) : NkPlace(s) \notin nkGot /\ NkPlace(s) < NkPlace(nk.highest)
  /\ \A n \in NkPackets : nkAsks[n] <= NkMaxRetries

(* The sender answers a request only with packets that were asked for, also *)
(* when its history has moved on, and the blocks of the message name the    *)
(* numbers of the request and no others, also across the wrap.              *)
NkResendsAsked ==
  LET asked == {NkPlace(nkAsked[i]) : i \in DOMAIN nkAsked}
  IN  /\ nkResent \subseteq asked
      /\ {NkPlace(s) : s \in Range(nack_parse_rtcp(nkMsg, NkCount))} = asked

(* Both ends of the negative acknowledgement keep to what is missing. *)
NkExact == NkAsksMissing /\ NkResendsAsked
=============================================================================
