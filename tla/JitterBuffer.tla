---------------------------- MODULE JitterBuffer ----------------------------
(***************************************************************************)
(* The jitter buffer of a received RTP track (rtc/media/jitter_buffer.c): a *)
(* ring of slots indexed by the sequence number, from which packets are     *)
(* taken in order of their numbers once they have waited long enough, and   *)
(* which skips a number when a later packet is there.                       *)
(*                                                                          *)
(* Packets are named by their place 0, 1, 2, ... in the stream; what the    *)
(* code sees of a packet is its sequence number, the place modulo 2^16.     *)
(* The network loses, duplicates and reorders them.                         *)
(***************************************************************************)
EXTENDS Integers, FiniteSets

CONSTANTS
  JbSize,     \* JITTER_BUFFER_SIZE
  JbSeqMod,   \* 2^16: how many sequence numbers there are
  JbMaxPacket \* bound: the last packet of the stream

ASSUME JbConstants ==
  /\ JbSize \in Nat /\ JbSize % 4 = 0 /\ JbSize > 0
  /\ JbSeqMod \in Nat /\ JbSeqMod % JbSize = 0 /\ JbSeqMod \div 2 >= JbSize
  /\ JbMaxPacket \in Nat

VARIABLES
  jb,      \* jitter_buffer_t; a slot holds the packet, or JbNone if it is not valid
  jbNext,  \* the packet that the buffer waits for: next_seq_out without wrap
  jbHeld,  \* the packets accepted at or after that one
  jbOut    \* the two packets handed out last, JbNone before the first ones

jbVars == <<jb, jbNext, jbHeld, jbOut>>

JbNone == -1
JbPackets == 0 .. JbMaxPacket

jitter_buffer_create ==
  [initialized |-> FALSE, next_seq_out |-> 0, slots |-> [i \in 0 .. JbSize - 1 |-> JbNone]]

JbSeq(n) == n % JbSeqMod

(* The difference of two sequence numbers as a 16-bit signed number. *)
seq_diff(s1, s2) ==
  LET d == (s1 - s2) % JbSeqMod IN IF d >= JbSeqMod \div 2 THEN d - JbSeqMod ELSE d

(* JITTER_BUFFER_MASK *)
JbSlot(s) == s % JbSize

(* `valid` of the slot of a sequence number. *)
JbValid(b, s) == b.slots[JbSlot(s)] # JbNone

-----------------------------------------------------------------------------
(* The first packet says where the stream begins. *)
JbStarted(b, n) ==
  IF b.initialized THEN b ELSE [b EXCEPT !.initialized = TRUE, !.next_seq_out = JbSeq(n)]


(* Neither too late nor too far ahead. *)
JbAccepts(b, n) ==
  LET diff == seq_diff(JbSeq(n), b.next_seq_out)
  IN  diff >= -(JbSize \div 2) /\ diff < JbSize \div 2

JbDuplicate(b, n) == JbValid(b, n) /\ JbSeq(b.slots[JbSlot(n)]) = JbSeq(n)

(* `fits`: the payload is not longer than a slot. *)
jitter_buffer_put(b, n, fits) ==
  LET s == JbStarted(b, n)
  IN  IF ~JbAccepts(s, n) THEN [b |-> s, rc |-> -1]
      ELSE IF JbDuplicate(s, n) THEN [b |-> s, rc |-> 1]
      ELSE IF ~fits THEN [b |-> s, rc |-> -1]
      ELSE [b |-> [s EXCEPT !.slots[JbSlot(n)] = n], rc |-> 0]

JbAdvanced(b) == [b EXCEPT !.next_seq_out = (b.next_seq_out + 1) % JbSeqMod]

(* A later packet within a quarter of the ring. *)
JbHaveFuture(b) == \E i \in 1 .. JbSize \div 4 - 1 : JbValid(b, b.next_seq_out + i)

(* `waited`: the packet has been there for the target delay.  A buffer of   *)
(* the caller that is too small changes nothing.                            *)
jitter_buffer_get_ex(b, waited) ==
  IF ~b.initialized THEN [b |-> b, rc |-> 0, packet |-> JbNone]
  ELSE IF ~JbValid(b, b.next_seq_out)
  THEN IF JbHaveFuture(b) THEN [b |-> JbAdvanced(b), rc |-> -1, packet |-> JbNone]
       ELSE [b |-> b, rc |-> 0, packet |-> JbNone]
  ELSE IF ~waited THEN [b |-> b, rc |-> 0, packet |-> JbNone]
  ELSE LET i == JbSlot(b.next_seq_out)
       IN  [b |-> [JbAdvanced(b) EXCEPT !.slots[i] = JbNone], rc |-> 1, packet |-> b.slots[i]]

-----------------------------------------------------------------------------
JbInit == jb = jitter_buffer_create /\ jbNext = 0 /\ jbHeld = {} /\ jbOut = <<JbNone, JbNone>>

(* A packet comes at any time, again or never, but not so late or early     *)
(* that half of the sequence numbers lie between it and the buffer.         *)
JbPut(n) ==
  LET next == IF jb.initialized THEN jbNext ELSE n
  IN  /\ n - next < JbSeqMod \div 2 /\ next - n <= JbSeqMod \div 2
      /\ \E fits \in BOOLEAN : \E r \in {jitter_buffer_put(jb, n, fits)} :
           /\ jb' = r.b
           /\ jbHeld' = IF r.rc = 0 /\ n >= next THEN jbHeld \union {n} ELSE jbHeld
      /\ jbNext' = next
      /\ UNCHANGED jbOut

JbGet ==
  \E waited \in BOOLEAN : \E r \in {jitter_buffer_get_ex(jb, waited)} :
    /\ r.rc # 0
    /\ jb' = r.b
    /\ jbNext' = jbNext + 1
    /\ jbHeld' = {n \in jbHeld : n > jbNext}
    /\ jbOut' = IF r.rc = 1 THEN <<jbOut[2], r.packet>> ELSE jbOut

jitter_buffer_reset ==
  /\ jb' = [jb EXCEPT !.initialized = FALSE, !.next_seq_out = 0,
                      !.slots = [i \in DOMAIN jb.slots |-> JbNone]]
  /\ jbNext' = 0 /\ jbHeld' = {} /\ jbOut' = <<JbNone, JbNone>>

JbNext == (\E n \in JbPackets : JbPut(n)) \/ JbGet \/ jitter_buffer_reset

JbSpec == JbInit /\ [][JbNext]_jbVars

-----------------------------------------------------------------------------
(* Properties *)


(* Packets are handed out in the order of the stream and none of them       *)
(* twice.  The buffer is an "Adaptive jitter buffer for RTP packet          *)
(* reordering and playout timing" (jitter_buffer.h:4), and its test expects  *)
(* "Should get in order: 1, 2, 3" (test_jitter_buffer.c:146).               *)
JbInOrder == jbOut[1] # JbNone => jbOut[1] < jbOut[2]
=============================================================================
