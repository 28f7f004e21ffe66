------------------------ MODULE FfmpegDelayed_proofs ------------------------
(* Proofs about the delayed decoder's ring, for every capacity and number   *)
(* of packets.                                                              *)
EXTENDS FfmpegDelayed, TLAPS

(* The index k places on from h in a ring of n slots. *)
RingAt(n, h, k) == (h + k) % n

LEMMA RingIndex ==
  ASSUME NEW n \in Nat \ {0}, NEW h \in 0 .. n - 1, NEW k \in 0 .. n
  PROVE  /\ RingAt(n, h, k) = IF h + k < n THEN h + k ELSE h + k - n
         /\ RingAt(n, h, k) \in 0 .. n - 1
<1>1. CASE h + k < n
  <2>1. h + k \in 0 .. n - 1
    BY <1>1
  <2>2. (h + k) % n = h + k
    BY <2>1
  <2>3. QED
    BY <1>1, <2>1, <2>2 DEF RingAt
<1>2. CASE ~(h + k < n)
  <2>1. h + k \in n .. 2 * n - 1
    BY <1>2
  <2>2. (h + k) % n = h + k - n
    BY <2>1
  <2>3. h + k - n \in 0 .. n - 1
    BY <2>1
  <2>4. QED
    BY <1>2, <2>2, <2>3 DEF RingAt
<1>3. QED
  BY <1>1, <1>2

(* The slot behind the last of q, and the slots of the others. *)
LEMMA RingPut ==
  ASSUME NEW n \in Nat \ {0}, NEW h \in 0 .. n - 1, NEW q \in 0 .. n - 1
  PROVE  /\ RingAt(n, RingAt(n, h, q), 1) = RingAt(n, h, q + 1)
         /\ RingAt(n, h, q) \in 0 .. n - 1 /\ RingAt(n, h, q + 1) \in 0 .. n - 1
         /\ \A k \in 0 .. q - 1 :
              RingAt(n, h, k) \in 0 .. n - 1 /\ RingAt(n, h, k) # RingAt(n, h, q)
<1>1. q \in 0 .. n /\ q + 1 \in 0 .. n /\ 1 \in 0 .. n
  OBVIOUS
<1>2. /\ RingAt(n, h, q) = IF h + q < n THEN h + q ELSE h + q - n
      /\ RingAt(n, h, q) \in 0 .. n - 1
  BY <1>1, RingIndex, Zenon
<1>3. RingAt(n, RingAt(n, h, q), 1)
        = IF RingAt(n, h, q) + 1 < n THEN RingAt(n, h, q) + 1 ELSE RingAt(n, h, q) + 1 - n
  BY <1>1, <1>2, RingIndex, Zenon
<1>4. /\ RingAt(n, h, q + 1) = IF h + (q + 1) < n THEN h + (q + 1) ELSE h + (q + 1) - n
      /\ RingAt(n, h, q + 1) \in 0 .. n - 1
  BY <1>1, RingIndex, Zenon
<1>5. ASSUME NEW k \in 0 .. q - 1
      PROVE  RingAt(n, h, k) \in 0 .. n - 1 /\ RingAt(n, h, k) # RingAt(n, h, q)
  <2>1. k \in 0 .. n
    OBVIOUS
  <2>2. /\ RingAt(n, h, k) = IF h + k < n THEN h + k ELSE h + k - n
        /\ RingAt(n, h, k) \in 0 .. n - 1
    BY <2>1, RingIndex, Zenon
  <2>3. QED
    BY <1>2, <2>2
<1>6. QED
  BY <1>2, <1>3, <1>4, <1>5

(* The ring of q without its first slot. *)
LEMMA RingTake ==
  ASSUME NEW n \in Nat \ {0}, NEW h \in 0 .. n - 1, NEW q \in 1 .. n
  PROVE  /\ RingAt(n, h, 1) \in 0 .. n - 1 /\ RingAt(n, h, 0) = h
         /\ RingAt(n, RingAt(n, h, 1), q - 1) = RingAt(n, h, q)
         /\ \A k \in 0 .. q - 2 :
              /\ RingAt(n, RingAt(n, h, 1), k) = RingAt(n, h, k + 1)
              /\ RingAt(n, h, k + 1) \in 0 .. n - 1 /\ RingAt(n, h, k + 1) # h
<1>1. 0 \in 0 .. n /\ 1 \in 0 .. n
  OBVIOUS
<1>2. /\ RingAt(n, h, 1) = IF h + 1 < n THEN h + 1 ELSE h + 1 - n
      /\ RingAt(n, h, 1) \in 0 .. n - 1
      /\ RingAt(n, h, 0) = IF h + 0 < n THEN h + 0 ELSE h + 0 - n
  BY <1>1, RingIndex, Zenon
<1>3. ASSUME NEW k \in 0 .. q - 1
      PROVE  /\ RingAt(n, RingAt(n, h, 1), k) = RingAt(n, h, k + 1)
             /\ RingAt(n, h, k + 1) = IF h + (k + 1) < n THEN h + (k + 1) ELSE h + (k + 1) - n
             /\ RingAt(n, h, k + 1) \in 0 .. n - 1
  <2>1. k \in 0 .. n /\ k + 1 \in 0 .. n
    OBVIOUS
  <2>2. RingAt(n, RingAt(n, h, 1), k)
          = IF RingAt(n, h, 1) + k < n THEN RingAt(n, h, 1) + k ELSE RingAt(n, h, 1) + k - n
    BY <1>2, <2>1, RingIndex, Zenon
  <2>3. /\ RingAt(n, h, k + 1) = IF h + (k + 1) < n THEN h + (k + 1) ELSE h + (k + 1) - n
        /\ RingAt(n, h, k + 1) \in 0 .. n - 1
    BY <2>1, RingIndex, Zenon
  <2>4. QED
    BY <1>2, <2>2, <2>3
<1>4. RingAt(n, RingAt(n, h, 1), q - 1) = RingAt(n, h, q)
  <2>1. q - 1 \in 0 .. q - 1 /\ (q - 1) + 1 = q
    OBVIOUS
  <2>2. QED
    BY <1>3, <2>1
<1>5. ASSUME NEW k \in 0 .. q - 2
      PROVE  /\ RingAt(n, RingAt(n, h, 1), k) = RingAt(n, h, k + 1)
             /\ RingAt(n, h, k + 1) \in 0 .. n - 1 /\ RingAt(n, h, k + 1) # h
  <2>1. k \in 0 .. q - 1
    OBVIOUS
  <2>2. /\ RingAt(n, RingAt(n, h, 1), k) = RingAt(n, h, k + 1)
        /\ RingAt(n, h, k + 1) = IF h + (k + 1) < n THEN h + (k + 1) ELSE h + (k + 1) - n
        /\ RingAt(n, h, k + 1) \in 0 .. n - 1
    BY <1>3, <2>1, Zenon
  <2>3. QED
    BY <2>2
<1>6. QED
  BY <1>2, <1>4, <1>5

(* The packets in the ring are the next ones to send. *)
RingHolds(n, h, q, s, slots) ==
  \A k \in 0 .. q - 1 : slots[RingAt(n, h, k)] = s + 1 + k

FfdRing(d) == RingHolds(FfdLimit, d.head, d.queued, d.sent, d.slots)

LEMMA FfdTypes ==
  ASSUME FfdInv
  PROVE  /\ ffd \in FfdDecoder /\ FfdLimit \in Nat \ {0}
         /\ ffd.head \in 0 .. FfdLimit - 1 /\ ffd.tail \in 0 .. FfdLimit - 1
         /\ ffd.queued \in 0 .. FfdLimit /\ ffd.sent \in Nat /\ ffd.admitted \in Nat
         /\ ffd.slots \in [0 .. FfdLimit - 1 -> Nat]
         /\ ffdSent \in Seq(Nat) /\ ffdSteps \in Nat \union {-1}
         /\ Len(ffdSent) = ffd.sent + (IF ffd.flushed THEN 1 ELSE 0)
         /\ \A i \in 1 .. Len(ffdSent) : ffdSent[i] = IF i <= ffd.sent THEN i ELSE 0
         /\ ~ffd.cancelled => ffd.admitted = ffd.sent + ffd.queued /\ FfdRing(ffd)
         /\ ffdSteps + ffd.queued + (IF ffd.flushed THEN 0 ELSE 1) <= FfdLimit + 1
         /\ ffd.tail = RingAt(FfdLimit, ffd.head, ffd.queued)
         /\ ffd.flushed => ffd.finishing /\ ffd.queued = 0
         /\ ffd.cancelled => ffd.queued = 0
BY FfdConstants
   DEF FfdInv, FfdTypeOK, FfdOrderly, FfdPacketsOnce, FfdLoopBounded, FfdRing, RingHolds,
       FfdDecoder, RingAt

(* A step that leaves the ring and what was sent alone, and ends, starts or *)
(* goes on with a call.                                                     *)
LEMMA FfdQuiet ==
  ASSUME FfdInv, ffd' \in FfdDecoder,
         ffd'.slots = ffd.slots, ffd'.head = ffd.head, ffd'.tail = ffd.tail,
         ffd'.queued = ffd.queued, ffd'.flushed = ffd.flushed,
         ffd'.cancelled = ffd.cancelled, ffd'.sent = ffd.sent, ffd'.admitted = ffd.admitted,
         ffd.finishing => ffd'.finishing,
         ffdSteps' \in {-1, 0, ffdSteps}, ffdSent' = ffdSent
  PROVE  FfdInv'
<1>1. FfdTypeOK'
  BY FfdTypes DEF FfdTypeOK
<1>2. FfdPacketsOnce'
  BY DEF FfdInv, FfdOrderly, FfdPacketsOnce
<1>3. FfdLoopBounded'
  BY FfdTypes DEF FfdLoopBounded
<1>4. QED
  BY <1>1, <1>2, <1>3 DEF FfdInv, FfdOrderly

(* A decoder is the record of its fields. *)
LEMMA FfdIntro ==
  ASSUME NEW d,
         d = [alive |-> d.alive, slots |-> d.slots, head |-> d.head, tail |-> d.tail,
              queued |-> d.queued, finishing |-> d.finishing, flushed |-> d.flushed,
              cancelled |-> d.cancelled, eof |-> d.eof, codec_error |-> d.codec_error,
              last_pts |-> d.last_pts, admitted |-> d.admitted, sent |-> d.sent,
              decoded |-> d.decoded],
         d.alive \in BOOLEAN, d.finishing \in BOOLEAN, d.flushed \in BOOLEAN,
         d.cancelled \in BOOLEAN, d.eof \in BOOLEAN, d.codec_error \in BOOLEAN,
         d.slots \in [0 .. FfdLimit - 1 -> Nat], d.head \in 0 .. FfdLimit - 1,
         d.tail \in 0 .. FfdLimit - 1, d.queued \in 0 .. FfdLimit, d.last_pts \in Nat,
         d.admitted \in Nat, d.sent \in Nat, d.decoded \in Nat
  PROVE  d \in FfdDecoder
BY DEF FfdDecoder

LEMMA FfdFields ==
  ASSUME NEW d \in FfdDecoder
  PROVE  /\ d.alive \in BOOLEAN /\ d.finishing \in BOOLEAN /\ d.flushed \in BOOLEAN
         /\ d.cancelled \in BOOLEAN /\ d.eof \in BOOLEAN /\ d.codec_error \in BOOLEAN
         /\ d.slots \in [0 .. FfdLimit - 1 -> Nat] /\ d.head \in 0 .. FfdLimit - 1
         /\ d.tail \in 0 .. FfdLimit - 1 /\ d.queued \in 0 .. FfdLimit /\ d.last_pts \in Nat
         /\ d.admitted \in Nat /\ d.sent \in Nat /\ d.decoded \in Nat
BY DEF FfdDecoder

(* A packet enters the ring at its tail. *)
LEMMA FfdSubmitStep ==
  ASSUME FfdInv, FfdSubmit
  PROVE  FfdInv'
<1>1. /\ ~ffd.cancelled /\ ~ffd.finishing /\ ffd.queued # FfdLimit
      /\ ffdSteps' = -1 /\ ffdSent' = ffdSent
  BY DEF FfdSubmit, FfdIdle, FfdEnded, FfdRoom
<1>2. /\ FfdLimit \in Nat \ {0} /\ ffd.head \in 0 .. FfdLimit - 1
      /\ ffd.queued \in 0 .. FfdLimit - 1 /\ ffd.sent \in Nat /\ ffd.admitted \in Nat
      /\ ffd \in FfdDecoder /\ ffd.slots \in [0 .. FfdLimit - 1 -> Nat]
      /\ ffd.tail = RingAt(FfdLimit, ffd.head, ffd.queued)
  BY <1>1, FfdTypes
<1>3. ~ffd.flushed /\ ffd.admitted = ffd.sent + ffd.queued /\ FfdRing(ffd)
  BY <1>1, FfdTypes
<1>4. /\ ffd'.slots = [ffd.slots EXCEPT ![ffd.tail] = ffd.admitted + 1]
      /\ ffd'.head = ffd.head /\ ffd'.tail = RingAt(FfdLimit, ffd.tail, 1)
      /\ ffd'.queued = ffd.queued + 1
      /\ ffd'.admitted = ffd.admitted + 1 /\ ffd'.sent = ffd.sent
      /\ ffd'.flushed = ffd.flushed /\ ffd'.cancelled = ffd.cancelled
      /\ ffd'.finishing = ffd.finishing /\ ffd'.alive = ffd.alive /\ ffd'.eof = ffd.eof
      /\ ffd'.codec_error = ffd.codec_error /\ ffd'.last_pts = ffd.last_pts
      /\ ffd'.decoded = ffd.decoded
  BY <1>2 DEF FfdSubmit, FfdDecoder, RingAt
<1>5. ffd' = [alive |-> ffd'.alive, slots |-> ffd'.slots, head |-> ffd'.head,
              tail |-> ffd'.tail, queued |-> ffd'.queued, finishing |-> ffd'.finishing,
              flushed |-> ffd'.flushed, cancelled |-> ffd'.cancelled, eof |-> ffd'.eof,
              codec_error |-> ffd'.codec_error, last_pts |-> ffd'.last_pts,
              admitted |-> ffd'.admitted, sent |-> ffd'.sent, decoded |-> ffd'.decoded]
  BY <1>2 DEF FfdSubmit, FfdDecoder
<1>6. /\ RingAt(FfdLimit, ffd.tail, 1) = RingAt(FfdLimit, ffd.head, ffd.queued + 1)
      /\ ffd.tail \in 0 .. FfdLimit - 1
      /\ RingAt(FfdLimit, ffd.head, ffd.queued + 1) \in 0 .. FfdLimit - 1
      /\ \A k \in 0 .. ffd.queued - 1 :
           /\ RingAt(FfdLimit, ffd.head, k) \in 0 .. FfdLimit - 1
           /\ RingAt(FfdLimit, ffd.head, k) # ffd.tail
  <2> DEFINE h == ffd.head
             q == ffd.queued
  <2>1. /\ RingAt(FfdLimit, RingAt(FfdLimit, h, q), 1) = RingAt(FfdLimit, h, q + 1)
        /\ RingAt(FfdLimit, h, q) \in 0 .. FfdLimit - 1
        /\ RingAt(FfdLimit, h, q + 1) \in 0 .. FfdLimit - 1
        /\ \A k \in 0 .. q - 1 :
             /\ RingAt(FfdLimit, h, k) \in 0 .. FfdLimit - 1
             /\ RingAt(FfdLimit, h, k) # RingAt(FfdLimit, h, q)
    <3>1. /\ FfdLimit \in Nat \ {0} /\ ffd.head \in 0 .. FfdLimit - 1
          /\ ffd.queued \in 0 .. FfdLimit - 1
      BY <1>2
    <3>2. QED
      BY <3>1, RingPut, Zenon
  <2>2. ffd.tail = RingAt(FfdLimit, h, q)
    BY <1>2
  <2>3. QED
    BY <2>1, <2>2, Zenon
<1>7. ffd' \in FfdDecoder
  <2>1. ffd'.tail \in 0 .. FfdLimit - 1
    BY <1>2, <1>4, <1>6
  <2>2. ffd'.slots \in [0 .. FfdLimit - 1 -> Nat]
    <3>1. ffd.admitted + 1 \in Nat /\ ffd.slots \in [0 .. FfdLimit - 1 -> Nat]
      BY <1>2
    <3>2. ffd'.slots = [ffd.slots EXCEPT ![ffd.tail] = ffd.admitted + 1]
      BY <1>4
    <3>3. QED
      BY <3>1, <3>2
  <2>3. ffd'.queued \in 0 .. FfdLimit /\ ffd'.admitted \in Nat
    BY <1>2, <1>4
  <2>4. QED
    BY <1>2, <1>4, <1>5, <2>1, <2>2, <2>3, FfdFields, FfdIntro
<1>8. ffd'.tail = RingAt(FfdLimit, ffd'.head, ffd'.queued)
  BY <1>4, <1>6
<1>9. ASSUME NEW k \in 0 .. ffd.queued
      PROVE  ffd'.slots[RingAt(FfdLimit, ffd.head, k)] = ffd.sent + 1 + k
  <2>1. CASE k = ffd.queued
    <3>1. ffd'.slots[ffd.tail] = ffd.admitted + 1
      BY <1>2, <1>4, <1>6
    <3>2. QED
      BY <1>2, <1>3, <2>1, <3>1
  <2>2. CASE k \in 0 .. ffd.queued - 1
    <3>1. ffd'.slots[RingAt(FfdLimit, ffd.head, k)] = ffd.slots[RingAt(FfdLimit, ffd.head, k)]
      BY <1>2, <1>4, <1>6, <2>2
    <3>2. QED
      BY <1>3, <2>2, <3>1 DEF FfdRing, RingHolds
  <2>3. QED
    BY <1>2, <2>1, <2>2
<1>10. FfdPacketsOnce'
  <2>1. ffd'.admitted = ffd'.sent + ffd'.queued
    BY <1>2, <1>3, <1>4
  <2>2. 0 .. ffd'.queued - 1 = 0 .. ffd.queued
    BY <1>2, <1>4
  <2>3. \A k \in 0 .. ffd'.queued - 1 :
          ffd'.slots[RingAt(FfdLimit, ffd'.head, k)] = ffd'.sent + 1 + k
    BY <1>4, <1>9, <2>2
  <2>4. QED
    BY <1>1, <1>4, <2>1, <2>3 DEF FfdInv, FfdOrderly, FfdPacketsOnce, RingAt
<1>11. FfdLoopBounded'
  BY <1>1, <1>2, <1>3, <1>4 DEF FfdLoopBounded
<1>12. QED
  BY <1>1, <1>3, <1>4, <1>7, <1>8, <1>10, <1>11, FfdTypes DEF FfdInv, FfdTypeOK, FfdOrderly, RingAt

(* A cancellation empties the ring. *)
LEMMA FfdCancelStep ==
  ASSUME FfdInv, FfdCancel
  PROVE  FfdInv'
<1>1. ffdSteps' = -1 /\ ffdSent' = ffdSent
  BY DEF FfdCancel, FfdIdle
<1>2. ffd \in FfdDecoder /\ FfdLimit \in Nat \ {0} /\ DOMAIN ffd.slots = 0 .. FfdLimit - 1
  BY FfdTypes
<1>3. /\ ffd'.slots = [i \in DOMAIN ffd.slots |-> 0]
      /\ ffd'.head = 0 /\ ffd'.tail = 0 /\ ffd'.queued = 0 /\ ffd'.cancelled = TRUE
      /\ ffd'.admitted = ffd.admitted /\ ffd'.sent = ffd.sent /\ ffd'.flushed = ffd.flushed
      /\ ffd'.finishing = ffd.finishing /\ ffd'.alive = ffd.alive /\ ffd'.eof = ffd.eof
      /\ ffd'.codec_error = ffd.codec_error /\ ffd'.last_pts = ffd.last_pts
      /\ ffd'.decoded = ffd.decoded
  BY <1>2 DEF FfdCancel, FfdDecoder
<1>4. ffd' = [alive |-> ffd'.alive, slots |-> ffd'.slots, head |-> ffd'.head,
              tail |-> ffd'.tail, queued |-> ffd'.queued, finishing |-> ffd'.finishing,
              flushed |-> ffd'.flushed, cancelled |-> ffd'.cancelled, eof |-> ffd'.eof,
              codec_error |-> ffd'.codec_error, last_pts |-> ffd'.last_pts,
              admitted |-> ffd'.admitted, sent |-> ffd'.sent, decoded |-> ffd'.decoded]
  BY <1>2 DEF FfdCancel, FfdDecoder
<1>5. ffd' \in FfdDecoder
  <2>1. ffd'.slots \in [0 .. FfdLimit - 1 -> Nat]
    BY <1>2, <1>3
  <2>2. 0 \in 0 .. FfdLimit - 1 /\ 0 \in 0 .. FfdLimit
    BY <1>2
  <2>3. QED
    BY <1>2, <1>3, <1>4, <2>1, <2>2, FfdFields, FfdIntro
<1>6. RingAt(FfdLimit, 0, 0) = 0
  <2>1. 0 \in 0 .. FfdLimit - 1 /\ 0 \in 0 .. FfdLimit
    BY <1>2
  <2>2. RingAt(FfdLimit, 0, 0) = IF 0 + 0 < FfdLimit THEN 0 + 0 ELSE 0 + 0 - FfdLimit
    BY <1>2, <2>1, RingIndex, Zenon
  <2>3. QED
    BY <1>2, <2>2
<1>7. FfdPacketsOnce'
  BY <1>1, <1>3 DEF FfdInv, FfdOrderly, FfdPacketsOnce
<1>8. FfdLoopBounded'
  BY <1>1, <1>2, <1>3 DEF FfdLoopBounded
<1>9. QED
  BY <1>1, <1>3, <1>5, <1>6, <1>7, <1>8, FfdTypes DEF FfdInv, FfdTypeOK, FfdOrderly, RingAt

(* The ring s, s + 1, ... without its first packet. *)
LEMMA RingSent ==
  ASSUME NEW n \in Nat \ {0}, NEW h \in 0 .. n - 1, NEW q \in 1 .. n, NEW s \in Nat,
         NEW slots \in [0 .. n - 1 -> Nat], RingHolds(n, h, q, s, slots)
  PROVE  /\ slots[h] = s + 1
         /\ RingHolds(n, RingAt(n, h, 1), q - 1, s + 1, [slots EXCEPT ![h] = 0])
<1> DEFINE new == [slots EXCEPT ![h] = 0]
<1>1. /\ RingAt(n, h, 0) = h
      /\ \A k \in 0 .. q - 2 :
           /\ RingAt(n, RingAt(n, h, 1), k) = RingAt(n, h, k + 1)
           /\ RingAt(n, h, k + 1) \in 0 .. n - 1 /\ RingAt(n, h, k + 1) # h
  BY RingTake, Zenon
<1>2. slots[h] = s + 1
  <2>1. 0 \in 0 .. q - 1
    OBVIOUS
  <2>2. slots[RingAt(n, h, 0)] = s + 1 + 0
    BY <2>1 DEF RingHolds
  <2>3. QED
    BY <1>1, <2>2
<1>3. ASSUME NEW k \in 0 .. q - 2
      PROVE  new[RingAt(n, RingAt(n, h, 1), k)] = (s + 1) + 1 + k
  <2>1. k + 1 \in 0 .. q - 1
    OBVIOUS
  <2>2. slots[RingAt(n, h, k + 1)] = s + 1 + (k + 1)
    BY <2>1 DEF RingHolds
  <2>3. new[RingAt(n, h, k + 1)] = slots[RingAt(n, h, k + 1)]
    BY <1>1
  <2>4. new[RingAt(n, RingAt(n, h, 1), k)] = new[RingAt(n, h, k + 1)]
    BY <1>1
  <2> HIDE DEF new
  <2>5. QED
    BY <2>2, <2>3, <2>4
<1>4. 0 .. (q - 1) - 1 = 0 .. q - 2
  OBVIOUS
<1>5. RingHolds(n, RingAt(n, h, 1), q - 1, s + 1, new)
  <2> HIDE DEF new
  <2>1. QED
    BY <1>3, <1>4 DEF RingHolds
<1>6. QED
  BY <1>2, <1>5

(* The log 1, ..., s of what libavcodec took, with one more entry. *)
LEMMA LogGrows ==
  ASSUME NEW log \in Seq(Nat), NEW s \in Nat, Len(log) = s,
         \A i \in 1 .. Len(log) : log[i] = IF i <= s THEN i ELSE 0,
         NEW e \in Nat, NEW new, new = Append(log, e)
  PROVE  /\ new \in Seq(Nat) /\ Len(new) = s + 1 /\ new[s + 1] = e
         /\ \A i \in 1 .. s : new[i] = i
<1>1. /\ new \in Seq(Nat) /\ Len(new) = s + 1 /\ new[s + 1] = e
      /\ \A i \in 1 .. s : new[i] = log[i]
  OBVIOUS
<1>2. QED
  BY <1>1

(* A packet that libavcodec accepts leaves the ring at its head. *)
LEMMA FfdSentStep ==
  ASSUME FfdInv, FfdSendPacket("ok")
  PROVE  FfdInv'
<1>1. /\ ffdSteps # -1 /\ ffd.queued # 0
      /\ ffdSent' = Append(ffdSent, ffd.slots[ffd.head]) /\ ffdSteps' = ffdSteps + 1
  BY DEF FfdSendPacket, FfdLooping
<1>2. ffd \in FfdDecoder
  BY FfdTypes
<1>3. /\ FfdLimit \in Nat \ {0} /\ ffd.head \in 0 .. FfdLimit - 1
      /\ ffd.queued \in 1 .. FfdLimit /\ ffd.sent \in Nat /\ ffd.admitted \in Nat
      /\ ffdSteps \in Nat
      /\ ffdSteps + ffd.queued + (IF ffd.flushed THEN 0 ELSE 1) <= FfdLimit + 1
  <2>1. /\ FfdLimit \in Nat \ {0} /\ ffd.head \in 0 .. FfdLimit - 1
        /\ ffd.queued \in 0 .. FfdLimit /\ ffd.sent \in Nat /\ ffd.admitted \in Nat
        /\ ffdSteps \in Nat \union {-1}
        /\ ffdSteps + ffd.queued + (IF ffd.flushed THEN 0 ELSE 1) <= FfdLimit + 1
    BY FfdTypes
  <2>2. QED
    BY <1>1, <2>1
<1>4. /\ ffd.slots \in [0 .. FfdLimit - 1 -> Nat] /\ ffd.tail \in 0 .. FfdLimit - 1
      /\ ffd.tail = RingAt(FfdLimit, ffd.head, ffd.queued)
  BY FfdTypes
<1>5. ~ffd.cancelled /\ ~ffd.flushed /\ ffd.admitted = ffd.sent + ffd.queued
  BY <1>1, FfdTypes
<1>6. RingHolds(FfdLimit, ffd.head, ffd.queued, ffd.sent, ffd.slots)
  BY <1>1, FfdTypes DEF FfdRing
<1>7. /\ ffdSent \in Seq(Nat) /\ Len(ffdSent) = ffd.sent
      /\ \A i \in 1 .. Len(ffdSent) : ffdSent[i] = IF i <= ffd.sent THEN i ELSE 0
  <2>1. Len(ffdSent) = ffd.sent + (IF ffd.flushed THEN 1 ELSE 0)
    BY FfdTypes
  <2>2. QED
    BY <1>3, <1>5, <2>1, FfdTypes
<1>8. /\ ffd'.slots = [ffd.slots EXCEPT ![ffd.head] = 0]
      /\ ffd'.head = RingAt(FfdLimit, ffd.head, 1) /\ ffd'.tail = ffd.tail
      /\ ffd'.queued = ffd.queued - 1
      /\ ffd'.admitted = ffd.admitted /\ ffd'.sent = ffd.sent + 1
      /\ ffd'.flushed = ffd.flushed /\ ffd'.cancelled = ffd.cancelled
      /\ ffd'.finishing = ffd.finishing /\ ffd'.alive = ffd.alive /\ ffd'.eof = ffd.eof
      /\ ffd'.codec_error = ffd.codec_error /\ ffd'.last_pts = ffd.last_pts
      /\ ffd'.decoded = ffd.decoded
  BY <1>2 DEF FfdSendPacket, FfdDecoder, RingAt
<1>9. ffd' = [alive |-> ffd'.alive, slots |-> ffd'.slots, head |-> ffd'.head,
              tail |-> ffd'.tail, queued |-> ffd'.queued, finishing |-> ffd'.finishing,
              flushed |-> ffd'.flushed, cancelled |-> ffd'.cancelled, eof |-> ffd'.eof,
              codec_error |-> ffd'.codec_error, last_pts |-> ffd'.last_pts,
              admitted |-> ffd'.admitted, sent |-> ffd'.sent, decoded |-> ffd'.decoded]
  BY <1>2 DEF FfdSendPacket, FfdDecoder
<1>10. /\ RingAt(FfdLimit, ffd.head, 1) \in 0 .. FfdLimit - 1
       /\ RingAt(FfdLimit, RingAt(FfdLimit, ffd.head, 1), ffd.queued - 1)
            = RingAt(FfdLimit, ffd.head, ffd.queued)
  BY <1>3, RingTake, Zenon
<1>11. /\ ffd.slots[ffd.head] = ffd.sent + 1
       /\ RingHolds(FfdLimit, RingAt(FfdLimit, ffd.head, 1), ffd.queued - 1, ffd.sent + 1,
                    [ffd.slots EXCEPT ![ffd.head] = 0])
  BY <1>3, <1>4, <1>6, RingSent, Zenon
<1>12. ffd' \in FfdDecoder
  <2>1. ffd'.slots \in [0 .. FfdLimit - 1 -> Nat]
    <3>1. 0 \in Nat /\ ffd.slots \in [0 .. FfdLimit - 1 -> Nat]
      BY <1>4
    <3>2. ffd'.slots = [ffd.slots EXCEPT ![ffd.head] = 0]
      BY <1>8
    <3>3. QED
      BY <3>1, <3>2
  <2>2. ffd.queued - 1 \in 0 .. FfdLimit /\ ffd.sent + 1 \in Nat
    BY <1>3
  <2>3. ffd'.queued \in 0 .. FfdLimit /\ ffd'.sent \in Nat
    BY <1>8, <2>2
  <2>4. QED
    BY <1>2, <1>4, <1>8, <1>9, <1>10, <2>1, <2>3, FfdFields, FfdIntro
<1>13. ffd'.tail = RingAt(FfdLimit, ffd'.head, ffd'.queued)
  BY <1>4, <1>8, <1>10, Zenon
<1>14. /\ ffdSent' \in Seq(Nat) /\ Len(ffdSent') = ffd.sent + 1
       /\ ffdSent'[ffd.sent + 1] = ffd.sent + 1 /\ \A i \in 1 .. ffd.sent : ffdSent'[i] = i
  <2>1. ffd.sent + 1 \in Nat
    BY <1>3
  <2>2. ffdSent' = Append(ffdSent, ffd.sent + 1)
    BY <1>1, <1>11
  <2>3. QED
    BY <1>3, <1>7, <2>1, <2>2, LogGrows
<1>15. FfdPacketsOnce'
  <2>1. ffd'.sent = ffd.sent + 1 /\ ffd'.queued = ffd.queued - 1
        /\ ffd'.admitted = ffd.admitted /\ ~ffd'.flushed
    BY <1>5, <1>8
  <2>2. \A i \in 1 .. Len(ffdSent') : ffdSent'[i] = IF i <= ffd'.sent THEN i ELSE 0
    BY <1>3, <1>14, <2>1
  <2>3. Len(ffdSent') = ffd'.sent + (IF ffd'.flushed THEN 1 ELSE 0)
    BY <1>3, <1>14, <2>1
  <2>4. ffd'.admitted = ffd'.sent + ffd'.queued
    BY <1>3, <1>5, <2>1
  <2>5. \A k \in 0 .. ffd'.queued - 1 :
          ffd'.slots[RingAt(FfdLimit, ffd'.head, k)] = ffd'.sent + 1 + k
    <3>1. RingHolds(FfdLimit, ffd'.head, ffd'.queued, ffd'.sent, ffd'.slots)
      BY <1>8, <1>11, Zenon
    <3>2. QED
      BY <3>1 DEF RingHolds
  <2>6. QED
    BY <2>2, <2>3, <2>4, <2>5 DEF FfdPacketsOnce, RingAt
<1>16. FfdLoopBounded'
  <2>1. ffdSteps' = ffdSteps + 1 /\ ffd'.queued = ffd.queued - 1 /\ ~ffd'.flushed
    BY <1>1, <1>5, <1>8
  <2>2. QED
    BY <1>3, <1>5, <2>1 DEF FfdLoopBounded
<1>17. FfdTypeOK'
  <2>1. ffdSteps' \in Nat
    BY <1>1, <1>3
  <2>2. QED
    BY <1>12, <1>14, <2>1 DEF FfdTypeOK
<1>18. QED
  <2>1. ~ffd'.flushed /\ ~ffd'.cancelled
    BY <1>5, <1>8
  <2>2. QED
    BY <1>13, <1>15, <1>16, <1>17, <2>1 DEF FfdInv, FfdOrderly, RingAt

(* The flush goes behind all packets. *)
LEMMA FfdFlushedStep ==
  ASSUME FfdInv, FfdSendFlush("ok")
  PROVE  FfdInv'
<1>0. /\ ffdSteps # -1 /\ ffd.queued = 0 /\ ffd.finishing /\ ~ffd.flushed
      /\ ffd' = [ffd EXCEPT !.flushed = TRUE]
      /\ ffdSent' = Append(ffdSent, 0) /\ ffdSteps' = ffdSteps + 1
  BY DEF FfdSendFlush, FfdLooping
<1>1. /\ ffd \in FfdDecoder /\ ffd.sent \in Nat /\ ffdSent \in Seq(Nat) /\ ffdSteps \in Nat
      /\ ffdSteps + ffd.queued + (IF ffd.flushed THEN 0 ELSE 1) <= FfdLimit + 1
      /\ FfdLimit \in Nat /\ Len(ffdSent) = ffd.sent
      /\ \A i \in 1 .. Len(ffdSent) : ffdSent[i] = IF i <= ffd.sent THEN i ELSE 0
  BY <1>0, FfdTypes
<1>2. /\ ffd' \in FfdDecoder /\ ffd'.slots = ffd.slots /\ ffd'.head = ffd.head
      /\ ffd'.tail = ffd.tail /\ ffd'.queued = ffd.queued /\ ffd'.flushed = TRUE
      /\ ffd'.cancelled = ffd.cancelled /\ ffd'.sent = ffd.sent /\ ffd'.admitted = ffd.admitted
      /\ ffd'.finishing = ffd.finishing
  BY <1>0, <1>1 DEF FfdDecoder
<1>3. /\ ffdSent' \in Seq(Nat) /\ Len(ffdSent') = ffd.sent + 1
      /\ ffdSent'[ffd.sent + 1] = 0
      /\ \A i \in 1 .. ffd.sent : ffdSent'[i] = ffdSent[i]
  BY <1>0, <1>1
<1>4. FfdPacketsOnce'
  <2>1. \A i \in 1 .. Len(ffdSent') : ffdSent'[i] = IF i <= ffd'.sent THEN i ELSE 0
    BY <1>1, <1>2, <1>3
  <2>2. Len(ffdSent') = ffd'.sent + (IF ffd'.flushed THEN 1 ELSE 0)
    BY <1>1, <1>2, <1>3
  <2>3. QED
    BY <1>0, <1>2, <2>1, <2>2 DEF FfdInv, FfdOrderly, FfdPacketsOnce
<1>5. FfdLoopBounded'
  BY <1>0, <1>1, <1>2 DEF FfdLoopBounded
<1>6. FfdTypeOK'
  BY <1>0, <1>1, <1>2, <1>3 DEF FfdTypeOK
<1>7. QED
  BY <1>0, <1>2, <1>4, <1>5, <1>6 DEF FfdInv, FfdOrderly

LEMMA FfdStep ==
  ASSUME FfdInv, [FfdNext]_ffdVars
  PROVE  FfdInv'
<1>1. ffd \in FfdDecoder
  BY FfdTypes
<1>2. CASE UNCHANGED ffdVars
  BY <1>1, <1>2, FfdQuiet DEF ffdVars
<1>3. CASE FfdSubmit
  BY <1>3, FfdSubmitStep
<1>4. CASE FfdFinish
  <2>1. /\ ffd' = [ffd EXCEPT !.finishing = TRUE] /\ UNCHANGED <<ffdSteps, ffdSent>>
    BY <1>4 DEF FfdFinish
  <2>2. /\ ffd' \in FfdDecoder /\ ffd'.slots = ffd.slots /\ ffd'.head = ffd.head
        /\ ffd'.tail = ffd.tail /\ ffd'.queued = ffd.queued /\ ffd'.flushed = ffd.flushed
        /\ ffd'.cancelled = ffd.cancelled /\ ffd'.sent = ffd.sent /\ ffd'.admitted = ffd.admitted
        /\ ffd'.finishing
    BY <1>1, <2>1 DEF FfdDecoder
  <2>3. QED
    BY <2>1, <2>2, FfdQuiet
<1>5. CASE FfdCancel
  BY <1>5, FfdCancelStep
<1>6. CASE FfdNextLuma
  BY <1>1, <1>6, FfdQuiet DEF FfdNextLuma
<1>7. ASSUME NEW pts \in FfdPts, FfdPicture(pts)
      PROVE  FfdInv'
  <2>1. /\ ffd' = [ffd EXCEPT !.last_pts = pts, !.decoded = @ + 1]
           \/ ffd' = [ffd EXCEPT !.codec_error = TRUE]
        /\ ffdSteps' = -1 /\ ffdSent' = ffdSent
    BY <1>7 DEF FfdPicture
  <2>2. /\ ffd'.slots = ffd.slots /\ ffd'.head = ffd.head
        /\ ffd'.tail = ffd.tail /\ ffd'.queued = ffd.queued /\ ffd'.flushed = ffd.flushed
        /\ ffd'.cancelled = ffd.cancelled /\ ffd'.sent = ffd.sent /\ ffd'.admitted = ffd.admitted
        /\ ffd'.finishing = ffd.finishing
    BY <1>1, <2>1 DEF FfdDecoder
  <2>3. ffd' \in FfdDecoder
    <3>1. pts \in Nat /\ ffd.decoded + 1 \in Nat
      BY <1>1, FfdConstants DEF FfdDecoder
    <3>2. QED
      BY <1>1, <2>1, <3>1 DEF FfdDecoder
  <2>4. QED
    BY <2>1, <2>2, <2>3, FfdQuiet
<1>8. CASE FfdReceiveEof
  <2>1. ffd' = [ffd EXCEPT !.eof = TRUE] /\ ffdSteps' = -1 /\ ffdSent' = ffdSent
    BY <1>8 DEF FfdReceiveEof
  <2>2. /\ ffd' \in FfdDecoder /\ ffd'.slots = ffd.slots /\ ffd'.head = ffd.head
        /\ ffd'.tail = ffd.tail /\ ffd'.queued = ffd.queued /\ ffd'.flushed = ffd.flushed
        /\ ffd'.cancelled = ffd.cancelled /\ ffd'.sent = ffd.sent /\ ffd'.admitted = ffd.admitted
        /\ ffd'.finishing = ffd.finishing
    BY <1>1, <2>1 DEF FfdDecoder
  <2>3. QED
    BY <2>1, <2>2, FfdQuiet
<1>9. ASSUME NEW e \in BOOLEAN, ffd' = [ffd EXCEPT !.codec_error = e],
             ffdSteps' = -1, ffdSent' = ffdSent
      PROVE  FfdInv'
  <2>1. /\ ffd' \in FfdDecoder /\ ffd'.slots = ffd.slots /\ ffd'.head = ffd.head
        /\ ffd'.tail = ffd.tail /\ ffd'.queued = ffd.queued /\ ffd'.flushed = ffd.flushed
        /\ ffd'.cancelled = ffd.cancelled /\ ffd'.sent = ffd.sent /\ ffd'.admitted = ffd.admitted
        /\ ffd'.finishing = ffd.finishing
    BY <1>1, <1>9 DEF FfdDecoder
  <2>2. QED
    BY <1>9, <2>1, FfdQuiet
<1>10. CASE FfdReceiveError
  BY <1>9, <1>10 DEF FfdReceiveError
<1>11. ASSUME NEW send \in {"ok", "EAGAIN", "error", "ENOMEM"}, FfdSendPacket(send)
       PROVE  FfdInv'
  <2>1. CASE send = "ok"
    BY <1>11, <2>1, FfdSentStep
  <2>2. CASE send # "ok"
    <3>1. /\ ffd' = [ffd EXCEPT !.codec_error = (send = "error")]
          /\ ffdSteps' = -1 /\ ffdSent' = ffdSent
      BY <1>11, <2>2 DEF FfdSendPacket
    <3>2. (send = "error") \in BOOLEAN
      OBVIOUS
    <3>3. QED
      BY <1>9, <3>1, <3>2
  <2>3. QED
    BY <2>1, <2>2
<1>12. ASSUME NEW send \in {"ok", "EAGAIN", "error", "ENOMEM"}, FfdSendFlush(send)
       PROVE  FfdInv'
  <2>1. CASE send = "ok"
    BY <1>12, <2>1, FfdFlushedStep
  <2>2. CASE send # "ok"
    <3>1. /\ ffd' = [ffd EXCEPT !.codec_error = (send = "error")]
          /\ ffdSteps' = -1 /\ ffdSent' = ffdSent
      BY <1>12, <2>2 DEF FfdSendFlush
    <3>2. (send = "error") \in BOOLEAN
      OBVIOUS
    <3>3. QED
      BY <1>9, <3>1, <3>2
  <2>3. QED
    BY <2>1, <2>2
<1>13. CASE FfdStarved
  <2>1. /\ ffd' = [ffd EXCEPT !.codec_error = ffd.flushed]
        /\ ffdSteps' = -1 /\ ffdSent' = ffdSent
    BY <1>13 DEF FfdStarved
  <2>2. ffd.flushed \in BOOLEAN
    BY <1>1, FfdFields
  <2>3. QED
    BY <1>9, <2>1, <2>2
<1>14. CASE FfdDestroy
  <2>1. ffd' = [ffd EXCEPT !.alive = FALSE] /\ UNCHANGED <<ffdSteps, ffdSent>>
    BY <1>14 DEF FfdDestroy
  <2>2. /\ ffd' \in FfdDecoder /\ ffd'.slots = ffd.slots /\ ffd'.head = ffd.head
        /\ ffd'.tail = ffd.tail /\ ffd'.queued = ffd.queued /\ ffd'.flushed = ffd.flushed
        /\ ffd'.cancelled = ffd.cancelled /\ ffd'.sent = ffd.sent /\ ffd'.admitted = ffd.admitted
        /\ ffd'.finishing = ffd.finishing
    BY <1>1, <2>1 DEF FfdDecoder
  <2>3. QED
    BY <2>1, <2>2, FfdQuiet
<1>15. QED
  BY <1>2, <1>3, <1>4, <1>5, <1>6, <1>7, <1>8, <1>10, <1>11, <1>12, <1>13, <1>14 DEF FfdNext

(* The inductive invariant of the delayed decoder. *)
THEOREM FfdInvariant == FfdSpec => []FfdInv
<1>1. FfdInit => FfdInv
  <2> SUFFICES ASSUME FfdInit PROVE FfdInv
    OBVIOUS
  <2>1. FfdLimit \in Nat \ {0} /\ 0 \in 0 .. FfdLimit - 1 /\ 0 \in 0 .. FfdLimit
    BY FfdConstants
  <2>2. ffd \in FfdDecoder
    BY <2>1 DEF FfdInit, tm_ffd_create, FfdDecoder
  <2>3. /\ ffd.head = 0 /\ ffd.tail = 0 /\ ffd.queued = 0 /\ ~ffd.flushed /\ ~ffd.cancelled
        /\ ffd.admitted = 0 /\ ffd.sent = 0 /\ ffdSteps = -1 /\ ffdSent = <<>>
    BY DEF FfdInit, tm_ffd_create
  <2>4. FfdTypeOK
    BY <2>2, <2>3 DEF FfdTypeOK
  <2>5. FfdPacketsOnce
    BY <2>3 DEF FfdPacketsOnce
  <2>6. FfdLoopBounded
    BY <2>1, <2>3 DEF FfdLoopBounded
  <2>7. RingAt(FfdLimit, 0, 0) = 0
    <3>1. RingAt(FfdLimit, 0, 0) = IF 0 + 0 < FfdLimit THEN 0 + 0 ELSE 0 + 0 - FfdLimit
      BY <2>1, RingIndex, Zenon
    <3>2. QED
      BY <2>1, <3>1
  <2>8. QED
    BY <2>3, <2>4, <2>5, <2>6, <2>7 DEF FfdInv, FfdOrderly, RingAt
<1>2. FfdInv /\ [FfdNext]_ffdVars => FfdInv'
  BY FfdStep
<1>3. QED
  BY <1>1, <1>2, PTL DEF FfdSpec

(* libavcodec gets every packet that tm_ffd_submit took once and in order,  *)
(* and the flush after them; the loop of tm_ffd_next_luma never ends by its *)
(* bound: for every capacity of the ring and any number of packets.         *)
THEOREM FfdOrderlyCorrect == FfdSpec => []FfdOrderly
<1>1. FfdInv => FfdOrderly
  BY DEF FfdInv
<1>2. QED
  BY <1>1, FfdInvariant, PTL
=============================================================================
