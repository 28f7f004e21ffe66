-------------------------- MODULE FrameStore_proofs --------------------------
(* Proofs about the frame store, for every capacity and every bound.        *)
EXTENDS FrameStore, NatFacts, FiniteSetTheorems, TLAPS

(* Arithmetic of the publication cursor. *)
LEMMA ModInSlot ==
  ASSUME NEW n \in Nat
  PROVE  n % SlotCapacity \in Slot
  BY FsConstants DEF Slot

(* A new row changes the count of its own slot only. *)
LEMMA AddCredit ==
  ASSUME NEW rows, IsFiniteSet(rows), NEW c, c \notin rows
  PROVE  /\ IsFiniteSet(rows \union {c})
         /\ Cardinality(rows \union {c}) = Cardinality(rows) + 1
         /\ \A i : Cardinality(CreditsOf(rows \union {c}, i))
                     = IF c.slot = i THEN Cardinality(CreditsOf(rows, i)) + 1
                                     ELSE Cardinality(CreditsOf(rows, i))
<1>1. IsFiniteSet(rows \union {c}) /\ Cardinality(rows \union {c}) = Cardinality(rows) + 1
  BY FS_AddElement
<1>2. ASSUME NEW i
      PROVE  Cardinality(CreditsOf(rows \union {c}, i))
               = IF c.slot = i THEN Cardinality(CreditsOf(rows, i)) + 1
                               ELSE Cardinality(CreditsOf(rows, i))
  <2>1. IsFiniteSet(CreditsOf(rows, i))
    BY FS_Subset DEF CreditsOf
  <2>2. CASE c.slot = i
    <3>1. CreditsOf(rows \union {c}, i) = CreditsOf(rows, i) \union {c}
      BY <2>2 DEF CreditsOf
    <3>2. c \notin CreditsOf(rows, i)
      BY DEF CreditsOf
    <3>3. QED
      BY <2>1, <2>2, <3>1, <3>2, FS_AddElement
  <2>3. CASE c.slot # i
    <3>1. CreditsOf(rows \union {c}, i) = CreditsOf(rows, i)
      BY <2>3 DEF CreditsOf
    <3>2. QED
      BY <2>3, <3>1
  <2>4. QED
    BY <2>2, <2>3
<1>3. QED
  BY <1>1, <1>2

(* A released row changes the count of its own slot only. *)
LEMMA RemoveCredit ==
  ASSUME NEW rows, IsFiniteSet(rows), NEW c \in rows
  PROVE  /\ IsFiniteSet(rows \ {c})
         /\ Cardinality(rows \ {c}) = Cardinality(rows) - 1
         /\ \A i : Cardinality(CreditsOf(rows \ {c}, i))
                     = IF c.slot = i THEN Cardinality(CreditsOf(rows, i)) - 1
                                     ELSE Cardinality(CreditsOf(rows, i))
<1>1. IsFiniteSet(rows \ {c}) /\ Cardinality(rows \ {c}) = Cardinality(rows) - 1
  BY FS_RemoveElement
<1>2. ASSUME NEW i
      PROVE  Cardinality(CreditsOf(rows \ {c}, i))
               = IF c.slot = i THEN Cardinality(CreditsOf(rows, i)) - 1
                               ELSE Cardinality(CreditsOf(rows, i))
  <2>1. IsFiniteSet(CreditsOf(rows, i))
    BY FS_Subset DEF CreditsOf
  <2>2. CASE c.slot = i
    <3>1. CreditsOf(rows \ {c}, i) = CreditsOf(rows, i) \ {c}
      BY <2>2 DEF CreditsOf
    <3>2. c \in CreditsOf(rows, i)
      BY <2>2 DEF CreditsOf
    <3>3. QED
      BY <2>1, <2>2, <3>1, <3>2, FS_RemoveElement
  <2>3. CASE c.slot # i
    <3>1. CreditsOf(rows \ {c}, i) = CreditsOf(rows, i)
      BY <2>3 DEF CreditsOf
    <3>2. QED
      BY <2>3, <3>1
  <2>4. QED
    BY <2>2, <2>3
<1>3. QED
  BY <1>1, <1>2

(* tm_fs_create starts from empty tables. *)
LEMMA CreateInv ==
  ASSUME NEW gen \in Nat
  PROVE  FsInv(tm_fs_create(gen))
<1> DEFINE s == tm_fs_create(gen)
<1>1. s \in FsStore
  BY FsConstants DEF tm_fs_create, FsStore, EmptySlot, SlotRecord, SlotState, Slot
<1>2. TokensFresh(s)
  BY FS_EmptySet DEF tm_fs_create, TokensFresh
<1>3. CountsAgree(s)
  <2>1. \A i : CreditsOf({}, i) = {}
    BY DEF CreditsOf
  <2>2. QED
    BY <2>1, FS_EmptySet, FsConstants DEF tm_fs_create, CountsAgree, EmptySlot
<1>4. CreditsProtect(s)
  BY DEF tm_fs_create, CreditsProtect
<1>5. RetiringHeld(s)
  BY DEF tm_fs_create, RetiringHeld, EmptySlot
<1>6. QED
  BY <1>1, <1>2, <1>3, <1>4, <1>5 DEF FsInv

(* A record with the fields of a store, each of its type, is a store (and   *)
(* likewise for a slot).                                                    *)
LEMMA StoreIntro ==
  ASSUME NEW t,
         t = [alive |-> t.alive, generation |-> t.generation, sealed |-> t.sealed,
              cursor |-> t.cursor, next_frame_id |-> t.next_frame_id,
              next_ticket_id |-> t.next_ticket_id, slots |-> t.slots,
              pins |-> t.pins, leases |-> t.leases],
         t.alive \in BOOLEAN, t.generation \in Nat, t.sealed \in BOOLEAN,
         t.cursor \in Slot, t.next_frame_id \in Nat, t.next_ticket_id \in Nat,
         t.slots \in [Slot -> SlotRecord],
         t.pins \in SUBSET Credit, t.leases \in SUBSET Credit
  PROVE  t \in FsStore
BY DEF FsStore

LEMMA SlotIntro ==
  ASSUME NEW t,
         t = [state |-> t.state, slot_generation |-> t.slot_generation,
              frame_id |-> t.frame_id, pins |-> t.pins, leases |-> t.leases],
         t.state \in SlotState, t.slot_generation \in 0 .. MaxSlotGen,
         t.frame_id \in Nat, t.pins \in Nat, t.leases \in Nat
  PROVE  t \in SlotRecord
BY DEF SlotRecord

(* What fill_slot, and a change of the counters, make of a slot. *)
LEMMA FillSlot ==
  ASSUME NEW slot \in SlotRecord, NEW id \in Nat, slot.slot_generation < MaxSlotGen,
         NEW t, t = fill_slot(slot, id)
  PROVE  /\ t \in SlotRecord
         /\ t.state = "READY"
         /\ t.slot_generation = slot.slot_generation + 1
         /\ t.frame_id = id
         /\ t.pins = slot.pins
         /\ t.leases = slot.leases
<1>1. /\ t.state = "READY"
      /\ t.slot_generation = slot.slot_generation + 1
      /\ t.frame_id = id
      /\ t.pins = slot.pins
      /\ t.leases = slot.leases
  BY DEF fill_slot, SlotRecord
<1>2. t = [state |-> t.state, slot_generation |-> t.slot_generation,
           frame_id |-> t.frame_id, pins |-> t.pins, leases |-> t.leases]
  BY DEF fill_slot, SlotRecord
<1>3. /\ slot.slot_generation + 1 \in 0 .. MaxSlotGen
      /\ slot.pins \in Nat
      /\ slot.leases \in Nat
  BY FsConstants DEF SlotRecord
<1>4. "READY" \in SlotState
  BY DEF SlotState
<1>5. QED
  BY <1>1, <1>2, <1>3, <1>4, SlotIntro

(* The slot a publication chooses is free, not used up, and in the array. *)
LEMMA PublishSlotFree ==
  ASSUME NEW s \in FsStore, Publishable(s) # {}
  PROVE  /\ PublishSlot(s) \in Slot
         /\ s.slots[PublishSlot(s)].state = "FREE"
         /\ s.slots[PublishSlot(s)].slot_generation < MaxSlotGen
<1>1. Publishable(s) \in SUBSET Nat
  BY FsConstants DEF Publishable, Slot
<1>2. Min(Publishable(s)) \in Publishable(s)
  BY <1>1, MinIsLeast
<1>3. s.cursor + Min(Publishable(s)) \in Nat
  BY <1>1, <1>2, FsConstants DEF FsStore, Slot
<1>4. PublishSlot(s) \in Slot
  BY <1>3, ModInSlot DEF PublishSlot
<1>5. /\ s.slots[PublishSlot(s)].state = "FREE"
      /\ s.slots[PublishSlot(s)].slot_generation # MaxSlotGen
  BY <1>2 DEF Publishable, PublishSlot
<1>6. s.slots[PublishSlot(s)].slot_generation \in 0 .. MaxSlotGen
  BY <1>4 DEF FsStore, SlotRecord
<1>7. QED
  BY <1>4, <1>5, <1>6, FsConstants

(* What a successful publication changes: the free slot it chose now holds  *)
(* the next frame id at the next generation.                                *)
LEMMA PublishEffect ==
  ASSUME NEW s \in FsStore, PublishRc(s) = "OK", NEW i, i = PublishSlot(s),
         NEW t, t = tm_fs_publish_cpu(s).s
  PROVE  /\ t \in FsStore
         /\ t.alive = s.alive /\ t.generation = s.generation /\ t.sealed = s.sealed
         /\ t.next_frame_id = s.next_frame_id + 1
         /\ t.next_ticket_id = s.next_ticket_id
         /\ t.pins = s.pins /\ t.leases = s.leases
         /\ i \in Slot
         /\ s.slots[i].state = "FREE" /\ s.slots[i].slot_generation < MaxSlotGen
         /\ t.slots[i].state = "READY"
         /\ t.slots[i].frame_id = s.next_frame_id + 1
         /\ t.slots[i].slot_generation = s.slots[i].slot_generation + 1
         /\ t.slots[i].pins = s.slots[i].pins
         /\ t.slots[i].leases = s.slots[i].leases
         /\ \A j \in Slot \ {i} : t.slots[j] = s.slots[j]
<1> DEFINE new == fill_slot(s.slots[i], s.next_frame_id + 1)
<1>1. Publishable(s) # {}
  BY DEF PublishRc
<1>2. /\ i \in Slot
      /\ s.slots[i].state = "FREE"
      /\ s.slots[i].slot_generation < MaxSlotGen
  BY <1>1, PublishSlotFree
<1>3. (i + 1) % SlotCapacity \in Slot
  BY <1>2, ModInSlot, FsConstants DEF Slot
<1>4. t = [s EXCEPT !.slots = [s.slots EXCEPT ![i] = new],
                    !.next_frame_id = s.next_frame_id + 1,
                    !.cursor = (i + 1) % SlotCapacity]
  BY <1>1, <1>2 DEF tm_fs_publish_cpu, FsResult, FsStore
<1>5. /\ t.slots = [s.slots EXCEPT ![i] = new]
      /\ t.alive = s.alive /\ t.generation = s.generation /\ t.sealed = s.sealed
      /\ t.cursor = (i + 1) % SlotCapacity
      /\ t.next_frame_id = s.next_frame_id + 1
      /\ t.pins = s.pins /\ t.leases = s.leases /\ t.next_ticket_id = s.next_ticket_id
  BY <1>4 DEF FsStore
<1>6. t = [alive |-> t.alive, generation |-> t.generation, sealed |-> t.sealed,
           cursor |-> t.cursor, next_frame_id |-> t.next_frame_id,
           next_ticket_id |-> t.next_ticket_id, slots |-> t.slots,
           pins |-> t.pins, leases |-> t.leases]
  BY <1>4 DEF FsStore
<1>7. /\ new \in SlotRecord
      /\ new.state = "READY"
      /\ new.slot_generation = s.slots[i].slot_generation + 1
      /\ new.frame_id = s.next_frame_id + 1
      /\ new.pins = s.slots[i].pins
      /\ new.leases = s.slots[i].leases
  BY <1>2, FillSlot DEF FsStore
<1> HIDE DEF new
<1>8. t \in FsStore
  <2>1. t.slots \in [Slot -> SlotRecord]
    BY <1>2, <1>5, <1>7 DEF FsStore
  <2>2. /\ t.alive \in BOOLEAN /\ t.generation \in Nat /\ t.sealed \in BOOLEAN
        /\ t.cursor \in Slot /\ t.next_frame_id \in Nat /\ t.next_ticket_id \in Nat
        /\ t.pins \in SUBSET Credit /\ t.leases \in SUBSET Credit
    BY <1>3, <1>5 DEF FsStore
  <2>3. QED
    BY <1>6, <2>1, <2>2, StoreIntro
<1>9. t.slots[i] = new /\ \A j \in Slot \ {i} : t.slots[j] = s.slots[j]
  BY <1>2, <1>5 DEF FsStore
<1>10. QED
  BY <1>2, <1>5, <1>7, <1>8, <1>9

(* tm_fs_publish_cpu keeps the invariant. *)
LEMMA PublishInv ==
  ASSUME NEW s, FsInv(s)
  PROVE  FsInv(tm_fs_publish_cpu(s).s)
<1>1. CASE PublishRc(s) # "OK"
  BY <1>1 DEF tm_fs_publish_cpu, FsResult
<1>2. CASE PublishRc(s) = "OK"
  <2> DEFINE i == PublishSlot(s)
             t == tm_fs_publish_cpu(s).s
  <2>1. s \in FsStore
    BY DEF FsInv
  <2>2. /\ t \in FsStore
        /\ t.pins = s.pins /\ t.leases = s.leases /\ t.next_ticket_id = s.next_ticket_id
        /\ i \in Slot /\ s.slots[i].state = "FREE" /\ t.slots[i].state = "READY"
        /\ \A j \in Slot : /\ t.slots[j].pins = s.slots[j].pins
                           /\ t.slots[j].leases = s.slots[j].leases
                           /\ j # i => t.slots[j] = s.slots[j]
    BY <1>2, <2>1, PublishEffect
  <2> HIDE DEF i, t
  <2>3. \A c \in s.pins \union s.leases : c.slot # i /\ c.slot \in Slot
    BY <2>1, <2>2 DEF FsInv, CreditsProtect, FsStore, Credit
  <2>4. TokensFresh(t)
    BY <2>2 DEF FsInv, TokensFresh
  <2>5. CountsAgree(t)
    BY <2>2 DEF FsInv, CountsAgree
  <2>6. CreditsProtect(t)
    BY <2>2, <2>3 DEF FsInv, CreditsProtect
  <2>7. RetiringHeld(t)
    BY <2>2 DEF FsInv, RetiringHeld
  <2>8. QED
    BY <2>2, <2>4, <2>5, <2>6, <2>7 DEF FsInv, t
<1>3. QED
  BY <1>1, <1>2

(* What a store update that replaces slot i and the two tables leaves, in   *)
(* the form the invariant proofs use.                                       *)
Same(s, t) ==
  /\ t.alive = s.alive
  /\ t.generation = s.generation
  /\ t.sealed = s.sealed
  /\ t.cursor = s.cursor
  /\ t.next_frame_id = s.next_frame_id

LEMMA CreditTyped ==
  ASSUME NEW s \in FsStore, NEW i \in Slot
  PROVE  /\ NewCredit(s, i) \in Credit
         /\ NewCredit(s, i).token = s.next_ticket_id + 1
         /\ NewCredit(s, i).slot = i
         /\ NewCredit(s, i).generation = s.slots[i].slot_generation
<1>1. s.next_ticket_id + 1 \in Nat \ {0} /\ s.slots[i] \in SlotRecord
  BY DEF FsStore
<1>2. s.slots[i].slot_generation \in Nat
  BY <1>1, FsConstants DEF SlotRecord
<1>3. QED
  BY <1>1, <1>2 DEF NewCredit, Credit

(* What pin_slot changes: one fresh row in pins, and the pins counter of slot i. *)
LEMMA PinSlot ==
  ASSUME NEW s \in FsStore, NEW i \in Slot, NEW t, t = pin_slot(s, i)
  PROVE  /\ t \in FsStore
         /\ Same(s, t)
         /\ t.pins = s.pins \union {NewCredit(s, i)}
         /\ t.leases = s.leases
         /\ t.next_ticket_id = s.next_ticket_id + 1
         /\ \A j \in Slot : /\ t.slots[j].state = s.slots[j].state
                            /\ t.slots[j].slot_generation = s.slots[j].slot_generation
                            /\ t.slots[j].frame_id = s.slots[j].frame_id
                            /\ t.slots[j].leases = s.slots[j].leases
                            /\ t.slots[j].pins = IF j = i THEN s.slots[j].pins + 1
                                                          ELSE s.slots[j].pins
<1> DEFINE new == [s.slots[i] EXCEPT !.pins = @ + 1]
<1>1. t = [s EXCEPT !.pins = s.pins \union {NewCredit(s, i)},
                    !.slots = [s.slots EXCEPT ![i] = new],
                    !.next_ticket_id = s.next_ticket_id + 1]
  BY DEF pin_slot, FsStore
<1>2. new \in SlotRecord
  BY DEF FsStore, SlotRecord
<1>3. /\ new.state = s.slots[i].state
      /\ new.slot_generation = s.slots[i].slot_generation
      /\ new.frame_id = s.slots[i].frame_id
      /\ new.leases = s.slots[i].leases
      /\ new.pins = s.slots[i].pins + 1
  BY DEF FsStore, SlotRecord
<1> HIDE DEF new
<1>4. /\ Same(s, t)
      /\ t.slots = [s.slots EXCEPT ![i] = new]
      /\ t.pins = s.pins \union {NewCredit(s, i)}
      /\ t.leases = s.leases
      /\ t.next_ticket_id = s.next_ticket_id + 1
  BY <1>1 DEF FsStore, Same
<1>5. t = [alive |-> t.alive, generation |-> t.generation, sealed |-> t.sealed,
           cursor |-> t.cursor, next_frame_id |-> t.next_frame_id,
           next_ticket_id |-> t.next_ticket_id, slots |-> t.slots,
           pins |-> t.pins, leases |-> t.leases]
  BY <1>1 DEF FsStore
<1>6. t \in FsStore
  <2>1. t.slots \in [Slot -> SlotRecord]
    BY <1>2, <1>4 DEF FsStore
  <2>2. t.pins \in SUBSET Credit
    BY <1>4, CreditTyped DEF FsStore
  <2>3. /\ t.alive \in BOOLEAN /\ t.generation \in Nat /\ t.sealed \in BOOLEAN
        /\ t.cursor \in Slot /\ t.next_frame_id \in Nat /\ t.next_ticket_id \in Nat
        /\ t.leases \in SUBSET Credit
    BY <1>4 DEF FsStore, Same
  <2>4. QED
    BY <1>5, <2>1, <2>2, <2>3, StoreIntro
<1>7. QED
  BY <1>3, <1>4, <1>6 DEF FsStore

(* What acquire_slot changes: one fresh row in leases, and the leases counter of slot i. *)
LEMMA AcquireSlot ==
  ASSUME NEW s \in FsStore, NEW i \in Slot, NEW t, t = acquire_slot(s, i)
  PROVE  /\ t \in FsStore
         /\ Same(s, t)
         /\ t.leases = s.leases \union {NewCredit(s, i)}
         /\ t.pins = s.pins
         /\ t.next_ticket_id = s.next_ticket_id + 1
         /\ \A j \in Slot : /\ t.slots[j].state = s.slots[j].state
                            /\ t.slots[j].slot_generation = s.slots[j].slot_generation
                            /\ t.slots[j].frame_id = s.slots[j].frame_id
                            /\ t.slots[j].pins = s.slots[j].pins
                            /\ t.slots[j].leases = IF j = i THEN s.slots[j].leases + 1
                                                          ELSE s.slots[j].leases
<1> DEFINE new == [s.slots[i] EXCEPT !.leases = @ + 1]
<1>1. t = [s EXCEPT !.leases = s.leases \union {NewCredit(s, i)},
                    !.slots = [s.slots EXCEPT ![i] = new],
                    !.next_ticket_id = s.next_ticket_id + 1]
  BY DEF acquire_slot, FsStore
<1>2. new \in SlotRecord
  BY DEF FsStore, SlotRecord
<1>3. /\ new.state = s.slots[i].state
      /\ new.slot_generation = s.slots[i].slot_generation
      /\ new.frame_id = s.slots[i].frame_id
      /\ new.pins = s.slots[i].pins
      /\ new.leases = s.slots[i].leases + 1
  BY DEF FsStore, SlotRecord
<1> HIDE DEF new
<1>4. /\ Same(s, t)
      /\ t.slots = [s.slots EXCEPT ![i] = new]
      /\ t.leases = s.leases \union {NewCredit(s, i)}
      /\ t.pins = s.pins
      /\ t.next_ticket_id = s.next_ticket_id + 1
  BY <1>1 DEF FsStore, Same
<1>5. t = [alive |-> t.alive, generation |-> t.generation, sealed |-> t.sealed,
           cursor |-> t.cursor, next_frame_id |-> t.next_frame_id,
           next_ticket_id |-> t.next_ticket_id, slots |-> t.slots,
           pins |-> t.pins, leases |-> t.leases]
  BY <1>1 DEF FsStore
<1>6. t \in FsStore
  <2>1. t.slots \in [Slot -> SlotRecord]
    BY <1>2, <1>4 DEF FsStore
  <2>2. t.leases \in SUBSET Credit
    BY <1>4, CreditTyped DEF FsStore
  <2>3. /\ t.alive \in BOOLEAN /\ t.generation \in Nat /\ t.sealed \in BOOLEAN
        /\ t.cursor \in Slot /\ t.next_frame_id \in Nat /\ t.next_ticket_id \in Nat
        /\ t.pins \in SUBSET Credit
    BY <1>4 DEF FsStore, Same
  <2>4. QED
    BY <1>5, <2>1, <2>2, <2>3, StoreIntro
<1>7. QED
  BY <1>3, <1>4, <1>6 DEF FsStore

(* maybe_retire touches only the state. *)
LEMMA MaybeRetire ==
  ASSUME NEW slot \in SlotRecord, NEW t, t = maybe_retire(slot)
  PROVE  /\ t \in SlotRecord
         /\ t.slot_generation = slot.slot_generation
         /\ t.frame_id = slot.frame_id
         /\ t.pins = slot.pins
         /\ t.leases = slot.leases
         /\ t.state = IF slot.state = "RETIRING" /\ slot.pins = 0 /\ slot.leases = 0
                      THEN "FREE" ELSE slot.state
BY DEF maybe_retire, SlotRecord, SlotState

(* What drop_pin changes: the row leaves pins, its slot's counter goes down and  *)
(* a retiring slot without holders becomes free.                            *)
LEMMA DropPin ==
  ASSUME NEW s \in FsStore, NEW c \in s.pins, s.slots[c.slot].pins > 0,
         NEW t, t = drop_pin(s, c)
  PROVE  /\ t \in FsStore
         /\ Same(s, t)
         /\ t.pins = s.pins \ {c}
         /\ t.leases = s.leases
         /\ t.next_ticket_id = s.next_ticket_id
         /\ \A j \in Slot : /\ t.slots[j].slot_generation = s.slots[j].slot_generation
                            /\ t.slots[j].frame_id = s.slots[j].frame_id
                            /\ t.slots[j].leases = s.slots[j].leases
                            /\ t.slots[j].pins = IF j = c.slot THEN s.slots[j].pins - 1
                                                               ELSE s.slots[j].pins
                            /\ t.slots[j].state =
                                 IF /\ j = c.slot /\ s.slots[j].state = "RETIRING"
                                    /\ s.slots[j].pins = 1 /\ s.slots[j].leases = 0
                                 THEN "FREE" ELSE s.slots[j].state
<1> DEFINE i == c.slot
           dec == [s.slots[i] EXCEPT !.pins = @ - 1]
           new == maybe_retire(dec)
<1>0. i \in Slot /\ s.slots[i] \in SlotRecord
  BY DEF FsStore, Credit
<1>1. t = [s EXCEPT !.slots = [s.slots EXCEPT ![i] = new],
                    !.pins = s.pins \ {c}]
  BY <1>0 DEF drop_pin, unpin, FsStore
<1>2. dec \in SlotRecord
  BY <1>0 DEF SlotRecord
<1>3. /\ dec.state = s.slots[i].state
      /\ dec.slot_generation = s.slots[i].slot_generation
      /\ dec.frame_id = s.slots[i].frame_id
      /\ dec.leases = s.slots[i].leases
      /\ dec.pins = s.slots[i].pins - 1
  BY <1>0 DEF SlotRecord
<1>4. s.slots[i].pins \in Nat
  BY <1>0 DEF SlotRecord
<1> HIDE DEF dec
<1>5. /\ new \in SlotRecord
      /\ new.slot_generation = s.slots[i].slot_generation
      /\ new.frame_id = s.slots[i].frame_id
      /\ new.leases = s.slots[i].leases
      /\ new.pins = s.slots[i].pins - 1
      /\ new.state = IF /\ s.slots[i].state = "RETIRING"
                        /\ s.slots[i].pins = 1 /\ s.slots[i].leases = 0
                     THEN "FREE" ELSE s.slots[i].state
  BY <1>2, <1>3, <1>4, MaybeRetire
<1> HIDE DEF new
<1>6. /\ Same(s, t)
      /\ t.slots = [s.slots EXCEPT ![i] = new]
      /\ t.pins = s.pins \ {c}
      /\ t.leases = s.leases
      /\ t.next_ticket_id = s.next_ticket_id
  BY <1>1 DEF FsStore, Same
<1>7. t = [alive |-> t.alive, generation |-> t.generation, sealed |-> t.sealed,
           cursor |-> t.cursor, next_frame_id |-> t.next_frame_id,
           next_ticket_id |-> t.next_ticket_id, slots |-> t.slots,
           pins |-> t.pins, leases |-> t.leases]
  BY <1>1 DEF FsStore
<1> HIDE DEF i
<1>8. t \in FsStore
  <2>1. t.slots \in [Slot -> SlotRecord]
    BY <1>0, <1>5, <1>6 DEF FsStore
  <2>2. /\ t.alive \in BOOLEAN /\ t.generation \in Nat /\ t.sealed \in BOOLEAN
        /\ t.cursor \in Slot /\ t.next_frame_id \in Nat /\ t.next_ticket_id \in Nat
        /\ t.pins \in SUBSET Credit /\ t.leases \in SUBSET Credit
    BY <1>6 DEF FsStore, Same
  <2>3. QED
    BY <1>7, <2>1, <2>2, StoreIntro
<1>9. \A j \in Slot : t.slots[j] = IF j = i THEN new ELSE s.slots[j]
  BY <1>0, <1>6 DEF FsStore
<1>10. QED
  BY <1>0, <1>5, <1>6, <1>8, <1>9 DEF i

(* What drop_lease changes: the row leaves leases, its slot's counter goes down and  *)
(* a retiring slot without holders becomes free.                            *)
LEMMA DropLease ==
  ASSUME NEW s \in FsStore, NEW c \in s.leases, s.slots[c.slot].leases > 0,
         NEW t, t = drop_lease(s, c)
  PROVE  /\ t \in FsStore
         /\ Same(s, t)
         /\ t.leases = s.leases \ {c}
         /\ t.pins = s.pins
         /\ t.next_ticket_id = s.next_ticket_id
         /\ \A j \in Slot : /\ t.slots[j].slot_generation = s.slots[j].slot_generation
                            /\ t.slots[j].frame_id = s.slots[j].frame_id
                            /\ t.slots[j].pins = s.slots[j].pins
                            /\ t.slots[j].leases = IF j = c.slot THEN s.slots[j].leases - 1
                                                               ELSE s.slots[j].leases
                            /\ t.slots[j].state =
                                 IF /\ j = c.slot /\ s.slots[j].state = "RETIRING"
                                    /\ s.slots[j].leases = 1 /\ s.slots[j].pins = 0
                                 THEN "FREE" ELSE s.slots[j].state
<1> DEFINE i == c.slot
           dec == [s.slots[i] EXCEPT !.leases = @ - 1]
           new == maybe_retire(dec)
<1>0. i \in Slot /\ s.slots[i] \in SlotRecord
  BY DEF FsStore, Credit
<1>1. t = [s EXCEPT !.slots = [s.slots EXCEPT ![i] = new],
                    !.leases = s.leases \ {c}]
  BY <1>0 DEF drop_lease, unlease, FsStore
<1>2. dec \in SlotRecord
  BY <1>0 DEF SlotRecord
<1>3. /\ dec.state = s.slots[i].state
      /\ dec.slot_generation = s.slots[i].slot_generation
      /\ dec.frame_id = s.slots[i].frame_id
      /\ dec.pins = s.slots[i].pins
      /\ dec.leases = s.slots[i].leases - 1
  BY <1>0 DEF SlotRecord
<1>4. s.slots[i].leases \in Nat
  BY <1>0 DEF SlotRecord
<1> HIDE DEF dec
<1>5. /\ new \in SlotRecord
      /\ new.slot_generation = s.slots[i].slot_generation
      /\ new.frame_id = s.slots[i].frame_id
      /\ new.pins = s.slots[i].pins
      /\ new.leases = s.slots[i].leases - 1
      /\ new.state = IF /\ s.slots[i].state = "RETIRING"
                        /\ s.slots[i].leases = 1 /\ s.slots[i].pins = 0
                     THEN "FREE" ELSE s.slots[i].state
  BY <1>2, <1>3, <1>4, MaybeRetire
<1> HIDE DEF new
<1>6. /\ Same(s, t)
      /\ t.slots = [s.slots EXCEPT ![i] = new]
      /\ t.leases = s.leases \ {c}
      /\ t.pins = s.pins
      /\ t.next_ticket_id = s.next_ticket_id
  BY <1>1 DEF FsStore, Same
<1>7. t = [alive |-> t.alive, generation |-> t.generation, sealed |-> t.sealed,
           cursor |-> t.cursor, next_frame_id |-> t.next_frame_id,
           next_ticket_id |-> t.next_ticket_id, slots |-> t.slots,
           pins |-> t.pins, leases |-> t.leases]
  BY <1>1 DEF FsStore
<1> HIDE DEF i
<1>8. t \in FsStore
  <2>1. t.slots \in [Slot -> SlotRecord]
    BY <1>0, <1>5, <1>6 DEF FsStore
  <2>2. /\ t.alive \in BOOLEAN /\ t.generation \in Nat /\ t.sealed \in BOOLEAN
        /\ t.cursor \in Slot /\ t.next_frame_id \in Nat /\ t.next_ticket_id \in Nat
        /\ t.pins \in SUBSET Credit /\ t.leases \in SUBSET Credit
    BY <1>6 DEF FsStore, Same
  <2>3. QED
    BY <1>7, <2>1, <2>2, StoreIntro
<1>9. \A j \in Slot : t.slots[j] = IF j = i THEN new ELSE s.slots[j]
  BY <1>0, <1>6 DEF FsStore
<1>10. QED
  BY <1>0, <1>5, <1>6, <1>8, <1>9 DEF i

(* What retire_slot changes: the slot is freed, or waits for its holders. *)
LEMMA RetireSlot ==
  ASSUME NEW s \in FsStore, NEW i \in Slot, NEW t, t = retire_slot(s, i)
  PROVE  /\ t \in FsStore
         /\ Same(s, t)
         /\ t.pins = s.pins
         /\ t.leases = s.leases
         /\ t.next_ticket_id = s.next_ticket_id
         /\ \A j \in Slot : /\ t.slots[j].slot_generation = s.slots[j].slot_generation
                            /\ t.slots[j].frame_id = s.slots[j].frame_id
                            /\ t.slots[j].pins = s.slots[j].pins
                            /\ t.slots[j].leases = s.slots[j].leases
                            /\ t.slots[j].state =
                                 IF j # i THEN s.slots[j].state
                                 ELSE IF s.slots[j].pins = 0 /\ s.slots[j].leases = 0
                                 THEN "FREE" ELSE "RETIRING"
<1> DEFINE ret == [s.slots[i] EXCEPT !.state = "RETIRING"]
           new == maybe_retire(ret)
<1>1. s.slots[i] \in SlotRecord
  BY DEF FsStore
<1>2. /\ ret \in SlotRecord
      /\ ret.state = "RETIRING"
      /\ ret.slot_generation = s.slots[i].slot_generation
      /\ ret.frame_id = s.slots[i].frame_id
      /\ ret.pins = s.slots[i].pins
      /\ ret.leases = s.slots[i].leases
  BY <1>1 DEF SlotRecord, SlotState
<1>3. t = [s EXCEPT !.slots = [s.slots EXCEPT ![i] = new]]
  BY DEF retire_slot, FsStore
<1> HIDE DEF ret
<1>4. /\ new \in SlotRecord
      /\ new.slot_generation = s.slots[i].slot_generation
      /\ new.frame_id = s.slots[i].frame_id
      /\ new.pins = s.slots[i].pins
      /\ new.leases = s.slots[i].leases
      /\ new.state = IF s.slots[i].pins = 0 /\ s.slots[i].leases = 0
                     THEN "FREE" ELSE "RETIRING"
  BY <1>2, MaybeRetire
<1> HIDE DEF new
<1>5. t \in FsStore
  BY <1>3, <1>4 DEF FsStore
<1>6. /\ Same(s, t)
      /\ t.slots = [s.slots EXCEPT ![i] = new]
      /\ t.pins = s.pins
      /\ t.leases = s.leases
      /\ t.next_ticket_id = s.next_ticket_id
  BY <1>3 DEF FsStore, Same
<1>7. \A j \in Slot : t.slots[j] = IF j = i THEN new ELSE s.slots[j]
  BY <1>6 DEF FsStore
<1>8. QED
  BY <1>4, <1>5, <1>6, <1>7

(* A new row in pins for a slot in use keeps the invariant. *)
LEMMA PinSlotInv ==
  ASSUME NEW s, FsInv(s), NEW i \in Slot, s.slots[i].state # "FREE",
         ~(Cardinality(s.pins) >= MaxPins)
  PROVE  FsInv(pin_slot(s, i))
<1> DEFINE t == pin_slot(s, i)
           c == NewCredit(s, i)
<1>1. s \in FsStore
  BY DEF FsInv
<1>2. /\ t \in FsStore
      /\ t.pins = s.pins \union {c}
      /\ t.leases = s.leases
      /\ t.next_ticket_id = s.next_ticket_id + 1
      /\ \A j \in Slot : /\ t.slots[j].state = s.slots[j].state
                         /\ t.slots[j].slot_generation = s.slots[j].slot_generation
                         /\ t.slots[j].leases = s.slots[j].leases
                         /\ t.slots[j].pins = IF j = i THEN s.slots[j].pins + 1
                                                       ELSE s.slots[j].pins
  BY <1>1, PinSlot
<1>3. /\ c \in Credit
      /\ c.token = s.next_ticket_id + 1
      /\ c.slot = i
      /\ c.generation = s.slots[i].slot_generation
  BY <1>1, CreditTyped
<1> HIDE DEF t, c
<1>4. /\ s.next_ticket_id \in Nat
      /\ \A d \in s.pins \union s.leases : d.token \in Nat /\ d.slot \in Slot
      /\ \A j \in Slot : s.slots[j].pins \in Nat /\ s.slots[j].leases \in Nat
  BY <1>1 DEF FsStore, Credit, SlotRecord
<1>5. \A d \in s.pins \union s.leases : d.token <= s.next_ticket_id
  BY DEF FsInv, TokensFresh
<1>6. c \notin s.pins
  BY <1>3, <1>4, <1>5
<1>7. /\ IsFiniteSet(s.pins) /\ IsFiniteSet(t.pins)
      /\ Cardinality(t.pins) = Cardinality(s.pins) + 1
      /\ \A j : Cardinality(CreditsOf(t.pins, j))
                  = IF i = j THEN Cardinality(CreditsOf(s.pins, j)) + 1
                             ELSE Cardinality(CreditsOf(s.pins, j))
  <2>1. IsFiniteSet(s.pins)
    BY DEF FsInv, TokensFresh
  <2>2. /\ IsFiniteSet(s.pins \union {c})
        /\ Cardinality(s.pins \union {c}) = Cardinality(s.pins) + 1
        /\ \A j : Cardinality(CreditsOf(s.pins \union {c}, j))
                    = IF c.slot = j THEN Cardinality(CreditsOf(s.pins, j)) + 1
                                    ELSE Cardinality(CreditsOf(s.pins, j))
    BY <1>6, <2>1, AddCredit
  <2>3. QED
    BY <1>2, <1>3, <2>1, <2>2
<1>8. TokensFresh(t)
  BY <1>2, <1>3, <1>4, <1>5, <1>7 DEF FsInv, TokensFresh
<1>9. Cardinality(s.pins) \in Nat
  BY <1>7, FS_CardinalityType
<1>10. CountsAgree(t)
  <2>1. ASSUME NEW j \in Slot
        PROVE  /\ t.slots[j].pins = Cardinality(CreditsOf(t.pins, j))
               /\ t.slots[j].leases = Cardinality(CreditsOf(t.leases, j))
    <3>1. /\ s.slots[j].pins = Cardinality(CreditsOf(s.pins, j))
          /\ s.slots[j].leases = Cardinality(CreditsOf(s.leases, j))
      BY DEF FsInv, CountsAgree
    <3>2. /\ t.slots[j].leases = s.slots[j].leases
          /\ t.slots[j].pins = IF j = i THEN s.slots[j].pins + 1 ELSE s.slots[j].pins
      BY <1>2
    <3>3. Cardinality(CreditsOf(t.pins, j))
            = IF i = j THEN Cardinality(CreditsOf(s.pins, j)) + 1
                       ELSE Cardinality(CreditsOf(s.pins, j))
      BY <1>7
    <3>4. CreditsOf(t.leases, j) = CreditsOf(s.leases, j)
      BY <1>2
    <3>5. QED
      BY <3>1, <3>2, <3>3, <3>4
  <2>2. Cardinality(t.pins) <= MaxPins
    BY <1>7, <1>9, FsConstants
  <2>3. Cardinality(t.leases) <= MaxLeases
    BY <1>2 DEF FsInv, CountsAgree
  <2>4. QED
    BY <2>1, <2>2, <2>3 DEF CountsAgree
<1>11. CreditsProtect(t)
  BY <1>2, <1>3, <1>4 DEF FsInv, CreditsProtect
<1>12. RetiringHeld(t)
  BY <1>2, <1>4 DEF FsInv, RetiringHeld
<1>13. QED
  BY <1>2, <1>8, <1>10, <1>11, <1>12 DEF FsInv, t

(* A new row in leases for a slot in use keeps the invariant. *)
LEMMA AcquireSlotInv ==
  ASSUME NEW s, FsInv(s), NEW i \in Slot, s.slots[i].state # "FREE",
         ~(Cardinality(s.leases) >= MaxLeases)
  PROVE  FsInv(acquire_slot(s, i))
<1> DEFINE t == acquire_slot(s, i)
           c == NewCredit(s, i)
<1>1. s \in FsStore
  BY DEF FsInv
<1>2. /\ t \in FsStore
      /\ t.leases = s.leases \union {c}
      /\ t.pins = s.pins
      /\ t.next_ticket_id = s.next_ticket_id + 1
      /\ \A j \in Slot : /\ t.slots[j].state = s.slots[j].state
                         /\ t.slots[j].slot_generation = s.slots[j].slot_generation
                         /\ t.slots[j].pins = s.slots[j].pins
                         /\ t.slots[j].leases = IF j = i THEN s.slots[j].leases + 1
                                                       ELSE s.slots[j].leases
  BY <1>1, AcquireSlot
<1>3. /\ c \in Credit
      /\ c.token = s.next_ticket_id + 1
      /\ c.slot = i
      /\ c.generation = s.slots[i].slot_generation
  BY <1>1, CreditTyped
<1> HIDE DEF t, c
<1>4. /\ s.next_ticket_id \in Nat
      /\ \A d \in s.pins \union s.leases : d.token \in Nat /\ d.slot \in Slot
      /\ \A j \in Slot : s.slots[j].pins \in Nat /\ s.slots[j].leases \in Nat
  BY <1>1 DEF FsStore, Credit, SlotRecord
<1>5. \A d \in s.pins \union s.leases : d.token <= s.next_ticket_id
  BY DEF FsInv, TokensFresh
<1>6. c \notin s.leases
  BY <1>3, <1>4, <1>5
<1>7. /\ IsFiniteSet(s.leases) /\ IsFiniteSet(t.leases)
      /\ Cardinality(t.leases) = Cardinality(s.leases) + 1
      /\ \A j : Cardinality(CreditsOf(t.leases, j))
                  = IF i = j THEN Cardinality(CreditsOf(s.leases, j)) + 1
                             ELSE Cardinality(CreditsOf(s.leases, j))
  <2>1. IsFiniteSet(s.leases)
    BY DEF FsInv, TokensFresh
  <2>2. /\ IsFiniteSet(s.leases \union {c})
        /\ Cardinality(s.leases \union {c}) = Cardinality(s.leases) + 1
        /\ \A j : Cardinality(CreditsOf(s.leases \union {c}, j))
                    = IF c.slot = j THEN Cardinality(CreditsOf(s.leases, j)) + 1
                                    ELSE Cardinality(CreditsOf(s.leases, j))
    BY <1>6, <2>1, AddCredit
  <2>3. QED
    BY <1>2, <1>3, <2>1, <2>2
<1>8. TokensFresh(t)
  BY <1>2, <1>3, <1>4, <1>5, <1>7 DEF FsInv, TokensFresh
<1>9. Cardinality(s.leases) \in Nat
  BY <1>7, FS_CardinalityType
<1>10. CountsAgree(t)
  <2>1. ASSUME NEW j \in Slot
        PROVE  /\ t.slots[j].leases = Cardinality(CreditsOf(t.leases, j))
               /\ t.slots[j].pins = Cardinality(CreditsOf(t.pins, j))
    <3>1. /\ s.slots[j].leases = Cardinality(CreditsOf(s.leases, j))
          /\ s.slots[j].pins = Cardinality(CreditsOf(s.pins, j))
      BY DEF FsInv, CountsAgree
    <3>2. /\ t.slots[j].pins = s.slots[j].pins
          /\ t.slots[j].leases = IF j = i THEN s.slots[j].leases + 1 ELSE s.slots[j].leases
      BY <1>2
    <3>3. Cardinality(CreditsOf(t.leases, j))
            = IF i = j THEN Cardinality(CreditsOf(s.leases, j)) + 1
                       ELSE Cardinality(CreditsOf(s.leases, j))
      BY <1>7
    <3>4. CreditsOf(t.pins, j) = CreditsOf(s.pins, j)
      BY <1>2
    <3>5. QED
      BY <3>1, <3>2, <3>3, <3>4
  <2>2. Cardinality(t.leases) <= MaxLeases
    BY <1>7, <1>9, FsConstants
  <2>3. Cardinality(t.pins) <= MaxPins
    BY <1>2 DEF FsInv, CountsAgree
  <2>4. QED
    BY <2>1, <2>2, <2>3 DEF CountsAgree
<1>11. CreditsProtect(t)
  BY <1>2, <1>3, <1>4 DEF FsInv, CreditsProtect
<1>12. RetiringHeld(t)
  BY <1>2, <1>4 DEF FsInv, RetiringHeld
<1>13. QED
  BY <1>2, <1>8, <1>10, <1>11, <1>12 DEF FsInv, t

(* The release of a row of pins keeps the invariant; a slot whose last      *)
(* holder it was is freed.                                                  *)
LEMMA DropPinInv ==
  ASSUME NEW s, FsInv(s), NEW c \in s.pins
  PROVE  FsInv(drop_pin(s, c)) /\ s.slots[c.slot].pins > 0
<1> DEFINE t == drop_pin(s, c)
<1>1. s \in FsStore /\ c.slot \in Slot
  BY DEF FsInv, FsStore, Credit
<1>2. /\ s.next_ticket_id \in Nat
      /\ \A d \in s.pins \union s.leases : d.token \in Nat /\ d.slot \in Slot
      /\ \A j \in Slot : s.slots[j].pins \in Nat /\ s.slots[j].leases \in Nat
  BY <1>1 DEF FsStore, Credit, SlotRecord
<1>3. /\ IsFiniteSet(s.pins \ {c})
      /\ Cardinality(s.pins \ {c}) = Cardinality(s.pins) - 1
      /\ \A j : Cardinality(CreditsOf(s.pins \ {c}, j))
                  = IF c.slot = j THEN Cardinality(CreditsOf(s.pins, j)) - 1
                                  ELSE Cardinality(CreditsOf(s.pins, j))
  BY RemoveCredit DEF FsInv, TokensFresh
<1>4. IsFiniteSet(CreditsOf(s.pins \ {c}, c.slot))
  BY <1>3, FS_Subset DEF CreditsOf
<1>5. s.slots[c.slot].pins > 0
  <2>1. Cardinality(CreditsOf(s.pins \ {c}, c.slot)) \in Nat
    BY <1>4, FS_CardinalityType
  <2>2. s.slots[c.slot].pins = Cardinality(CreditsOf(s.pins, c.slot))
    BY <1>1 DEF FsInv, CountsAgree
  <2>3. s.slots[c.slot].pins \in Nat
    BY <1>1, <1>2
  <2>4. QED
    BY <1>3, <2>1, <2>2, <2>3
<1>6. /\ t \in FsStore
      /\ t.pins = s.pins \ {c}
      /\ t.leases = s.leases
      /\ t.next_ticket_id = s.next_ticket_id
      /\ \A j \in Slot : /\ t.slots[j].slot_generation = s.slots[j].slot_generation
                         /\ t.slots[j].leases = s.slots[j].leases
                         /\ t.slots[j].pins = IF j = c.slot THEN s.slots[j].pins - 1
                                                            ELSE s.slots[j].pins
                         /\ t.slots[j].state =
                              IF /\ j = c.slot /\ s.slots[j].state = "RETIRING"
                                 /\ s.slots[j].pins = 1 /\ s.slots[j].leases = 0
                              THEN "FREE" ELSE s.slots[j].state
  BY <1>1, <1>5, DropPin
<1> HIDE DEF t
<1>7. TokensFresh(t)
  BY <1>3, <1>6 DEF FsInv, TokensFresh
<1>8. Cardinality(s.pins) \in Nat
  BY FS_CardinalityType DEF FsInv, TokensFresh
<1>9. CountsAgree(t)
  <2>1. ASSUME NEW j \in Slot
        PROVE  /\ t.slots[j].pins = Cardinality(CreditsOf(t.pins, j))
               /\ t.slots[j].leases = Cardinality(CreditsOf(t.leases, j))
    <3>1. /\ s.slots[j].pins = Cardinality(CreditsOf(s.pins, j))
          /\ s.slots[j].leases = Cardinality(CreditsOf(s.leases, j))
      BY DEF FsInv, CountsAgree
    <3>2. /\ t.slots[j].leases = s.slots[j].leases
          /\ t.slots[j].pins = IF j = c.slot THEN s.slots[j].pins - 1 ELSE s.slots[j].pins
      BY <1>6
    <3>3. Cardinality(CreditsOf(t.pins, j))
            = IF c.slot = j THEN Cardinality(CreditsOf(s.pins, j)) - 1
                            ELSE Cardinality(CreditsOf(s.pins, j))
      BY <1>3, <1>6
    <3>4. CreditsOf(t.leases, j) = CreditsOf(s.leases, j)
      BY <1>6
    <3>5. QED
      BY <3>1, <3>2, <3>3, <3>4
  <2>2. Cardinality(t.pins) <= MaxPins
    BY <1>3, <1>6, <1>8, FsConstants DEF FsInv, CountsAgree
  <2>3. Cardinality(t.leases) <= MaxLeases
    BY <1>6 DEF FsInv, CountsAgree
  <2>4. QED
    BY <2>1, <2>2, <2>3 DEF CountsAgree
<1>10. CreditsProtect(t)
  <2>1. ASSUME NEW d \in t.pins \union t.leases
        PROVE  /\ t.slots[d.slot].state # "FREE"
               /\ t.slots[d.slot].slot_generation = d.generation
    <3>1. /\ d \in s.pins \union s.leases
          /\ d.slot \in Slot
          /\ s.slots[d.slot].state # "FREE"
          /\ s.slots[d.slot].slot_generation = d.generation
      BY <1>2, <1>6 DEF FsInv, CreditsProtect
    <3>2. CASE d.slot = c.slot /\ s.slots[d.slot].pins = 1 /\ s.slots[d.slot].leases = 0
      <4>1. /\ Cardinality(CreditsOf(t.pins, d.slot)) = 0
            /\ Cardinality(CreditsOf(t.leases, d.slot)) = 0
        <5>1. t.slots[d.slot].pins = 0 /\ t.slots[d.slot].leases = 0
          BY <1>6, <3>1, <3>2
        <5>2. QED
          BY <1>9, <3>1, <5>1 DEF CountsAgree
      <4>2. IsFiniteSet(CreditsOf(t.pins, d.slot)) /\ IsFiniteSet(CreditsOf(t.leases, d.slot))
        BY <1>7, FS_Subset DEF TokensFresh, CreditsOf
      <4>3. CreditsOf(t.pins, d.slot) = {} /\ CreditsOf(t.leases, d.slot) = {}
        BY <4>1, <4>2, FS_EmptySet
      <4>4. QED
        BY <4>3 DEF CreditsOf
    <3>3. CASE ~(d.slot = c.slot /\ s.slots[d.slot].pins = 1 /\ s.slots[d.slot].leases = 0)
      BY <1>6, <3>1, <3>3
    <3>4. QED
      BY <3>2, <3>3
  <2>2. QED
    BY <2>1 DEF CreditsProtect
<1>11. RetiringHeld(t)
  <2>1. ASSUME NEW j \in Slot, t.slots[j].state = "RETIRING"
        PROVE  t.slots[j].pins + t.slots[j].leases > 0
    <3>1. s.slots[j].pins \in Nat /\ s.slots[j].leases \in Nat
      BY <1>2
    <3>2. s.slots[j].state = "RETIRING" /\ s.slots[j].pins + s.slots[j].leases > 0
      BY <1>6, <2>1 DEF FsInv, RetiringHeld
    <3>3. CASE j # c.slot
      BY <1>6, <3>2, <3>3
    <3>4. CASE j = c.slot
      <4>1. ~(s.slots[j].pins = 1 /\ s.slots[j].leases = 0)
        BY <1>6, <2>1, <3>2, <3>4
      <4>2. /\ t.slots[j].pins = s.slots[j].pins - 1
            /\ t.slots[j].leases = s.slots[j].leases
        BY <1>6, <3>4
      <4>3. s.slots[j].pins > 0
        BY <1>5, <3>4
      <4>4. QED
        BY <3>1, <4>1, <4>2, <4>3
    <3>5. QED
      BY <3>3, <3>4
  <2>2. QED
    BY <2>1 DEF RetiringHeld
<1>12. QED
  BY <1>5, <1>6, <1>7, <1>9, <1>10, <1>11 DEF FsInv, t

(* The release of a row of leases keeps the invariant; a slot whose last      *)
(* holder it was is freed.                                                  *)
LEMMA DropLeaseInv ==
  ASSUME NEW s, FsInv(s), NEW c \in s.leases
  PROVE  FsInv(drop_lease(s, c)) /\ s.slots[c.slot].leases > 0
<1> DEFINE t == drop_lease(s, c)
<1>1. s \in FsStore /\ c.slot \in Slot
  BY DEF FsInv, FsStore, Credit
<1>2. /\ s.next_ticket_id \in Nat
      /\ \A d \in s.pins \union s.leases : d.token \in Nat /\ d.slot \in Slot
      /\ \A j \in Slot : s.slots[j].pins \in Nat /\ s.slots[j].leases \in Nat
  BY <1>1 DEF FsStore, Credit, SlotRecord
<1>3. /\ IsFiniteSet(s.leases \ {c})
      /\ Cardinality(s.leases \ {c}) = Cardinality(s.leases) - 1
      /\ \A j : Cardinality(CreditsOf(s.leases \ {c}, j))
                  = IF c.slot = j THEN Cardinality(CreditsOf(s.leases, j)) - 1
                                  ELSE Cardinality(CreditsOf(s.leases, j))
  BY RemoveCredit DEF FsInv, TokensFresh
<1>4. IsFiniteSet(CreditsOf(s.leases \ {c}, c.slot))
  BY <1>3, FS_Subset DEF CreditsOf
<1>5. s.slots[c.slot].leases > 0
  <2>1. Cardinality(CreditsOf(s.leases \ {c}, c.slot)) \in Nat
    BY <1>4, FS_CardinalityType
  <2>2. s.slots[c.slot].leases = Cardinality(CreditsOf(s.leases, c.slot))
    BY <1>1 DEF FsInv, CountsAgree
  <2>3. s.slots[c.slot].leases \in Nat
    BY <1>1, <1>2
  <2>4. QED
    BY <1>3, <2>1, <2>2, <2>3
<1>6. /\ t \in FsStore
      /\ t.leases = s.leases \ {c}
      /\ t.pins = s.pins
      /\ t.next_ticket_id = s.next_ticket_id
      /\ \A j \in Slot : /\ t.slots[j].slot_generation = s.slots[j].slot_generation
                         /\ t.slots[j].pins = s.slots[j].pins
                         /\ t.slots[j].leases = IF j = c.slot THEN s.slots[j].leases - 1
                                                            ELSE s.slots[j].leases
                         /\ t.slots[j].state =
                              IF /\ j = c.slot /\ s.slots[j].state = "RETIRING"
                                 /\ s.slots[j].leases = 1 /\ s.slots[j].pins = 0
                              THEN "FREE" ELSE s.slots[j].state
  BY <1>1, <1>5, DropLease
<1> HIDE DEF t
<1>7. TokensFresh(t)
  BY <1>3, <1>6 DEF FsInv, TokensFresh
<1>8. Cardinality(s.leases) \in Nat
  BY FS_CardinalityType DEF FsInv, TokensFresh
<1>9. CountsAgree(t)
  <2>1. ASSUME NEW j \in Slot
        PROVE  /\ t.slots[j].leases = Cardinality(CreditsOf(t.leases, j))
               /\ t.slots[j].pins = Cardinality(CreditsOf(t.pins, j))
    <3>1. /\ s.slots[j].leases = Cardinality(CreditsOf(s.leases, j))
          /\ s.slots[j].pins = Cardinality(CreditsOf(s.pins, j))
      BY DEF FsInv, CountsAgree
    <3>2. /\ t.slots[j].pins = s.slots[j].pins
          /\ t.slots[j].leases = IF j = c.slot THEN s.slots[j].leases - 1 ELSE s.slots[j].leases
      BY <1>6
    <3>3. Cardinality(CreditsOf(t.leases, j))
            = IF c.slot = j THEN Cardinality(CreditsOf(s.leases, j)) - 1
                            ELSE Cardinality(CreditsOf(s.leases, j))
      BY <1>3, <1>6
    <3>4. CreditsOf(t.pins, j) = CreditsOf(s.pins, j)
      BY <1>6
    <3>5. QED
      BY <3>1, <3>2, <3>3, <3>4
  <2>2. Cardinality(t.leases) <= MaxLeases
    BY <1>3, <1>6, <1>8, FsConstants DEF FsInv, CountsAgree
  <2>3. Cardinality(t.pins) <= MaxPins
    BY <1>6 DEF FsInv, CountsAgree
  <2>4. QED
    BY <2>1, <2>2, <2>3 DEF CountsAgree
<1>10. CreditsProtect(t)
  <2>1. ASSUME NEW d \in t.pins \union t.leases
        PROVE  /\ t.slots[d.slot].state # "FREE"
               /\ t.slots[d.slot].slot_generation = d.generation
    <3>1. /\ d \in s.pins \union s.leases
          /\ d.slot \in Slot
          /\ s.slots[d.slot].state # "FREE"
          /\ s.slots[d.slot].slot_generation = d.generation
      BY <1>2, <1>6 DEF FsInv, CreditsProtect
    <3>2. CASE d.slot = c.slot /\ s.slots[d.slot].leases = 1 /\ s.slots[d.slot].pins = 0
      <4>1. /\ Cardinality(CreditsOf(t.leases, d.slot)) = 0
            /\ Cardinality(CreditsOf(t.pins, d.slot)) = 0
        <5>1. t.slots[d.slot].leases = 0 /\ t.slots[d.slot].pins = 0
          BY <1>6, <3>1, <3>2
        <5>2. QED
          BY <1>9, <3>1, <5>1 DEF CountsAgree
      <4>2. IsFiniteSet(CreditsOf(t.leases, d.slot)) /\ IsFiniteSet(CreditsOf(t.pins, d.slot))
        BY <1>7, FS_Subset DEF TokensFresh, CreditsOf
      <4>3. CreditsOf(t.leases, d.slot) = {} /\ CreditsOf(t.pins, d.slot) = {}
        BY <4>1, <4>2, FS_EmptySet
      <4>4. QED
        BY <4>3 DEF CreditsOf
    <3>3. CASE ~(d.slot = c.slot /\ s.slots[d.slot].leases = 1 /\ s.slots[d.slot].pins = 0)
      BY <1>6, <3>1, <3>3
    <3>4. QED
      BY <3>2, <3>3
  <2>2. QED
    BY <2>1 DEF CreditsProtect
<1>11. RetiringHeld(t)
  <2>1. ASSUME NEW j \in Slot, t.slots[j].state = "RETIRING"
        PROVE  t.slots[j].pins + t.slots[j].leases > 0
    <3>1. s.slots[j].pins \in Nat /\ s.slots[j].leases \in Nat
      BY <1>2
    <3>2. s.slots[j].state = "RETIRING" /\ s.slots[j].pins + s.slots[j].leases > 0
      BY <1>6, <2>1 DEF FsInv, RetiringHeld
    <3>3. CASE j # c.slot
      BY <1>6, <3>2, <3>3
    <3>4. CASE j = c.slot
      <4>1. ~(s.slots[j].leases = 1 /\ s.slots[j].pins = 0)
        BY <1>6, <2>1, <3>2, <3>4
      <4>2. /\ t.slots[j].leases = s.slots[j].leases - 1
            /\ t.slots[j].pins = s.slots[j].pins
        BY <1>6, <3>4
      <4>3. s.slots[j].leases > 0
        BY <1>5, <3>4
      <4>4. QED
        BY <3>1, <4>1, <4>2, <4>3
    <3>5. QED
      BY <3>3, <3>4
  <2>2. QED
    BY <2>1 DEF RetiringHeld
<1>12. QED
  BY <1>5, <1>6, <1>7, <1>9, <1>10, <1>11 DEF FsInv, t

(* A slot some row points at has a counter above zero. *)
LEMMA HeldSlot ==
  ASSUME NEW s, FsInv(s), NEW d \in s.pins \union s.leases
  PROVE  d.slot \in Slot /\ ~(s.slots[d.slot].pins = 0 /\ s.slots[d.slot].leases = 0)
<1>1. d.slot \in Slot
  BY DEF FsInv, FsStore, Credit
<1>2. IsFiniteSet(CreditsOf(s.pins, d.slot)) /\ IsFiniteSet(CreditsOf(s.leases, d.slot))
  BY FS_Subset DEF FsInv, TokensFresh, CreditsOf
<1>3. SUFFICES ASSUME s.slots[d.slot].pins = 0, s.slots[d.slot].leases = 0 PROVE FALSE
  BY <1>1
<1>4. /\ Cardinality(CreditsOf(s.pins, d.slot)) = 0
      /\ Cardinality(CreditsOf(s.leases, d.slot)) = 0
  BY <1>1, <1>3 DEF FsInv, CountsAgree
<1>5. CreditsOf(s.pins, d.slot) = {} /\ CreditsOf(s.leases, d.slot) = {}
  BY <1>2, <1>4, FS_EmptySet
<1>6. QED
  BY <1>5 DEF CreditsOf

(* The retirement of a slot in use keeps the invariant. *)
LEMMA RetireSlotInv ==
  ASSUME NEW s, FsInv(s), NEW i \in Slot, s.slots[i].state # "FREE"
  PROVE  FsInv(retire_slot(s, i))
<1> DEFINE t == retire_slot(s, i)
<1>1. s \in FsStore
  BY DEF FsInv
<1>2. /\ t \in FsStore
      /\ t.pins = s.pins
      /\ t.leases = s.leases
      /\ t.next_ticket_id = s.next_ticket_id
      /\ \A j \in Slot : /\ t.slots[j].slot_generation = s.slots[j].slot_generation
                         /\ t.slots[j].pins = s.slots[j].pins
                         /\ t.slots[j].leases = s.slots[j].leases
                         /\ t.slots[j].state =
                              IF j # i THEN s.slots[j].state
                              ELSE IF s.slots[j].pins = 0 /\ s.slots[j].leases = 0
                              THEN "FREE" ELSE "RETIRING"
  BY <1>1, RetireSlot
<1> HIDE DEF t
<1>3. /\ \A d \in s.pins \union s.leases : d.slot \in Slot
      /\ \A j \in Slot : s.slots[j].pins \in Nat /\ s.slots[j].leases \in Nat
  BY <1>1 DEF FsStore, Credit, SlotRecord
<1>4. TokensFresh(t)
  BY <1>2 DEF FsInv, TokensFresh
<1>5. CountsAgree(t)
  BY <1>2 DEF FsInv, CountsAgree
<1>6. CreditsProtect(t)
  <2>1. ASSUME NEW d \in s.pins \union s.leases
        PROVE  /\ t.slots[d.slot].state # "FREE"
               /\ t.slots[d.slot].slot_generation = d.generation
    <3>1. /\ d.slot \in Slot
          /\ s.slots[d.slot].state # "FREE"
          /\ s.slots[d.slot].slot_generation = d.generation
      BY <1>3 DEF FsInv, CreditsProtect
    <3>2. ~(s.slots[d.slot].pins = 0 /\ s.slots[d.slot].leases = 0)
      BY <3>1, HeldSlot
    <3>3. QED
      BY <1>2, <3>1, <3>2
  <2>2. QED
    BY <1>2, <2>1 DEF CreditsProtect
<1>7. RetiringHeld(t)
  <2>1. ASSUME NEW j \in Slot, t.slots[j].state = "RETIRING"
        PROVE  t.slots[j].pins + t.slots[j].leases > 0
    <3>1. s.slots[j].pins \in Nat /\ s.slots[j].leases \in Nat
      BY <1>3
    <3>2. CASE j = i
      BY <1>2, <2>1, <3>1, <3>2
    <3>3. CASE j # i
      BY <1>2, <2>1, <3>3 DEF FsInv, RetiringHeld
    <3>4. QED
      BY <3>2, <3>3
  <2>2. QED
    BY <2>1 DEF RetiringHeld
<1>8. QED
  BY <1>2, <1>4, <1>5, <1>6, <1>7 DEF FsInv, t

(* What no call but a publication or a new store changes: a used slot keeps *)
(* its frame, a free slot stays free.                                       *)
Keeps(s, t) ==
  /\ t.generation = s.generation
  /\ t.next_frame_id = s.next_frame_id
  /\ \A j \in Slot : /\ t.slots[j].slot_generation = s.slots[j].slot_generation
                     /\ t.slots[j].frame_id = s.slots[j].frame_id
                     /\ s.slots[j].state = "FREE" => t.slots[j].state = "FREE"

(* Each call keeps the invariant and leaves used and free slots alone. *)
LEMMA ReservePinInv ==
  ASSUME NEW s, FsInv(s), NEW ref, ref.slot \in Slot
  PROVE  LET t == tm_fs_reserve_pin(s, ref).s
         IN  FsInv(t) /\ Keeps(s, t) /\ t.alive = s.alive
<1> DEFINE rc == WeakRc(s, ref, s.pins, MaxPins)
<1>1. CASE rc # "OK"
  BY <1>1 DEF tm_fs_reserve_pin, FsResult, Keeps
<1>2. CASE rc = "OK"
  <2>1. s \in FsStore
    BY DEF FsInv
  <2>2. /\ s.slots[ref.slot].state # "FREE"
        /\ ~(Cardinality(s.pins) >= MaxPins)
    BY <1>2 DEF WeakRc, credit_alloc
  <2>3. tm_fs_reserve_pin(s, ref).s = pin_slot(s, ref.slot)
    BY <1>2 DEF tm_fs_reserve_pin, FsResult
  <2>4. FsInv(pin_slot(s, ref.slot))
    BY <2>2, PinSlotInv
  <2>5. Keeps(s, pin_slot(s, ref.slot)) /\ pin_slot(s, ref.slot).alive = s.alive
    BY <2>1, PinSlot DEF Keeps, Same
  <2>6. QED
    BY <2>3, <2>4, <2>5
<1>3. QED
  BY <1>1, <1>2

LEMMA AcquireWeakInv ==
  ASSUME NEW s, FsInv(s), NEW ref, ref.slot \in Slot
  PROVE  LET t == tm_fs_acquire_weak(s, ref).s
         IN  FsInv(t) /\ Keeps(s, t) /\ t.alive = s.alive
<1> DEFINE rc == WeakRc(s, ref, s.leases, MaxLeases)
<1>1. CASE rc # "OK"
  BY <1>1 DEF tm_fs_acquire_weak, FsResult, Keeps
<1>2. CASE rc = "OK"
  <2>1. s \in FsStore
    BY DEF FsInv
  <2>2. /\ s.slots[ref.slot].state # "FREE"
        /\ ~(Cardinality(s.leases) >= MaxLeases)
    BY <1>2 DEF WeakRc, credit_alloc
  <2>3. tm_fs_acquire_weak(s, ref).s = acquire_slot(s, ref.slot)
    BY <1>2 DEF tm_fs_acquire_weak, FsResult
  <2>4. FsInv(acquire_slot(s, ref.slot))
    BY <2>2, AcquireSlotInv
  <2>5. Keeps(s, acquire_slot(s, ref.slot)) /\ acquire_slot(s, ref.slot).alive = s.alive
    BY <2>1, AcquireSlot DEF Keeps, Same
  <2>6. QED
    BY <2>3, <2>4, <2>5
<1>3. QED
  BY <1>1, <1>2

LEMMA AcquirePinnedInv ==
  ASSUME NEW s, FsInv(s), NEW pin
  PROVE  LET t == tm_fs_acquire_pinned(s, pin).s
         IN  FsInv(t) /\ Keeps(s, t) /\ t.alive = s.alive
<1> DEFINE found == credit_lookup(s, pin, s.pins)
           rc == IF found = {} THEN "ESTALE" ELSE credit_alloc(s, s.leases, MaxLeases)
           c == CHOOSE d \in found : TRUE
<1>1. CASE rc # "OK"
  BY <1>1 DEF tm_fs_acquire_pinned, FsResult, Keeps
<1>2. CASE rc = "OK"
  <2>1. s \in FsStore
    BY DEF FsInv
  <2>2. found # {} /\ ~(Cardinality(s.leases) >= MaxLeases)
    BY <1>2 DEF credit_alloc
  <2>3. c \in found
    BY <2>2
  <2>4. c \in s.pins
    BY <2>3 DEF credit_lookup
  <2>5. tm_fs_acquire_pinned(s, pin).s = acquire_slot(s, c.slot)
    BY <1>2 DEF tm_fs_acquire_pinned, FsResult
  <2> HIDE DEF c
  <2>6. c.slot \in Slot /\ s.slots[c.slot].state # "FREE"
    BY <2>1, <2>4 DEF FsInv, CreditsProtect, FsStore, Credit
  <2>7. FsInv(acquire_slot(s, c.slot))
    BY <2>2, <2>6, AcquireSlotInv
  <2>8. Keeps(s, acquire_slot(s, c.slot)) /\ acquire_slot(s, c.slot).alive = s.alive
    BY <2>1, <2>6, AcquireSlot DEF Keeps, Same
  <2>9. QED
    BY <2>5, <2>7, <2>8
<1>3. QED
  BY <1>1, <1>2

LEMMA ReleasePinInv ==
  ASSUME NEW s, FsInv(s), NEW pin
  PROVE  LET t == tm_fs_release_pin(s, pin).s
         IN  FsInv(t) /\ Keeps(s, t) /\ t.alive = s.alive
<1> DEFINE found == credit_lookup(s, pin, s.pins)
           c == CHOOSE d \in found : TRUE
<1>1. CASE found = {}
  BY <1>1 DEF tm_fs_release_pin, FsResult, Keeps
<1>2. CASE found # {}
  <2>1. s \in FsStore
    BY DEF FsInv
  <2>2. c \in found
    BY <1>2
  <2>3. c \in s.pins
    BY <2>2 DEF credit_lookup
  <2>4. tm_fs_release_pin(s, pin).s = drop_pin(s, c)
    BY <1>2 DEF tm_fs_release_pin, FsResult
  <2> HIDE DEF c
  <2>5. FsInv(drop_pin(s, c)) /\ s.slots[c.slot].pins > 0
    BY <2>3, DropPinInv
  <2>6. Keeps(s, drop_pin(s, c)) /\ drop_pin(s, c).alive = s.alive
    BY <2>1, <2>3, <2>5, DropPin DEF Keeps, Same
  <2>7. QED
    BY <2>4, <2>5, <2>6
<1>3. QED
  BY <1>1, <1>2

LEMMA ReleaseLeaseInv ==
  ASSUME NEW s, FsInv(s), NEW lease
  PROVE  LET t == tm_fs_release_lease(s, lease).s
         IN  FsInv(t) /\ Keeps(s, t) /\ t.alive = s.alive
<1> DEFINE found == credit_lookup(s, lease, s.leases)
           c == CHOOSE d \in found : TRUE
<1>1. CASE found = {}
  BY <1>1 DEF tm_fs_release_lease, FsResult, Keeps
<1>2. CASE found # {}
  <2>1. s \in FsStore
    BY DEF FsInv
  <2>2. c \in found
    BY <1>2
  <2>3. c \in s.leases
    BY <2>2 DEF credit_lookup
  <2>4. tm_fs_release_lease(s, lease).s = drop_lease(s, c)
    BY <1>2 DEF tm_fs_release_lease, FsResult
  <2> HIDE DEF c
  <2>5. FsInv(drop_lease(s, c)) /\ s.slots[c.slot].leases > 0
    BY <2>3, DropLeaseInv
  <2>6. Keeps(s, drop_lease(s, c)) /\ drop_lease(s, c).alive = s.alive
    BY <2>1, <2>3, <2>5, DropLease DEF Keeps, Same
  <2>7. QED
    BY <2>4, <2>5, <2>6
<1>3. QED
  BY <1>1, <1>2

LEMMA RetireInv ==
  ASSUME NEW s, FsInv(s), NEW ref, ref.slot \in Slot
  PROVE  LET t == tm_fs_retire(s, ref).s
         IN  FsInv(t) /\ Keeps(s, t) /\ t.alive = s.alive
<1>1. CASE ref_index(s, ref) # "OK"
  BY <1>1 DEF tm_fs_retire, FsResult, Keeps
<1>2. CASE ref_index(s, ref) = "OK"
  <2>1. s \in FsStore
    BY DEF FsInv
  <2>2. s.slots[ref.slot].state # "FREE"
    BY <1>2 DEF ref_index
  <2>3. tm_fs_retire(s, ref).s = retire_slot(s, ref.slot)
    BY <1>2 DEF tm_fs_retire, FsResult
  <2>4. FsInv(retire_slot(s, ref.slot))
    BY <2>2, RetireSlotInv
  <2>5. Keeps(s, retire_slot(s, ref.slot)) /\ retire_slot(s, ref.slot).alive = s.alive
    BY <2>1, <2>2, RetireSlot DEF Keeps, Same
  <2>6. QED
    BY <2>3, <2>4, <2>5
<1>3. QED
  BY <1>1, <1>2

LEMMA SealInv ==
  ASSUME NEW s, FsInv(s)
  PROVE  LET t == tm_fs_seal(s)
         IN  FsInv(t) /\ Keeps(s, t) /\ t.alive = s.alive
<1>1. s \in FsStore
  BY DEF FsInv
<1>2. SUFFICES ASSUME NEW t, t = tm_fs_seal(s)
               PROVE  FsInv(t) /\ Keeps(s, t) /\ t.alive = s.alive
  OBVIOUS
<1>3. /\ t \in FsStore
      /\ t.alive = s.alive /\ t.generation = s.generation /\ t.slots = s.slots
      /\ t.pins = s.pins /\ t.leases = s.leases
      /\ t.next_frame_id = s.next_frame_id /\ t.next_ticket_id = s.next_ticket_id
  BY <1>1, <1>2 DEF tm_fs_seal, FsStore
<1>4. QED
  BY <1>3 DEF FsInv, TokensFresh, CountsAgree, CreditsProtect, RetiringHeld, Keeps

(* A store that tm_fs_destroy frees has no row left in its tables. *)
LEMMA DestroyInv ==
  ASSUME NEW s, FsInv(s)
  PROVE  LET t == tm_fs_destroy(s)
         IN  /\ FsInv(t)
             /\ Keeps(s, t)
             /\ t.leases = s.leases
             /\ t.alive # s.alive => s.pins = {} /\ s.leases = {}
<1>1. s \in FsStore
  BY DEF FsInv
<1>2. SUFFICES ASSUME NEW t, t = tm_fs_destroy(s)
               PROVE  /\ FsInv(t)
                      /\ Keeps(s, t)
                      /\ t.leases = s.leases
                      /\ t.alive # s.alive => s.pins = {} /\ s.leases = {}
  OBVIOUS
<1>3. CASE ~FsDestroyable(s)
  BY <1>2, <1>3 DEF tm_fs_destroy, Keeps
<1>4. CASE FsDestroyable(s)
  <2>1. t = [s EXCEPT !.alive = FALSE]
    BY <1>2, <1>4 DEF tm_fs_destroy
  <2>2. /\ t \in FsStore
        /\ t.generation = s.generation /\ t.slots = s.slots
        /\ t.pins = s.pins /\ t.leases = s.leases
        /\ t.next_frame_id = s.next_frame_id /\ t.next_ticket_id = s.next_ticket_id
    BY <1>1, <2>1 DEF FsStore
  <2>3. s.pins = {} /\ s.leases = {}
    BY <1>4, HeldSlot DEF FsDestroyable
  <2>4. QED
    BY <2>2, <2>3 DEF FsInv, TokensFresh, CountsAgree, CreditsProtect, RetiringHeld, Keeps
<1>5. QED
  BY <1>3, <1>4

(* The three shapes of a step.  A publication fills a free slot. *)
Published(s, t) ==
  \E i \in Slot :
    /\ s.slots[i].state = "FREE"
    /\ t.slots[i].frame_id = s.next_frame_id + 1
    /\ t.next_frame_id = s.next_frame_id + 1
    /\ t.generation = s.generation
    /\ t.leases = s.leases
    /\ \A j \in Slot \ {i} : t.slots[j] = s.slots[j]

(* A new store starts from nothing at the next generation. *)
Recreated(s, t) ==
  /\ t.generation = s.generation + 1
  /\ t.leases = {}

FsShape ==
  /\ Keeps(fs, fs') \/ Published(fs, fs') \/ Recreated(fs, fs')
  /\ fs.alive /\ ~fs'.alive => fs.pins = {} /\ fs.leases = {}

(* A call that publishes nothing keeps what is known of the references. *)
LEMMA KeepsRefs ==
  ASSUME NEW s, NEW t, NEW refs, RefsKnown(s, refs), Keeps(s, t)
  PROVE  RefsKnown(t, refs)
BY DEF RefsKnown, RefKnown, Keeps

LEMMA KnownRef ==
  ASSUME NEW s, NEW r, RefKnown(s, r)
  PROVE  /\ r \in FrameRef
         /\ r.slot \in Slot /\ r.store \in Nat /\ r.frame_id \in Nat
         /\ r.store <= s.generation
         /\ (r.store = s.generation) => (r.frame_id <= s.next_frame_id)
<1>1. r \in FrameRef
  BY DEF RefKnown
<1>2. r.slot \in Slot /\ r.store \in Nat /\ r.frame_id \in Nat
  BY <1>1 DEF FrameRef
<1>3. QED
  BY <1>1, <1>2 DEF RefKnown

(* Every step keeps the inductive invariant and has one of the shapes. *)
LEMMA FsStep ==
  ASSUME FsIInv, [FsNext]_fsVars
  PROVE  FsIInv' /\ (fs' = fs \/ FsShape)
<1>1. FsInv(fs) /\ RefsKnown(fs, fsRefs) /\ fs \in FsStore
  BY DEF FsIInv, FsInv
<1>2. SUFFICES FsInv(fs') /\ RefsKnown(fs', fsRefs') /\ (fs' = fs \/ FsShape)
  BY DEF FsIInv
<1>3. \A ref \in fsRefs : ref.slot \in Slot
  BY <1>1, KnownRef DEF RefsKnown
<1>4. CASE UNCHANGED fsVars
  BY <1>1, <1>4 DEF fsVars
<1>5. CASE FsPublish
  <2>1. FsInv(fs')
    BY <1>1, <1>5, PublishInv DEF FsPublish
  <2>2. CASE PublishRc(fs) # "OK"
    BY <1>1, <1>5, <2>2 DEF FsPublish, tm_fs_publish_cpu, FsResult
  <2>3. CASE PublishRc(fs) = "OK"
    <3> DEFINE i == PublishSlot(fs)
    <3>1. /\ fs'.alive = fs.alive /\ fs'.generation = fs.generation
          /\ fs'.next_frame_id = fs.next_frame_id + 1
          /\ fs'.leases = fs.leases
          /\ i \in Slot /\ fs.slots[i].state = "FREE"
          /\ fs.slots[i].slot_generation < MaxSlotGen
          /\ fs'.slots[i].frame_id = fs.next_frame_id + 1
          /\ \A j \in Slot \ {i} : fs'.slots[j] = fs.slots[j]
      <4>1. fs' = tm_fs_publish_cpu(fs).s
        BY <1>5 DEF FsPublish
      <4>2. QED
        BY <1>1, <2>3, <4>1, PublishEffect
    <3>2. FsShape
      BY <3>1 DEF FsShape, Published
    <3>3. fs.next_frame_id \in Nat /\ fs.generation \in Nat /\ fs.slots[i] \in SlotRecord
      BY <1>1, <3>1 DEF FsStore
    <3>4. fsRefs' = fsRefs \union {PublishedRef(fs)}
      BY <1>5, <2>3 DEF FsPublish
    <3>5. /\ PublishedRef(fs) \in FrameRef
          /\ PublishedRef(fs).store = fs.generation
          /\ PublishedRef(fs).frame_id = fs.next_frame_id + 1
      <4>1. fs.slots[i].slot_generation + 1 \in Nat
        BY <3>3, FsConstants DEF SlotRecord
      <4>2. QED
        BY <3>1, <3>3, <4>1 DEF PublishedRef, FrameRef
    <3>6. RefsKnown(fs', fsRefs')
      <4>1. ASSUME NEW r \in fsRefs'
            PROVE  RefKnown(fs', r)
        <5>1. CASE r \in fsRefs
          <6>1. RefKnown(fs, r)
            BY <1>1, <5>1 DEF RefsKnown
          <6>2. /\ r \in FrameRef /\ r.store <= fs.generation /\ r.frame_id \in Nat
                /\ (r.store = fs.generation) => (r.frame_id <= fs.next_frame_id)
            BY <6>1, KnownRef
          <6>3. QED
            BY <3>1, <3>3, <6>2 DEF RefKnown
        <5>2. CASE r = PublishedRef(fs)
          BY <3>1, <3>3, <3>5, <5>2 DEF RefKnown
        <5>3. QED
          BY <3>4, <5>1, <5>2
      <4>2. QED
        BY <4>1 DEF RefsKnown
    <3>7. QED
      BY <2>1, <3>2, <3>6
  <2>4. QED
    BY <2>2, <2>3
<1>6. ASSUME NEW ref \in fsRefs, FsReservePin(ref)
      PROVE  FsInv(fs') /\ RefsKnown(fs', fsRefs') /\ FsShape
  <2>1. FsInv(fs') /\ Keeps(fs, fs') /\ fs'.alive = fs.alive /\ fsRefs' = fsRefs
    BY <1>1, <1>3, <1>6, ReservePinInv DEF FsReservePin
  <2>2. QED
    BY <1>1, <2>1, KeepsRefs DEF FsShape
<1>7. ASSUME NEW ref \in fsRefs, FsAcquireWeak(ref)
      PROVE  FsInv(fs') /\ RefsKnown(fs', fsRefs') /\ FsShape
  <2>1. FsInv(fs') /\ Keeps(fs, fs') /\ fs'.alive = fs.alive /\ fsRefs' = fsRefs
    BY <1>1, <1>3, <1>7, AcquireWeakInv DEF FsAcquireWeak
  <2>2. QED
    BY <1>1, <2>1, KeepsRefs DEF FsShape
<1>8. ASSUME NEW ref \in fsRefs, FsRetire(ref)
      PROVE  FsInv(fs') /\ RefsKnown(fs', fsRefs') /\ FsShape
  <2>1. FsInv(fs') /\ Keeps(fs, fs') /\ fs'.alive = fs.alive /\ fsRefs' = fsRefs
    BY <1>1, <1>3, <1>8, RetireInv DEF FsRetire
  <2>2. QED
    BY <1>1, <2>1, KeepsRefs DEF FsShape
<1>9. ASSUME NEW k \in FsTickets, FsAcquirePinned(k)
      PROVE  FsInv(fs') /\ RefsKnown(fs', fsRefs') /\ FsShape
  <2>1. FsInv(fs') /\ Keeps(fs, fs') /\ fs'.alive = fs.alive /\ fsRefs' = fsRefs
    BY <1>1, <1>3, <1>9, AcquirePinnedInv DEF FsAcquirePinned
  <2>2. QED
    BY <1>1, <2>1, KeepsRefs DEF FsShape
<1>10. ASSUME NEW k \in FsTickets, FsReleaseLease(k)
      PROVE  FsInv(fs') /\ RefsKnown(fs', fsRefs') /\ FsShape
  <2>1. FsInv(fs') /\ Keeps(fs, fs') /\ fs'.alive = fs.alive /\ fsRefs' = fsRefs
    BY <1>1, <1>3, <1>10, ReleaseLeaseInv DEF FsReleaseLease
  <2>2. QED
    BY <1>1, <2>1, KeepsRefs DEF FsShape
<1>11. ASSUME NEW k \in FsTickets, FsReleasePin(k)
      PROVE  FsInv(fs') /\ RefsKnown(fs', fsRefs') /\ FsShape
  <2>1. FsInv(fs') /\ Keeps(fs, fs') /\ fs'.alive = fs.alive /\ fsRefs' = fsRefs
    BY <1>1, <1>3, <1>11, ReleasePinInv DEF FsReleasePin
  <2>2. QED
    BY <1>1, <2>1, KeepsRefs DEF FsShape
<1>12. CASE FsSeal
  <2>1. FsInv(fs') /\ Keeps(fs, fs') /\ fs'.alive = fs.alive /\ fsRefs' = fsRefs
    BY <1>1, <1>12, SealInv DEF FsSeal
  <2>2. QED
    BY <1>1, <2>1, KeepsRefs DEF FsShape
<1>13. CASE FsDestroy
  <2>1. /\ FsInv(fs') /\ Keeps(fs, fs') /\ fsRefs' = fsRefs
        /\ fs'.alive # fs.alive => fs.pins = {} /\ fs.leases = {}
    BY <1>1, <1>13, DestroyInv DEF FsDestroy
  <2>2. QED
    BY <1>1, <2>1, KeepsRefs DEF FsShape
<1>14. CASE FsCreate
  <2>1. fs.generation \in Nat
    BY <1>1 DEF FsStore
  <2>2. /\ fs'.generation = fs.generation + 1 /\ fs'.next_frame_id = 0 /\ fs'.leases = {}
        /\ fsRefs' = fsRefs /\ ~fs.alive
    BY <1>14 DEF FsCreate, tm_fs_create
  <2>3. FsInv(fs')
    BY <1>14, <2>1, CreateInv DEF FsCreate
  <2>4. RefsKnown(fs', fsRefs')
    <3>1. ASSUME NEW r \in fsRefs
          PROVE  RefKnown(fs', r)
      <4>1. RefKnown(fs, r)
        BY <1>1 DEF RefsKnown
      <4>2. r \in FrameRef /\ r.store \in Nat /\ r.store <= fs.generation
        BY <4>1, KnownRef
      <4>3. QED
        BY <2>1, <2>2, <4>2 DEF RefKnown
    <3>2. QED
      BY <2>2, <3>1 DEF RefsKnown
  <2>5. QED
    BY <2>2, <2>3, <2>4 DEF FsShape, Recreated
<1>15. QED
  BY <1>4, <1>5, <1>6, <1>7, <1>8, <1>9, <1>10, <1>11, <1>12, <1>13, <1>14 DEF FsNext

(* The frame store's inductive invariant holds of every order of calls.     *)
THEOREM FsInvariant == FsSpec => []FsIInv
<1>1. FsInit => FsIInv
  BY CreateInv DEF FsInit, FsIInv, RefsKnown
<1>2. FsIInv /\ [FsNext]_fsVars => FsIInv'
  BY FsStep
<1>3. QED
  BY <1>1, <1>2, PTL DEF FsSpec

(* The store and the references are always of their types. *)
THEOREM FsTypeCorrect == FsSpec => []FsTypeOK
<1>1. FsIInv => FsTypeOK
  BY DEF FsIInv, FsInv, RefsKnown, RefKnown, FsTypeOK
<1>2. QED
  BY <1>1, FsInvariant, PTL

(* The slot counters always agree with the credit tables, whatever mix of   *)
(* pins, leases, stale and double releases the holders call.                *)
THEOREM FsCountsCorrect == FsSpec => []FsCountsAgree
<1>1. FsIInv => FsCountsAgree
  BY DEF FsIInv, FsInv, FsCountsAgree
<1>2. QED
  BY <1>1, FsInvariant, PTL

(* No slot is recycled while a pin or a lease on it is outstanding. *)
THEOREM FsCreditsCorrect == FsSpec => []FsCreditsProtect
<1>1. FsIInv => FsCreditsProtect
  BY DEF FsIInv, FsInv, FsCreditsProtect
<1>2. QED
  BY <1>1, FsInvariant, PTL

(* No slot is stranded in RETIRING without a holder to free it. *)
THEOREM FsNoStrandedSlotCorrect == FsSpec => []FsNoStrandedSlot
<1>1. FsIInv => FsNoStrandedSlot
  BY DEF FsIInv, FsInv, FsNoStrandedSlot
<1>2. QED
  BY <1>1, FsInvariant, PTL

(* The three together: who holds a frame, and that it stays until they let  *)
(* go.                                                                      *)
THEOREM FsOwnershipCorrect == FsSpec => []FsOwnership
  BY FsCountsCorrect, FsCreditsCorrect, FsNoStrandedSlotCorrect, PTL DEF FsOwnership

(* tm_fs_destroy frees a store only when no credit of it is outstanding.    *)
THEOREM FsDestroyQuietCorrect == FsSpec => FsDestroyQuiet
<1>1. FsIInv /\ [FsNext]_fsVars
        => [fs.alive /\ ~fs'.alive => fs.pins = {} /\ fs.leases = {}]_fsVars
  BY FsStep DEF FsShape
<1>2. QED
  BY <1>1, FsInvariant, PTL DEF FsSpec, FsDestroyQuiet

(* A reference once refused is refused for ever: across publications into   *)
(* its slot, and across stores.                                             *)
THEOREM FsStaleForeverCorrect == FsSpec => FsStaleForever
<1>1. ASSUME FsIInv, [FsNext]_fsVars, NEW r \in fsRefs,
             ref_index(fs, r) # "OK"
      PROVE  ref_index(fs', r) # "OK"
  <2>1. /\ r.slot \in Slot /\ r.store \in Nat /\ r.frame_id \in Nat
        /\ r.store <= fs.generation
        /\ (r.store = fs.generation) => (r.frame_id <= fs.next_frame_id)
    <3>1. RefKnown(fs, r)
      BY <1>1 DEF FsIInv, RefsKnown
    <3>2. QED
      BY <3>1, KnownRef
  <2>2. fs.generation \in Nat /\ fs.next_frame_id \in Nat
    BY <1>1 DEF FsIInv, FsInv, FsStore
  <2>3. CASE fs' = fs
    BY <1>1, <2>3
  <2>4. CASE Keeps(fs, fs')
    BY <1>1, <2>1, <2>4 DEF ref_index, Keeps
  <2>5. CASE Published(fs, fs')
    <3>1. PICK i \in Slot : /\ fs'.slots[i].frame_id = fs.next_frame_id + 1
                            /\ fs'.generation = fs.generation
                            /\ \A j \in Slot \ {i} : fs'.slots[j] = fs.slots[j]
      BY <2>5 DEF Published
    <3>2. CASE r.slot = i /\ r.store = fs.generation
      <4>1. fs'.slots[r.slot].frame_id # r.frame_id
        BY <2>1, <2>2, <3>1, <3>2
      <4>2. QED
        BY <4>1 DEF ref_index
    <3>3. CASE r.slot # i \/ r.store # fs.generation
      BY <1>1, <2>1, <3>1, <3>3 DEF ref_index
    <3>4. QED
      BY <3>2, <3>3
  <2>6. CASE Recreated(fs, fs')
    <3>1. r.store # fs'.generation
      BY <2>1, <2>2, <2>6 DEF Recreated
    <3>2. QED
      BY <3>1 DEF ref_index
  <2>7. QED
    BY <1>1, <2>3, <2>4, <2>5, <2>6, FsStep DEF FsShape
<1>2. FsIInv /\ [FsNext]_fsVars
        => [\A r \in fsRefs : ref_index(fs, r) # "OK" => ref_index(fs', r) # "OK"]_fsVars
  BY <1>1
<1>3. QED
  BY <1>2, FsInvariant, PTL DEF FsSpec, FsStaleForever

(* What a lease that is in the table shows: its own row is the only match.  *)
LEMMA MapShows ==
  ASSUME NEW s, FsInv(s), NEW c \in s.leases
  PROVE  tm_fs_map_cpu(s, [store |-> s.generation, id |-> c.token])
           = s.slots[c.slot].frame_id
<1> DEFINE k == [store |-> s.generation, id |-> c.token]
<1>1. credit_lookup(s, k, s.leases) = {c}
  BY DEF FsInv, TokensFresh, credit_lookup
<1>2. QED
  BY <1>1 DEF tm_fs_map_cpu

(* The frame a lease shows never changes while the lease is held.           *)
THEOREM FsViewStableCorrect == FsSpec => FsViewStable
<1> DEFINE Stable ==
      \A c \in fs.leases : c \in fs'.leases =>
        LET k == [store |-> fs.generation, id |-> c.token]
        IN  tm_fs_map_cpu(fs', k) = tm_fs_map_cpu(fs, k)
<1>1. ASSUME FsIInv, [FsNext]_fsVars
      PROVE  Stable
  <2>1. SUFFICES ASSUME NEW c \in fs.leases, c \in fs'.leases
                 PROVE  tm_fs_map_cpu(fs', [store |-> fs.generation, id |-> c.token])
                          = tm_fs_map_cpu(fs, [store |-> fs.generation, id |-> c.token])
    OBVIOUS
  <2>2. FsInv(fs) /\ FsInv(fs') /\ (fs' = fs \/ FsShape)
    BY <1>1, FsStep DEF FsIInv
  <2>3. c.slot \in Slot /\ fs.slots[c.slot].state # "FREE"
    BY <2>2 DEF FsInv, CreditsProtect, FsStore, Credit
  <2>4. fs'.generation = fs.generation /\ fs'.slots[c.slot].frame_id = fs.slots[c.slot].frame_id
    BY <2>1, <2>2, <2>3 DEF FsShape, Keeps, Published, Recreated
  <2>5. tm_fs_map_cpu(fs, [store |-> fs.generation, id |-> c.token])
          = fs.slots[c.slot].frame_id
    BY <2>2, MapShows
  <2>6. tm_fs_map_cpu(fs', [store |-> fs'.generation, id |-> c.token])
          = fs'.slots[c.slot].frame_id
    BY <2>1, <2>2, MapShows
  <2>7. QED
    BY <2>4, <2>5, <2>6
<1>2. FsIInv /\ [FsNext]_fsVars => [Stable]_fsVars
  BY <1>1
<1>3. QED
  BY <1>2, FsInvariant, PTL DEF FsSpec, FsViewStable

(* References and leases together never show another frame than their own.  *)
THEOREM FsHandlesExactCorrect == FsSpec => FsHandlesExact
  BY FsStaleForeverCorrect, FsViewStableCorrect DEF FsHandlesExact

=============================================================================
