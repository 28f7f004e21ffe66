----------------------------- MODULE FrameStore -----------------------------
(***************************************************************************)
(* The CPU frame store of StreamGraph v2 (turbo_frame_store.c): a fixed     *)
(* array of slots that hold published frames, and two bounded tables of     *)
(* credits, the pins (keep the frame alive) and the leases (read its        *)
(* memory).  All calls are serialized by the one media owner; what is hard  *)
(* is the order in which holders of weak references, pins and leases call.  *)
(*                                                                          *)
(* Every C function is an operator on the store record: it returns the      *)
(* status, the new store and what the call hands out.  The modules above    *)
(* this one (Fanout, Executor, OwnerDispatch) apply the same operators.     *)
(*                                                                          *)
(* Data abstraction: the bytes of a slot are named by the frame_id under    *)
(* which they were published, so the session and display generations (which *)
(* a reference copies from the slot) and the length add nothing.  A credit  *)
(* table is the set of its rows with a nonzero token, since a row's index   *)
(* never leaves the store.                                                  *)
(***************************************************************************)
EXTENDS Integers, FiniteSets, FiniteSetsExt

CONSTANTS
  SlotCapacity,   \* config.slot_capacity
  MaxPins,        \* config.max_pins
  MaxLeases,      \* config.max_leases
  MaxSlotGen,     \* UINT32_MAX, the last slot_generation
  MaxFrameId,     \* UINT64_MAX, the last next_frame_id
  MaxTicketId,    \* UINT64_MAX, the last next_ticket_id
  MaxStoreGen     \* bound: stores created one after the other

ASSUME FsConstants ==
  /\ SlotCapacity \in Nat \ {0}
  /\ MaxPins \in Nat \ {0}
  /\ MaxLeases \in Nat \ {0}
  /\ MaxSlotGen \in Nat \ {0}
  /\ MaxFrameId \in Nat
  /\ MaxTicketId \in Nat
  /\ MaxStoreGen \in Nat \ {0}

VARIABLES
  fs,       \* the store
  fsRefs    \* history: every frame reference handed out so far

fsVars == <<fs, fsRefs>>

-----------------------------------------------------------------------------
(* State *)

Slot == 0 .. SlotCapacity - 1

SlotState == {"FREE", "READY", "RETIRING"}

FrameRef == [store : Nat, slot : Slot, slot_generation : Nat, frame_id : Nat]

(* A row of pins[] or leases[] in use: the slot and the slot generation it  *)
(* was allocated for.                                                       *)
Credit == [token : Nat \ {0}, slot : Slot, generation : Nat]

SlotRecord == [state : SlotState, slot_generation : 0 .. MaxSlotGen,
               frame_id : Nat, pins : Nat, leases : Nat]

FsStore == [alive : BOOLEAN, generation : Nat, sealed : BOOLEAN, cursor : Slot,
            next_frame_id : Nat, next_ticket_id : Nat,
            slots : [Slot -> SlotRecord],
            pins : SUBSET Credit, leases : SUBSET Credit]

EmptySlot == [state |-> "FREE", slot_generation |-> 0, frame_id |-> 0,
              pins |-> 0, leases |-> 0]

(* tm_fs_create: calloc'd tables and the next process-wide generation.      *)
tm_fs_create(gen) ==
  [alive |-> TRUE, generation |-> gen, sealed |-> FALSE, cursor |-> 0,
   next_frame_id |-> 0, next_ticket_id |-> 0,
   slots |-> [i \in Slot |-> EmptySlot], pins |-> {}, leases |-> {}]

-----------------------------------------------------------------------------
(* Helpers.  A result is the status, the store after the call, and the id   *)
(* of the ticket the call hands out (0 for none).                           *)

FsResult(rc, s, id) == [rc |-> rc, s |-> s, id |-> id]

(* A weak reference names a frame only while its slot is in use, in the     *)
(* store and at the generation the reference was made for.                  *)
ref_index(s, ref) ==
  IF /\ ref.store = s.generation
     /\ s.slots[ref.slot].state # "FREE"
     /\ s.slots[ref.slot].slot_generation = ref.slot_generation
     /\ s.slots[ref.slot].frame_id = ref.frame_id
  THEN "OK"
  ELSE "ESTALE"

(* A ticket of an earlier store, or one already released, finds no row.     *)
credit_lookup(s, ticket, rows) ==
  IF ticket.store = s.generation
  THEN {c \in rows : c.token = ticket.id}
  ELSE {}

maybe_retire(slot) ==
  IF slot.state = "RETIRING" /\ slot.pins = 0 /\ slot.leases = 0
  THEN [slot EXCEPT !.state = "FREE"]
  ELSE slot

(* The status of a row allocation in a table with room for `capacity` rows. *)
credit_alloc(s, rows, capacity) ==
  IF Cardinality(rows) >= capacity THEN "EFULL"
  ELSE IF s.next_ticket_id = MaxTicketId THEN "EEXHAUSTED"
  ELSE "OK"

NewCredit(s, i) ==
  [token |-> s.next_ticket_id + 1, slot |-> i,
   generation |-> s.slots[i].slot_generation]

-----------------------------------------------------------------------------
(* The C functions *)

(* The slots a publication may use, as distances from the cursor: a slot    *)
(* whose generation is used up is never published into again.               *)
Publishable(s) ==
  {k \in Slot : LET slot == s.slots[(s.cursor + k) % SlotCapacity]
                IN  slot.state = "FREE" /\ slot.slot_generation # MaxSlotGen}

PublishSlot(s) == (s.cursor + Min(Publishable(s))) % SlotCapacity

PublishRc(s) ==
  IF s.sealed THEN "ESHUTDOWN"
  ELSE IF Publishable(s) = {} THEN "EFULL"
  ELSE IF s.next_frame_id = MaxFrameId THEN "EEXHAUSTED"
  ELSE "OK"

fill_slot(slot, id) ==
  [slot EXCEPT !.slot_generation = @ + 1, !.frame_id = id, !.state = "READY"]

tm_fs_publish_cpu(s) ==
  IF PublishRc(s) # "OK"
  THEN FsResult(PublishRc(s), s, 0)
  ELSE LET i == PublishSlot(s)
       IN  FsResult("OK",
             [s EXCEPT !.slots[i] = fill_slot(@, s.next_frame_id + 1),
                       !.next_frame_id = @ + 1,
                       !.cursor = (i + 1) % SlotCapacity],
             s.next_frame_id + 1)

(* The reference a successful publication hands out. *)
PublishedRef(s) ==
  LET i == PublishSlot(s)
  IN  [store |-> s.generation, slot |-> i,
       slot_generation |-> s.slots[i].slot_generation + 1,
       frame_id |-> s.next_frame_id + 1]

(* The checks that tm_fs_reserve_pin and tm_fs_acquire_weak share. *)
WeakRc(s, ref, rows, capacity) ==
  IF s.sealed THEN "ESHUTDOWN"
  ELSE IF ref_index(s, ref) # "OK" THEN "ESTALE"
  ELSE IF s.slots[ref.slot].state # "READY" THEN "EBUSY"
  ELSE credit_alloc(s, rows, capacity)

pin_slot(s, i) ==
  [s EXCEPT !.pins = @ \union {NewCredit(s, i)},
            !.slots[i].pins = @ + 1,
            !.next_ticket_id = @ + 1]

acquire_slot(s, i) ==
  [s EXCEPT !.leases = @ \union {NewCredit(s, i)},
            !.slots[i].leases = @ + 1,
            !.next_ticket_id = @ + 1]

tm_fs_reserve_pin(s, ref) ==
  LET rc == WeakRc(s, ref, s.pins, MaxPins)
  IN  IF rc = "OK"
      THEN FsResult(rc, pin_slot(s, ref.slot), s.next_ticket_id + 1)
      ELSE FsResult(rc, s, 0)

tm_fs_acquire_weak(s, ref) ==
  LET rc == WeakRc(s, ref, s.leases, MaxLeases)
  IN  IF rc = "OK"
      THEN FsResult(rc, acquire_slot(s, ref.slot), s.next_ticket_id + 1)
      ELSE FsResult(rc, s, 0)

(* A pin's holder may lease the frame even after the store is sealed and    *)
(* even while the frame is retiring.                                        *)
tm_fs_acquire_pinned(s, pin) ==
  LET found == credit_lookup(s, pin, s.pins)
      rc    == IF found = {} THEN "ESTALE" ELSE credit_alloc(s, s.leases, MaxLeases)
  IN  IF rc = "OK"
      THEN FsResult(rc, acquire_slot(s, (CHOOSE c \in found : TRUE).slot),
                    s.next_ticket_id + 1)
      ELSE FsResult(rc, s, 0)

(* The frame whose bytes a mapped lease shows (0 when the lease is stale).  *)
tm_fs_map_cpu(s, lease) ==
  LET found == credit_lookup(s, lease, s.leases)
  IN  IF found = {} THEN 0 ELSE s.slots[(CHOOSE c \in found : TRUE).slot].frame_id

unlease(slot) == maybe_retire([slot EXCEPT !.leases = @ - 1])

drop_lease(s, c) ==
  [s EXCEPT !.slots[c.slot] = unlease(@),
            !.leases = @ \ {c}]

(* Mutant: the retirement is not completed. *)
unpin_strand(slot) == [slot EXCEPT !.pins = @ - 1]

unpin(slot) == maybe_retire([slot EXCEPT !.pins = @ - 1])

drop_pin(s, c) ==
  [s EXCEPT !.slots[c.slot] = unpin(@),
            !.pins = @ \ {c}]

tm_fs_release_lease(s, lease) ==
  LET found == credit_lookup(s, lease, s.leases)
  IN  IF found = {}
      THEN FsResult("ESTALE", s, 0)
      ELSE FsResult("OK", drop_lease(s, CHOOSE c \in found : TRUE), 0)

tm_fs_release_pin(s, pin) ==
  LET found == credit_lookup(s, pin, s.pins)
  IN  IF found = {}
      THEN FsResult("ESTALE", s, 0)
      ELSE FsResult("OK", drop_pin(s, CHOOSE c \in found : TRUE), 0)

(* Mutant: the frame of a retired slot is cleared at once. *)
retire_slot_cleared(s, i) ==
  [s EXCEPT !.slots[i] = maybe_retire([@ EXCEPT !.state = "RETIRING", !.frame_id = 0])]

retire_slot(s, i) ==
  [s EXCEPT !.slots[i] = maybe_retire([@ EXCEPT !.state = "RETIRING"])]

(* EBUSY is a success of sorts: the frame is freed by its last holder.      *)
tm_fs_retire(s, ref) ==
  IF ref_index(s, ref) # "OK"
  THEN FsResult("ESTALE", s, 0)
  ELSE FsResult(IF retire_slot(s, ref.slot).slots[ref.slot].state = "FREE"
                THEN "OK" ELSE "EBUSY",
                retire_slot(s, ref.slot), 0)

tm_fs_seal(s) == [s EXCEPT !.sealed = TRUE]

(* The destruction test looks at the counters of the slots, not at the      *)
(* credit tables that it frees.                                             *)
FsDestroyable(s) ==
  /\ s.sealed
  /\ \A i \in Slot : s.slots[i].pins = 0 /\ s.slots[i].leases = 0

tm_fs_destroy(s) ==
  IF FsDestroyable(s) THEN [s EXCEPT !.alive = FALSE] ELSE s

-----------------------------------------------------------------------------
(* The store under every order of calls.  A caller may use any reference or *)
(* ticket that was ever handed out, of this store or of an earlier one,     *)
(* live or stale, as often as it likes.                                     *)

(* Every ticket id the store has handed out, pins and leases together: a    *)
(* ticket of the wrong kind never matches a row, the ids being unique.      *)
FsTickets ==
  {[store |-> fs.generation, id |-> n] : n \in 1 .. fs.next_ticket_id}
    \union {[store |-> g, id |-> 1] : g \in 1 .. fs.generation - 1}

FsInit ==
  /\ fs = tm_fs_create(1)
  /\ fsRefs = {}

FsPublish ==
  /\ fs.alive
  /\ fs' = tm_fs_publish_cpu(fs).s
  /\ fsRefs' = IF PublishRc(fs) = "OK" THEN fsRefs \union {PublishedRef(fs)} ELSE fsRefs

FsReservePin(ref) ==
  /\ fs.alive
  /\ fs' = tm_fs_reserve_pin(fs, ref).s
  /\ UNCHANGED fsRefs

FsAcquireWeak(ref) ==
  /\ fs.alive
  /\ fs' = tm_fs_acquire_weak(fs, ref).s
  /\ UNCHANGED fsRefs

FsAcquirePinned(pin) ==
  /\ fs.alive
  /\ fs' = tm_fs_acquire_pinned(fs, pin).s
  /\ UNCHANGED fsRefs

FsReleaseLease(lease) ==
  /\ fs.alive
  /\ fs' = tm_fs_release_lease(fs, lease).s
  /\ UNCHANGED fsRefs

FsReleasePin(pin) ==
  /\ fs.alive
  /\ fs' = tm_fs_release_pin(fs, pin).s
  /\ UNCHANGED fsRefs

FsRetire(ref) ==
  /\ fs.alive
  /\ fs' = tm_fs_retire(fs, ref).s
  /\ UNCHANGED fsRefs

FsSeal ==
  /\ fs.alive
  /\ fs' = tm_fs_seal(fs)
  /\ UNCHANGED fsRefs

FsDestroy ==
  /\ fs.alive
  /\ fs' = tm_fs_destroy(fs)
  /\ UNCHANGED fsRefs

(* A new store after the old one is gone: fs_next_generation moves on.      *)
FsCreate ==
  /\ ~fs.alive
  /\ fs.generation < MaxStoreGen
  /\ fs' = tm_fs_create(fs.generation + 1)
  /\ UNCHANGED fsRefs

FsNext ==
  \/ FsPublish
  \/ \E ref \in fsRefs : FsReservePin(ref) \/ FsAcquireWeak(ref) \/ FsRetire(ref)
  \/ \E t \in FsTickets : FsAcquirePinned(t) \/ FsReleaseLease(t) \/ FsReleasePin(t)
  \/ FsSeal
  \/ FsDestroy
  \/ FsCreate

FsSpec == FsInit /\ [][FsNext]_fsVars

-----------------------------------------------------------------------------
(* Properties *)

FsTypeOK ==
  /\ fs \in FsStore
  /\ fsRefs \subseteq FrameRef

CreditsOf(rows, i) == {c \in rows : c.slot = i}

(* The per-slot counters that maybe_retire and tm_fs_destroy consult agree  *)
(* with the credit tables that tm_fs_release_pin and tm_fs_release_lease    *)
(* search: no sequence of pins, leases, stale and double releases makes     *)
(* them drift apart, and neither table outgrows its configured capacity.    *)
CountsAgree(s) ==
  /\ \A i \in Slot : /\ s.slots[i].pins = Cardinality(CreditsOf(s.pins, i))
                     /\ s.slots[i].leases = Cardinality(CreditsOf(s.leases, i))
  /\ Cardinality(s.pins) <= MaxPins
  /\ Cardinality(s.leases) <= MaxLeases

FsCountsAgree == CountsAgree(fs)

(* While a pin or a lease is outstanding its slot is not recycled: the slot *)
(* is in use and still at the generation the credit was allocated for, so   *)
(* tm_fs_map_cpu and tm_fs_acquire_pinned, which trust the row's slot       *)
(* number alone, never reach a later frame.                                 *)
CreditsProtect(s) ==
  \A c \in s.pins \union s.leases :
    /\ s.slots[c.slot].state # "FREE"
    /\ s.slots[c.slot].slot_generation = c.generation

FsCreditsProtect == CreditsProtect(fs)

(* A retiring slot always has a holder left whose release will free it:     *)
(* tm_fs_retire and the releases never strand a slot in RETIRING, where     *)
(* nothing would ever free it.                                              *)
RetiringHeld(s) ==
  \A i \in Slot : s.slots[i].state = "RETIRING" =>
                    s.slots[i].pins + s.slots[i].leases > 0

FsNoStrandedSlot == fs.alive => RetiringHeld(fs)

(* Ownership of the frames: the counters agree with the credits, a credit   *)
(* protects its slot, and a retiring slot has a holder left.                *)
FsOwnership == FsCountsAgree /\ FsCreditsProtect /\ FsNoStrandedSlot

(* The inductive strengthening: the tables are finite, and every row's      *)
(* token was handed out before and is in no other row of its table, so that *)
(* credit_lookup's first match is its only one.                             *)
TokensFresh(s) ==
  /\ IsFiniteSet(s.pins)
  /\ IsFiniteSet(s.leases)
  /\ \A c \in s.pins \union s.leases : c.token <= s.next_ticket_id
  /\ \A c, d \in s.pins : c.token = d.token => c = d
  /\ \A c, d \in s.leases : c.token = d.token => c = d

FsInv(s) ==
  /\ s \in FsStore
  /\ TokensFresh(s)
  /\ CountsAgree(s)
  /\ CreditsProtect(s)
  /\ RetiringHeld(s)

(* The references handed out are of this store or of an earlier one, and    *)
(* those of this store name frames it has published.                        *)
RefKnown(s, r) ==
  /\ r \in FrameRef
  /\ r.store <= s.generation
  /\ (r.store = s.generation) => (r.frame_id <= s.next_frame_id)

RefsKnown(s, refs) == \A r \in refs : RefKnown(s, r)

FsIInv == FsInv(fs) /\ RefsKnown(fs, fsRefs)

(* No ABA: a reference that ref_index once refuses is refused for ever.  No *)
(* later publication into its slot, and no later store with the same slots, *)
(* generations and frame ids, brings it back to life.                       *)
FsStaleForever ==
  [][\A r \in fsRefs : ref_index(fs, r) # "OK" => ref_index(fs', r) # "OK"]_fsVars

(* The frame a lease shows never changes under its holder: as long as the   *)
(* lease is not released, no publication, retirement or release by anybody  *)
(* else changes what tm_fs_map_cpu returns for it.                          *)
FsViewStable ==
  [][\A c \in fs.leases : c \in fs'.leases =>
        LET t == [store |-> fs.generation, id |-> c.token]
        IN  tm_fs_map_cpu(fs', t) = tm_fs_map_cpu(fs, t)]_fsVars

(* Both: neither a reference nor a lease ever shows another frame than the  *)
(* one it was handed out for.                                               *)
FsHandlesExact == FsStaleForever /\ FsViewStable

(* tm_fs_destroy, which tests counters, never frees a store while one of    *)
(* its pins or leases is outstanding.                                       *)
FsDestroyQuiet ==
  [][fs.alive /\ ~fs'.alive => fs.pins = {} /\ fs.leases = {}]_fsVars
=============================================================================
