------------------------------- MODULE Fanout -------------------------------
(***************************************************************************)
(* The fanout owner of StreamGraph v2 (turbo_streamgraph_fanout.c): one     *)
(* submitted frame goes to several branches, each a bounded table of rows   *)
(* with its own policy, and every row holds its own pin of the frame store. *)
(* The fanout and the store are called from the one media owner's lane, so  *)
(* a call is one step; what is hard is that a submission touches all the    *)
(* branches and the store and must take effect on all of them or on none.   *)
(*                                                                          *)
(* The counter `rejected` only counts refusals and is left out; the other   *)
(* statistics decide the destruction and are kept.                          *)
(***************************************************************************)
EXTENDS FrameStore, SequencesExt

CONSTANTS
  FoBranchCount,  \* config.branch_count
  FoDepth,        \* branches[b].queue_depth
  FoPolicy,       \* branches[b].policy
  FoSampleEvery,  \* branches[b].sample_every
  FoMaxGen,       \* UINT32_MAX, the last generation of a row
  FoMaxOrder,     \* UINT64_MAX, the value of next_order that admits no frame
  FoMaxInc        \* bound: fanout owners created one after the other

FoBranch == 0 .. FoBranchCount - 1

(* What tm_fo_create accepts. *)
ASSUME FoConstants ==
  /\ FoBranchCount \in Nat \ {0}
  /\ FoDepth \in [FoBranch -> Nat \ {0}]
  /\ FoPolicy \in [FoBranch -> {"ORDERED_LOSSLESS", "SAMPLE", "LATEST"}]
  /\ FoSampleEvery \in [FoBranch -> Nat]
  /\ \A b \in FoBranch : FoPolicy[b] = "SAMPLE" <=> FoSampleEvery[b] # 0
  /\ FoMaxGen \in Nat \ {0}
  /\ FoMaxOrder \in Nat \ {0}
  /\ FoMaxInc \in Nat \ {0}

VARIABLE
  fo        \* the fanout owner

foVars == <<fs, fsRefs, fo>>

-----------------------------------------------------------------------------
FoSlot(b) == 0 .. FoDepth[b] - 1

NoRef == [store |-> 0, slot |-> 0, slot_generation |-> 0, frame_id |-> 0]
NoPin == [store |-> 0, id |-> 0]

FoEmptyRow == [state |-> "FREE", generation |-> 0, order |-> 0, ref |-> NoRef, pin |-> NoPin]

FoNoStats == [ready |-> 0, taken |-> 0, admitted |-> 0, sampled_out |-> 0,
              replaced_ready |-> 0, completed |-> 0]

tm_fo_create(inc) ==
  [alive |-> TRUE, incarnation |-> inc, sealed |-> FALSE, next_order |-> 1,
   rows |-> [b \in FoBranch |-> [i \in FoSlot(b) |-> FoEmptyRow]],
   stats |-> [b \in FoBranch |-> FoNoStats]]

(* A result: the status, the fanout owner and the store after the call.     *)
FoResult(rc, o, s) == [rc |-> rc, o |-> o, s |-> s]

fo_fs_status(rc) ==
  IF rc \in {"OK", "EFULL", "EBUSY", "ESTALE", "ESHUTDOWN", "EEXHAUSTED"} THEN rc ELSE "EFRAME"

fo_selected(b, ref) ==
  FoPolicy[b] # "SAMPLE" \/ (ref.frame_id - 1) % FoSampleEvery[b] = 0

FoReady(o, b) == {i \in FoSlot(b) : o.rows[b][i].state = "READY"}

FoFree(o, b) == {i \in FoSlot(b) : o.rows[b][i].state = "FREE" /\ o.rows[b][i].generation # FoMaxGen}

(* The row with the least order of a set of rows of a branch. *)
FoOldest(o, b, S) == CHOOSE i \in S : \A j \in S : o.rows[b][i].order <= o.rows[b][j].order

FoNoRow == -1

(* Mutant: every policy replaces. *)
fo_choose_row_replace(o, b) ==
  IF FoFree(o, b) # {} THEN Min(FoFree(o, b))
  ELSE IF FoReady(o, b) = {} THEN FoNoRow
  ELSE FoOldest(o, b, FoReady(o, b))

(* The first free row; only LATEST may fall back on its oldest ready row.   *)
fo_choose_row(o, b) ==
  IF FoFree(o, b) # {} THEN Min(FoFree(o, b))
  ELSE IF FoPolicy[b] # "LATEST" \/ FoReady(o, b) = {} THEN FoNoRow
  ELSE FoOldest(o, b, FoReady(o, b))

fo_lookup(o, t) ==
  /\ t.incarnation = o.incarnation
  /\ t.slot_generation # 0
  /\ o.rows[t.branch][t.slot].state # "FREE"
  /\ o.rows[t.branch][t.slot].generation = t.slot_generation

clear_row_fo(r) == [FoEmptyRow EXCEPT !.generation = r.generation]

release_stats(st, state) ==
  [st EXCEPT !.ready = IF state = "READY" THEN @ - 1 ELSE @,
             !.taken = IF state = "TAKEN" THEN @ - 1 ELSE @,
             !.completed = @ + 1]

(* The row is given up only if the store took its pin back. *)
fo_release(o, s, b, i) ==
  LET released == tm_fs_release_pin(s, o.rows[b][i].pin)
  IN  IF released.rc # "OK"
      THEN FoResult(fo_fs_status(released.rc), o, s)
      ELSE FoResult("OK", [o EXCEPT !.rows[b][i] = clear_row_fo(@),
                                    !.stats[b] = release_stats(@, o.rows[b][i].state)],
                    released.s)

-----------------------------------------------------------------------------
(* tm_fo_submit *)

FoSelected(ref) == {b \in FoBranch : fo_selected(b, ref)}

(* The indices 0 .. n - 1 as a loop of the code visits them. *)
FoIndices(n) == [i \in 1 .. n |-> i - 1]

(* The loops of tm_fo_submit visit the selected branches in this order.     *)
FoLoop(ref) == SelectSeq(FoIndices(FoBranchCount), LAMBDA b : fo_selected(b, ref))

FoPreflightRc(o, ref) ==
  IF o.sealed THEN "ESHUTDOWN"
  ELSE IF o.next_order = FoMaxOrder THEN "EEXHAUSTED"
  ELSE IF \E b \in FoSelected(ref) : fo_choose_row(o, b) = FoNoRow THEN "EFULL"
  ELSE "OK"

(* One pin for every selected branch, up to the first refusal. *)
reserve_pins(s, ref) ==
  LET reserve(acc, b) ==
        LET r == tm_fs_reserve_pin(acc.s, ref)
        IN  IF acc.rc # "OK" THEN acc
            ELSE IF r.rc # "OK" THEN [acc EXCEPT !.rc = r.rc]
            ELSE [rc |-> "OK", s |-> r.s,
                  pins |-> [acc.pins EXCEPT ![b] = [store |-> s.generation, id |-> r.id]]]
  IN  FoldLeft(reserve, [rc |-> "OK", s |-> s, pins |-> [b \in FoBranch |-> NoPin]], FoLoop(ref))

(* Mutant: the new reservations are forgotten. *)
rollback_none(s, pins, ref) == s

rollback(s, pins, ref) ==
  LET drop(acc, b) == IF pins[b] = NoPin THEN acc ELSE tm_fs_release_pin(acc, pins[b]).s
  IN  FoldLeft(drop, s, FoLoop(ref))

(* The ready rows that LATEST branches give up for the new frame. *)
evict_rows(o, s, ref) ==
  LET evict(acc, b) ==
        LET i == fo_choose_row(o, b)
            r == fo_release(acc.o, acc.s, b, i)
        IN  IF acc.rc # "OK" \/ o.rows[b][i].state # "READY" THEN acc
            ELSE IF r.rc # "OK" THEN [acc EXCEPT !.rc = r.rc]
            ELSE [r EXCEPT !.o.stats[b].replaced_ready = @ + 1]
  IN  FoldLeft(evict, FoResult("OK", o, s), FoLoop(ref))

admit_row(r, n, ref, pin) ==
  [r EXCEPT !.state = "READY", !.generation = (@ + 1) % (FoMaxGen + 1),
            !.order = n, !.ref = ref, !.pin = pin]

publish_rows(o, chosen, ref, pins) ==
  [o EXCEPT
     !.rows = [b \in FoBranch |->
                 IF b \in FoSelected(ref)
                 THEN [@[b] EXCEPT ![chosen[b]] = admit_row(@, o.next_order, ref, pins[b])]
                 ELSE @[b]],
     !.stats = [b \in FoBranch |->
                 IF b \in FoSelected(ref)
                 THEN [@[b] EXCEPT !.ready = @ + 1, !.admitted = @ + 1]
                 ELSE [@[b] EXCEPT !.sampled_out = @ + 1]],
     !.next_order = @ + 1]

tm_fo_submit(o, s, ref) ==
  LET chosen   == [b \in FoBranch |-> fo_choose_row(o, b)]
      reserved == reserve_pins(s, ref)
      evicted  == evict_rows(o, reserved.s, ref)
  IN  IF FoPreflightRc(o, ref) # "OK"
      THEN FoResult(FoPreflightRc(o, ref), o, s)
      ELSE IF reserved.rc # "OK"
      THEN FoResult(fo_fs_status(reserved.rc), o, rollback(reserved.s, reserved.pins, ref))
      ELSE IF evicted.rc # "OK"
      THEN FoResult(evicted.rc, evicted.o, rollback(evicted.s, reserved.pins, ref))
      ELSE FoResult("OK", publish_rows(evicted.o, chosen, ref, reserved.pins), evicted.s)

-----------------------------------------------------------------------------
(* The other calls *)

FoNextRow(o, b) == FoOldest(o, b, FoReady(o, b))

tm_fo_take(o, s, b) ==
  IF FoReady(o, b) = {}
  THEN FoResult("EBUSY", o, s)
  ELSE FoResult("OK", [o EXCEPT !.rows[b][FoNextRow(o, b)].state = "TAKEN",
                                !.stats[b].ready = @ - 1,
                                !.stats[b].taken = @ + 1], s)

(* The ticket and the reference that a successful take hands out. *)
FoTakenTicket(o, b) ==
  [incarnation |-> o.incarnation, branch |-> b, slot |-> FoNextRow(o, b),
   slot_generation |-> o.rows[b][FoNextRow(o, b)].generation]

FoTakenRef(o, b) == o.rows[b][FoNextRow(o, b)].ref

FoTakenRc(o, t) ==
  IF ~fo_lookup(o, t) THEN "ESTALE"
  ELSE IF o.rows[t.branch][t.slot].state # "TAKEN" THEN "EBUSY"
  ELSE "OK"

(* The id of the lease, if any, is what tm_fs_acquire_pinned hands out. *)
tm_fo_acquire_lease(o, s, t) ==
  IF FoTakenRc(o, t) # "OK"
  THEN FsResult(FoTakenRc(o, t), s, 0)
  ELSE LET r == tm_fs_acquire_pinned(s, o.rows[t.branch][t.slot].pin)
       IN  FsResult(fo_fs_status(r.rc), r.s, r.id)

tm_fo_settle(o, s, t) ==
  IF FoTakenRc(o, t) # "OK"
  THEN FoResult(FoTakenRc(o, t), o, s)
  ELSE fo_release(o, s, t.branch, t.slot)

tm_fo_discard_ready(o, s, b) ==
  LET discard(acc, i) == IF acc.rc # "OK" THEN acc ELSE fo_release(acc.o, acc.s, b, i)
  IN  FoldLeft(discard, FoResult("OK", o, s),
               SelectSeq(FoIndices(FoDepth[b]), LAMBDA i : i \in FoReady(o, b)))

tm_fo_seal(o) == [o EXCEPT !.sealed = TRUE]

FoDestroyable(o) ==
  o.sealed /\ \A b \in FoBranch : o.stats[b].ready = 0 /\ o.stats[b].taken = 0

tm_fo_destroy(o) ==
  IF FoDestroyable(o)
  THEN [rc |-> "OK", o |-> [o EXCEPT !.alive = FALSE]]
  ELSE [rc |-> "EBUSY", o |-> o]

-----------------------------------------------------------------------------
(* The fanout over a store, under every order of the owner's calls: any     *)
(* reference may be submitted or retired at any time and more than once,    *)
(* and any ticket ever handed out may be used again.                        *)

FoTicket ==
  UNION {[incarnation : 1 .. FoMaxInc, branch : {b}, slot : FoSlot(b),
          slot_generation : 1 .. FoMaxGen] : b \in FoBranch}

FoTickets ==
  {t \in FoTicket : \/ t.incarnation < fo.incarnation
                    \/ /\ t.incarnation = fo.incarnation
                       /\ t.slot_generation <= fo.rows[t.branch][t.slot].generation}

FoInit == FsInit /\ fo = tm_fo_create(1)

FoEffect(call) ==
  \E r \in {call} : fo' = r.o /\ fs' = r.s /\ UNCHANGED fsRefs

FoSubmit(ref) == fo.alive /\ FoEffect(tm_fo_submit(fo, fs, ref))

FoTake(b) == fo.alive /\ FoEffect(tm_fo_take(fo, fs, b))

FoAcquireLease(t) ==
  /\ fo.alive
  /\ fs' = tm_fo_acquire_lease(fo, fs, t).s
  /\ UNCHANGED <<fo, fsRefs>>

FoSettle(t) == fo.alive /\ FoEffect(tm_fo_settle(fo, fs, t))

FoDiscardReady(b) == fo.alive /\ FoEffect(tm_fo_discard_ready(fo, fs, b))

FoSeal ==
  /\ fo.alive
  /\ fo' = tm_fo_seal(fo)
  /\ UNCHANGED <<fs, fsRefs>>

FoDestroy ==
  /\ fo.alive
  /\ fo' = tm_fo_destroy(fo).o
  /\ UNCHANGED <<fs, fsRefs>>

(* A second owner on the same store: fo_next_incarnation moves on. *)
FoCreate ==
  /\ ~fo.alive
  /\ fo.incarnation < FoMaxInc
  /\ fo' = tm_fo_create(fo.incarnation + 1)
  /\ UNCHANGED <<fs, fsRefs>>

(* The calls on the store itself: the producer publishes and retires, the   *)
(* consumers release their leases, and the host seals the store.            *)
FoStoreCall ==
  /\ \/ FsPublish
     \/ \E ref \in fsRefs : FsRetire(ref)
     \/ \E t \in FsTickets : FsReleaseLease(t)
     \/ FsSeal
  /\ UNCHANGED fo

FoNext ==
  \/ \E ref \in fsRefs : FoSubmit(ref)
  \/ \E b \in FoBranch : FoTake(b) \/ FoDiscardReady(b)
  \/ \E t \in FoTickets : FoAcquireLease(t) \/ FoSettle(t)
  \/ FoSeal
  \/ FoDestroy
  \/ FoCreate
  \/ FoStoreCall

FoSpec == FoInit /\ [][FoNext]_foVars

-----------------------------------------------------------------------------
(* Properties *)

FoUsedRows == {<<b, i>> \in FoBranch \X (0 .. Max({FoDepth[b] : b \in FoBranch})) :
                 i \in FoSlot(b) /\ fo.rows[b][i].state # "FREE"}

FoRowAt(x) == fo.rows[x[1]][x[2]]

(* Every ready or taken row owns a pin of its own, which is live in the     *)
(* store and keeps the very frame the row names from being recycled; and    *)
(* the store has no other pins, so that neither a refused submission, an    *)
(* eviction, a discard nor a destruction leaks one.                         *)
FoRowsOwnPins ==
  /\ \A x \in FoUsedRows : \E c \in fs.pins :
        /\ FoRowAt(x).pin = [store |-> fs.generation, id |-> c.token]
        /\ c.slot = FoRowAt(x).ref.slot
        /\ c.generation = FoRowAt(x).ref.slot_generation
        /\ fs.slots[c.slot].frame_id = FoRowAt(x).ref.frame_id
        /\ fs.slots[c.slot].state # "FREE"
  /\ \A x, y \in FoUsedRows : FoRowAt(x).pin = FoRowAt(y).pin => x = y
  /\ Cardinality(fs.pins) = Cardinality(FoUsedRows)

(* The counters that decide tm_fo_destroy count the rows; every frame ever  *)
(* admitted is ready, taken or completed; and a submission was decided for  *)
(* all the branches at once: each has admitted or sampled out every one of  *)
(* the next_order - 1 frames accepted so far.                               *)
FoStatsConserved ==
  \A b \in FoBranch :
    LET st == fo.stats[b]
    IN  /\ st.ready = Cardinality(FoReady(fo, b))
        /\ st.taken = Cardinality({i \in FoSlot(b) : fo.rows[b][i].state = "TAKEN"})
        /\ st.admitted = st.ready + st.taken + st.completed
        /\ st.admitted + st.sampled_out = fo.next_order - 1

(* What waits in a branch that takes every frame is always the newest       *)
(* frames without a gap, and every frame already taken is older: a lossless *)
(* branch is served in order, and a LATEST branch gives up its oldest.      *)
FoQueueOrder ==
  \A b \in FoBranch :
    LET order(S) == {fo.rows[b][i].order : i \in S}
        taken    == {i \in FoSlot(b) : fo.rows[b][i].state = "TAKEN"}
    IN  /\ FoPolicy[b] # "SAMPLE" =>
             order(FoReady(fo, b)) = fo.next_order - fo.stats[b].ready .. fo.next_order - 1
        /\ \A m \in order(taken), n \in order(FoReady(fo, b)) : m < n

(* A submission is all or nothing: its pins are the rows' and the counters  *)
(* of every branch account for the same submissions.                        *)
FoAtomic == FoRowsOwnPins /\ FoStatsConserved

(* No frame in a row is given up except by the rule: only a LATEST branch   *)
(* drops a frame to make room, and a frame that was taken is its consumer's *)
(* until it settles, whatever is submitted or discarded.                    *)
FoKeepsStep ==
  \A x \in FoUsedRows :
    FoRowAt(x)' # FoRowAt(x) =>
      \/ FoRowAt(x).state = "TAKEN" /\ FoRowAt(x)'.state = "FREE"
           /\ fo'.stats[x[1]].taken = fo.stats[x[1]].taken - 1
      \/ FoRowAt(x).state = "READY" /\ FoRowAt(x)'.state = "TAKEN"
      \/ FoRowAt(x).state = "READY" /\ FoRowAt(x)'.state = "FREE" /\ fo'.next_order = fo.next_order
      \/ FoRowAt(x).state = "READY" /\ FoPolicy[x[1]] = "LATEST"
=============================================================================
