------------------------------ MODULE MCCells ------------------------------
(* The three cells of StreamGraph that threads share: the frame store, the  *)
(* command inbox and the completion portal.  They have no state in common,  *)
(* so a behaviour explores one of them and leaves the other two as created. *)
EXTENDS FrameStore, Handoff, ProviderCompletion

VARIABLE cell

mcVars == <<fs, fsRefs, ho, hoLog, hoLast, pc, pcCancelled, pcObserved, pcSettled, cell>>

(* One malformed command among two well-formed ones. *)
MCHoCommand ==
  {[kind |-> "PUMP_SOURCE", branch |-> 0, has_frame |-> 0],
   [kind |-> "PUMP_SINK", branch |-> 7, has_frame |-> 0],
   [kind |-> "PUMP_SINK", branch |-> 8, has_frame |-> 0]}

MCInit ==
  /\ FsInit /\ HoInit /\ PcInit
  /\ cell \in {"store", "inbox", "portal"}

MCNext ==
  /\ \/ cell = "store" /\ FsNext /\ UNCHANGED <<hoVars, pcVars>>
     \/ cell = "inbox" /\ HoNext /\ UNCHANGED <<fsVars, pcVars>>
     \/ cell = "portal" /\ PcNext /\ UNCHANGED <<fsVars, hoVars>>
  /\ UNCHANGED cell

MCSpec == MCInit /\ [][MCNext]_mcVars
=============================================================================
