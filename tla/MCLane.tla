------------------------------- MODULE MCLane -------------------------------
(***************************************************************************)
(* The owner lane with one recorder branch; in another part of the state    *)
(* space the fanout alone on a larger instance: a recorder that must not    *)
(* lose a frame, an analyser that samples every second frame and a preview  *)
(* that shows the latest one; and the processing of the client, which       *)
(* shares nothing with them: its two queues share only the life cycle, and  *)
(* the conversion of a file nothing with the queues.                        *)
(***************************************************************************)
EXTENDS MCOwnerDispatch, ClientProcessing, ClientFile

VARIABLE part

MCNoPts == -1

MCStamps == {MCNoPts, 0, 3, 4}

Fan == INSTANCE Fanout
         WITH SlotCapacity <- 2, MaxPins <- 3, MaxLeases <- 1, MaxSlotGen <- 2,
              MaxFrameId <- 2, MaxTicketId <- 6, MaxStoreGen <- 1,
              FoBranchCount <- 3, FoMaxGen <- 3, FoMaxOrder <- 4, FoMaxInc <- 2,
              FoDepth <- (0 :> 1 @@ 1 :> 1 @@ 2 :> 2),
              FoPolicy <- (0 :> "ORDERED_LOSSLESS" @@ 1 :> "SAMPLE" @@ 2 :> "LATEST"),
              FoSampleEvery <- (0 :> 0 @@ 1 :> 2 @@ 2 :> 0)

mcVars == <<odVars, part, cpVars, cfVars>>
mcIdle == <<ex, exHost, ho, hoLog, hoLast, pc, pcCancelled, pcObserved, pcSettled, od, odEmitted>>

MCInit ==
  /\ \/ part \in {"lane", "video", "audio", "file"} /\ OdInit
     \/ /\ part = "fanout" /\ Fan!FoInit
        /\ ex = tm_ex_create /\ exHost = {} /\ HoInit /\ PcInit /\ od = tm_od_create /\ odEmitted = <<>>
  /\ CpInit /\ CfInit

MCNext ==
  /\ UNCHANGED part
  /\ \/ part = "lane" /\ OdNext /\ UNCHANGED <<cpVars, cfVars>>
     \/ part = "fanout" /\ Fan!FoNext /\ UNCHANGED <<mcIdle, cpVars, cfVars>>
     \/ part \in CpQueues /\ (CpCapture(part) \/ CpLifecycle) /\ UNCHANGED <<odVars, cfVars>>
     \/ part = "file" /\ CfNext /\ UNCHANGED <<odVars, cpVars>>

MCSpec == MCInit /\ [][MCNext]_mcVars


(* What tm_fo_submit promises over all its branches: it takes effect on all *)
(* of them or on none, and the rows wait in order.                          *)
FanSubmits == part = "fanout" => Fan!FoAtomic /\ Fan!FoQueueOrder

(* Only the LATEST policy drops a frame to make room, and a taken row stays *)
(* its consumer's until tm_fo_settle.                                       *)
FanKeeps == [][part = "fanout" => Fan!FoKeepsStep]_foVars
=============================================================================
