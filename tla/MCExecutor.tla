----------------------------- MODULE MCExecutor -----------------------------
(* An executor with a recorder and a preview sink. *)
EXTENDS Executor

MCDepth == 0 :> 1 @@ 1 :> 1
MCPolicy == 0 :> "ORDERED_LOSSLESS" @@ 1 :> "LATEST"
MCSampleEvery == 0 :> 0 @@ 1 :> 0
=============================================================================
