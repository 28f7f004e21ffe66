------------------------------ MODULE MCFfmpeg ------------------------------
(* The FFmpeg adapters: the source alone, the asynchronous decoder with two *)
(* workers over source and portal, and the delayed decoder.  They share no  *)
(* state in use; `part` says which one steps.                               *)
EXTENDS FfmpegAsync, FfmpegDelayed

VARIABLE part

mcVars == <<part, ff, ffCalls, ffHeld, pc, pcCancelled, pcObserved, pcSettled,
            ffa, ffaRun, ffaAdmitted, ffaAccepted, ffaDelivered, ffd, ffdSteps, ffdSent>>

MCInit ==
  /\ part \in {"source", "async", "delayed"}
  /\ FfaInit
  /\ FfdInit

MCSource ==
  /\ part = "source"
  /\ FfNext
  /\ UNCHANGED <<part, pcAll, ffa, ffaRun, ffaAdmitted, ffaAccepted, ffaDelivered,
                 ffd, ffdSteps, ffdSent>>

MCAsync(step) ==
  /\ part = "async"
  /\ step
  /\ UNCHANGED <<part, ffd, ffdSteps, ffdSent>>

MCDelayed ==
  /\ part = "delayed"
  /\ FfdNext
  /\ UNCHANGED <<part, ff, ffCalls, ffHeld, pcAll,
                 ffa, ffaRun, ffaAdmitted, ffaAccepted, ffaDelivered>>

MCNext == MCSource \/ MCAsync(FfaNext) \/ MCDelayed

MCSpec ==
  /\ MCInit
  /\ [][MCNext]_mcVars
  /\ \A w \in FfaWorker : WF_mcVars(MCAsync(FfaStep(w)))
=============================================================================
