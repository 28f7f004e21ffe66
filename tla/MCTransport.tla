----------------------------- MODULE MCTransport -----------------------------
(***************************************************************************)
(* Media and data on their way: the jitter buffer, negative                 *)
(* acknowledgement, the data channel of two peers and the reassembly of its *)
(* messages.  A behaviour explores one of them.                             *)
(***************************************************************************)
EXTENDS JitterBuffer, Nack, DataChannel, SctpReassembly

VARIABLE part

MCInit ==
  /\ JbInit /\ NkInit /\ RxInit
  /\ \/ part \in {"jitter", "nack", "connect", "reassembly"} /\ DnInit
     \/ part = "channels" /\ DnConnected

MCNext ==
  /\ UNCHANGED part
  /\ \/ part = "jitter" /\ JbNext /\ UNCHANGED <<nkVars, dn, rx>>
     \/ part = "nack" /\ NkNext /\ UNCHANGED <<jbVars, dn, rx>>
     \/ part = "connect" /\ DnConnecting /\ UNCHANGED <<jbVars, nkVars, rx>>
     \/ part = "channels" /\ DnTalking /\ UNCHANGED <<jbVars, nkVars, rx>>
     \/ part = "reassembly" /\ RxNext /\ UNCHANGED <<jbVars, nkVars, dn>>

MCSpec == MCInit /\ [][MCNext]_<<part, jbVars, nkVars, dn, rx>>
=============================================================================
