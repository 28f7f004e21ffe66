---------------------------- MODULE CommandQueue ----------------------------
(***************************************************************************)
(* What the command inbox of StreamGraph promises its producers and its     *)
(* owner, without rows, tickets and generations: a bounded queue of         *)
(* commands that can be sealed, and that goes away only sealed and empty.   *)
(***************************************************************************)
EXTENDS Naturals, Sequences

CONSTANTS
  Command,    \* the well-formed commands
  Capacity    \* the most commands that wait

VARIABLES
  queue,      \* the commands accepted and not yet taken, oldest first
  sealed,     \* no further command is accepted
  alive       \* the queue exists

vars == <<queue, sealed, alive>>

Fresh == queue = <<>> /\ sealed = FALSE /\ alive = TRUE

Put(c) ==
  /\ alive /\ ~sealed /\ Len(queue) < Capacity
  /\ queue' = Append(queue, c)
  /\ UNCHANGED <<sealed, alive>>

Take ==
  /\ alive /\ queue # <<>>
  /\ queue' = Tail(queue)
  /\ UNCHANGED <<sealed, alive>>

Seal ==
  /\ alive
  /\ sealed' = TRUE
  /\ UNCHANGED <<queue, alive>>

Destroy ==
  /\ alive /\ sealed /\ queue = <<>>
  /\ alive' = FALSE
  /\ UNCHANGED <<queue, sealed>>

Create == ~alive /\ Fresh'

Next == (\E c \in Command : Put(c)) \/ Take \/ Seal \/ Destroy \/ Create

Spec == Fresh /\ [][Next]_vars
=============================================================================
