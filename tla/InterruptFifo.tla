--------------------------- MODULE InterruptFifo ---------------------------
(***************************************************************************)
(* What virtual processor promises of EnqueueInterrupt (vp.hpp): vectors   *)
(* are taken by the guest in the order they were enqueued, none is lost,   *)
(* none is taken twice.                                                    *)
(***************************************************************************)
EXTENDS Sequences

CONSTANT Vectors

VARIABLES
  waiting,    \* vectors enqueued and not taken yet
  taken       \* the vector the guest took last, as a sequence of at most one

Init ==
  /\ waiting = <<>>
  /\ taken = <<>>

Enqueue ==
  /\ \E v \in Vectors : waiting' = Append(waiting, v)
  /\ UNCHANGED taken

Take ==
  /\ waiting # <<>>
  /\ taken' = <<Head(waiting)>>
  /\ waiting' = Tail(waiting)

Next == Enqueue \/ Take

Spec == Init /\ [][Next]_<<waiting, taken>>
=============================================================================
