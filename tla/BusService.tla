----------------------------- MODULE BusService -----------------------------
(***************************************************************************)
(* What the interrupt path owes a driver of the management bus: every      *)
(* transaction it requests is served by exactly one run of its interrupt   *)
(* handler, and no handler runs unasked.                                   *)
(***************************************************************************)
VARIABLES
  requested,    \* a transaction awaits its interrupt, or the end of its service
  serving       \* the handler runs and has not cleared the status yet

vars == <<requested, serving>>

Init == requested = FALSE /\ serving = FALSE

Request  == ~requested /\ requested' = TRUE /\ UNCHANGED serving
Serve    == requested /\ ~serving /\ serving' = TRUE /\ UNCHANGED requested
Complete == serving /\ requested' = FALSE /\ serving' = FALSE

Next == Request \/ Serve \/ Complete

Fairness == WF_vars(Serve \/ Complete)

Spec == Init /\ [][Next]_vars /\ Fairness
=============================================================================
