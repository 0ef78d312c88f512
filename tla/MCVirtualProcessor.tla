------------------------ MODULE MCVirtualProcessor ------------------------
(* An instance of VirtualProcessor for TLC: two vectors, three pending.     *)
EXTENDS VirtualProcessor
CONSTANTS v1, v2
MCVectors == {v1, v2}
=============================================================================
