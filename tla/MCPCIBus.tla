------------------------------ MODULE MCPCIBus ------------------------------
(* An instance of PCIBus for TLC: 64 addresses, two I/O BARs of one device, *)
(* an I/O BAR and a memory BAR of others, and a memory BAR that is not at   *)
(* address 0 after reset.  The pool excludes the addresses BARs have after  *)
(* reset and the top of the address space.                                  *)
EXTENDS PCIBus

MCBars == << [space |-> "Memory", size |-> 8, initial |-> 32],
             [space |-> "IO",     size |-> 4, initial |-> 0],
             [space |-> "IO",     size |-> 8, initial |-> 0],
             [space |-> "Memory", size |-> 8, initial |-> 0],
             [space |-> "IO",     size |-> 4, initial |-> 0] >>
MCFixedPorts == 10 .. 11
MCPool       == 8 .. 23
=============================================================================
