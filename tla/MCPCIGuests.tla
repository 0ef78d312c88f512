---------------------------- MODULE MCPCIGuests ----------------------------
(* An instance of PCIGuests for TLC with every function of the machine.    *)
(* The driver writes one, two and four bytes: registers that share a double *)
(* word with others, a BAR, a window of the bridge and a register outside   *)
(* the header.                                                              *)
EXTENDS PCIGuests

MCFunctions == DOMAIN Identity

Ask(function, register, value) ==
  [function |-> function, register |-> register, value |-> value]

MCRequests ==
  << Ask("AGPBridge", PCI_INTERRUPT_LINE, <<Bits(5)>>),
     Ask("AGPBridge", PCI_BRIDGE_CONTROL, Word(\h8)),
     Ask("AGPBridge", PCI_MEMORY_BASE, Word(\hfd00) \o Word(\hfe70)),
     Ask("AtaController", PCI_BASE_ADDRESS_0 + 16, <<Bits(\h61), Bits(\hff), {}, {}>>),
     Ask("AtaController", PCI_COMMAND, Word(5)),
     Ask("HostBridge", \h4d, <<Bits(2)>>) >>

\* The handler writes ones to the status bits that are cleared by it.
MCHandlerRequest == Ask("McpxApu", PCI_STATUS, Word(\hf900))

ASSUME DistinguishableAssumption == Distinguishable
=============================================================================
