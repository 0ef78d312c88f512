---------------------------- MODULE MCSMBusDriver ----------------------------
(* An instance of SMBusDriver for TLC.  The driver reads and writes the     *)
(* SMC's version, which every transfer moves on or resets, and asks for a   *)
(* transfer with an absent device and one by an unknown protocol.  Others   *)
(* use the SMC's version and AV pack registers and the EEPROM, by byte and  *)
(* word transfers, a protocol that is not implemented, and aborts with and  *)
(* without a transaction.  The bytes written to the AV pack register are    *)
(* those a read has left in the data register.                              *)
EXTENDS SMBusDriver

MCAddresses == {32, 33, 35, 169}
MCDevices   == {16, 69, 84}
MCCommands  == {1, 27}
MCBytes     == {0}

Word(protocol, start, irqEnabled, abort) ==
  [protocol |-> protocol, start |-> start, irqEnabled |-> irqEnabled, abort |-> abort]

MCControls ==
  { Word(2, TRUE, TRUE, FALSE), Word(3, TRUE, TRUE, FALSE), Word(4, TRUE, TRUE, FALSE),
    Word(2, TRUE, FALSE, TRUE), Word(2, FALSE, FALSE, TRUE) }

Transfer(address, protocol) ==
  [address |-> address, command |-> VERSION, data |-> 0, protocol |-> protocol]

MCRequests ==
  { Transfer(33, 2), Transfer(32, 2), Transfer(35, 2), Transfer(33, 4) }

\* An empty EEPROM.
MCImage == [a \in Byte |-> 0]
=============================================================================
