---------------------------- MODULE SMBusDevices ----------------------------
(***************************************************************************)
(* The data path of the management bus: its command and data registers and *)
(* the devices behind it, the system management controller (smc.cpp), the  *)
(* EEPROM (eeprom.cpp) and the TV encoder (conexant.cpp).  Each access to  *)
(* a register is the action of SMBus together with what it does to the     *)
(* data.                                                                   *)
(*                                                                         *)
(* The block buffer m_Data is left out: no device fills or reads it.       *)
(***************************************************************************)
EXTENDS SMBus, Sequences, SequencesExt

CONSTANTS
  Commands,    \* the values of m_Command the guest writes
  Bytes,       \* the data bytes the guest writes
  Image        \* the EEPROM's contents, default_eeprom

Byte == 0 .. 255

VERSION == 1
RESET   == 2

\* The registers of the SMC the guest can reach.
Registers == Commands \cup {VERSION}

SMC    == 16     \* 0x10
Eeprom == 84     \* 0x54; the TV encoder is at 0x45

ASSUME SMBusDevicesAssumption ==
  /\ Commands \subseteq Byte /\ Bytes \subseteq Byte
  /\ Image \in [Byte -> Byte]

VARIABLES
  Command, Data0, Data1,   \* m_Command, m_Data0, m_Data1
  version,                 \* m_PICVersionStringIndex of the SMC
  buffer,                  \* buffer of the SMC
  heard,                   \* version bytes received since the last reset of the index
  acknowledged             \* per register of the SMC, the last byte written to it

dataVars == <<Command, Data0, Data1>>
smcVars  == <<version, buffer>>
seenVars == <<heard, acknowledged>>
devVars  == <<vars, dataVars, smcVars, seenVars>>

-----------------------------------------------------------------------------
(* The system management controller.                                       *)

\* "P01", the revision the constructor sets.
VersionString == <<80, 48, 49>>

\* The AV pack and the challenge, which are read as constants.
Constants == {4} \cup 28 .. 31

Constant(command) ==
  CASE command = 4  -> 6
    [] command = 28 -> 82
    [] command = 29 -> 114
    [] command = 30 -> 234
    [] command = 31 -> 70

\* SMC::ReadByte: the value read.
SMCReadByte(command) ==
  IF command = VERSION THEN VersionString[version + 1]
  ELSE IF command \in Constants THEN Constant(command) ELSE buffer[command]

\* Mistake: the index of the version string advances with every read.
SMCAfterRead_Any(command) ==
  /\ version' = (version + 1) % 3
  /\ buffer' = [buffer EXCEPT ![VERSION] = VersionString[version + 1]]

\* SMC::ReadByte: what a read leaves behind.
SMCAfterRead(command) ==
  IF command = VERSION
  THEN /\ version' = (version + 1) % 3
       /\ buffer' = [buffer EXCEPT ![VERSION] = VersionString[version + 1]]
  ELSE UNCHANGED smcVars

\* SMC::WriteByte: a zero resets the version string; resets and power cycles
\* are ignored.
SMCWriteByte(command, value) ==
  CASE command = VERSION -> /\ version' = (IF value = 0 THEN 0 ELSE version)
                            /\ UNCHANGED buffer
    [] command = RESET   -> UNCHANGED smcVars
    [] OTHER             -> /\ buffer' = [buffer EXCEPT ![command] = value]
                            /\ UNCHANGED version

-----------------------------------------------------------------------------
(* The other devices.                                                      *)

\* Eeprom::ReadByte; the TV encoder reads as 0.
ReadByte(device, command) ==
  CASE device = SMC    -> SMCReadByte(command)
    [] device = Eeprom -> Image[command]
    [] OTHER           -> 0

\* ReadWord: only the EEPROM has words.  The one at the last byte reaches
\* behind its image, where any byte may be.
ReadWord(device, command) ==
  IF device # Eeprom THEN {<<0, 0>>}
  ELSE {Image[command]} \X (IF command = 255 THEN Byte ELSE {Image[command + 1]})

\* What a read leaves in m_Data0 and m_Data1: ReceiveByte and ReadBlock return
\* 0 on every device.
Received(device, protocol) ==
  CASE protocol = 0        -> {<<Data0, Data1>>}
    [] protocol \in {1, 5} -> {<<0, Data1>>}
    [] protocol = 2        -> {<<ReadByte(device, Command), Data1>>}
    [] protocol = 3        -> ReadWord(device, Command)

\* The devices' part of a read.
Receive(device, protocol) ==
  /\ \E data \in Received(device, protocol) : Data0' = data[1] /\ Data1' = data[2]
  /\ IF device = SMC /\ protocol = 2 THEN SMCAfterRead(Command)
     ELSE UNCHANGED smcVars
  /\ UNCHANGED Command

\* Mistake: a word is taken for a byte.
Send_Words(device, protocol) ==
  /\ IF device = SMC /\ protocol \in {2, 3} THEN SMCWriteByte(Command, Data0)
     ELSE UNCHANGED smcVars
  /\ UNCHANGED dataVars

\* The devices' part of a write: every device but the SMC ignores it, and the
\* SMC every write but that of a byte.
Send(device, protocol) ==
  /\ IF device = SMC /\ protocol = 2 THEN SMCWriteByte(Command, Data0)
     ELSE UNCHANGED smcVars
  /\ UNCHANGED dataVars

\* ExecuteTransaction: nothing moves unless it completes.
ExecuteTransaction(protocol) ==
  IF Outcome(Address, protocol) # "HCYC" THEN UNCHANGED <<dataVars, smcVars>>
  ELSE IF IsRead(Address) THEN Receive(Device(Address), protocol)
  ELSE Send(Device(Address), protocol)

-----------------------------------------------------------------------------
(* The accesses to the bus' registers.                                     *)

\* IORead: the registers as the guest reads them; the abort bit reads as 0 and
\* the block data register is BlockData.
IORead(register) ==
  CASE register = "SMB_GLOBAL_STATUS" -> Status
    [] register = "SMB_GLOBAL_ENABLE" -> [Control EXCEPT !.abort = FALSE]
    [] register = "SMB_HOST_COMMAND"  -> Command
    [] register = "SMB_HOST_ADDRESS"  -> Address
    [] register = "SMB_HOST_DATA"     -> Data0
    [] register = "SMB_HOST_WORD"     -> <<Data0, Data1>>

\* A byte-data transaction with the SMC that the status reports as complete.
ByteWithSMC(control) ==
  /\ control.start /\ control.protocol = 2
  /\ Device(Address) = SMC
  /\ Outcome(Address, control.protocol) = "HCYC"

\* What the guest knows of the SMC from completed transactions.
Observe(control) ==
  LET byte == ByteWithSMC(control)
      read == IsRead(Address)
  IN  /\ heard' = CASE byte /\ Command = VERSION /\ read /\ Len(heard) < 3 ->
                         Append(heard, IORead("SMB_HOST_DATA")')
                    [] byte /\ Command = VERSION /\ ~ read /\ Data0 = 0 -> <<>>
                    [] OTHER -> heard
      /\ acknowledged' = IF byte /\ ~ read /\ Command \notin {VERSION, RESET}
                         THEN [acknowledged EXCEPT ![Command] = Data0]
                         ELSE acknowledged

\* IOWrite of SMB_GLOBAL_ENABLE with the transaction's data.
Enable(control) ==
  /\ WriteEnable(control)
  /\ IF control.start THEN ExecuteTransaction(control.protocol)
     ELSE UNCHANGED <<dataVars, smcVars>>
  /\ Observe(control)

\* IOWrite of SMB_HOST_COMMAND.
WriteCommand(command) ==
  /\ Command' = command
  /\ Quiet
  /\ UNCHANGED <<Status, Control, Address, Index, Data0, Data1, smcVars, seenVars>>

\* IOWrite of SMB_HOST_DATA, of one byte or of a word, and of the byte above.
WriteData(data0, data1) ==
  /\ Data0' = data0
  /\ Data1' = data1
  /\ Quiet
  /\ UNCHANGED <<Status, Control, Address, Index, Command, smcVars, seenVars>>

\* The accesses that concern control alone; those to the other BARs and to
\* memory do nothing at all.
ControlAccess ==
  /\ \/ \E value \in SUBSET Flags :
          (ExactAck => value \subseteq Status) /\ WriteStatus(value)
     \/ \E address \in Addresses : WriteAddress(address)
     \/ BlockData
  /\ UNCHANGED <<dataVars, smcVars, seenVars>>

-----------------------------------------------------------------------------
\* SMC::Init clears the version index; the bus' data registers are not set.
DevicesInit ==
  /\ Init
  /\ Command \in Commands /\ Data0 \in Bytes /\ Data1 \in Bytes
  /\ version = 0
  /\ buffer = [command \in Registers |-> 0]
  /\ heard = <<>>
  /\ acknowledged = [command \in Registers |-> 0]

DevicesNext ==
  \/ ControlAccess
  \/ \E control \in Controls : Enable(control)
  \/ \E command \in Commands : WriteCommand(command)
  \/ \E value \in Bytes : WriteData(value, Data1) \/ WriteData(Data0, value)
  \/ \E low, high \in Bytes : WriteData(low, high)

DevicesSpec == DevicesInit /\ [][DevicesNext]_devVars

-----------------------------------------------------------------------------
(* Properties.                                                             *)

\* A driver that resets the version string and reads it byte by byte hears
\* "P01", whatever transactions with other registers and devices, refused ones
\* and completed ones, come between its three reads.
VersionWhole == IsPrefix(heard, VersionString)

\* A byte the bus reported as written to a register of the SMC stays there
\* until the next such write: neither other devices nor reads, words, blocks or
\* refused transactions touch it.  The SMC keeps no other writes.
WritesKept ==
  \A command \in Registers \ {VERSION} : buffer[command] = acknowledged[command]

=============================================================================
