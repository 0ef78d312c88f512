------------------------------- MODULE SMBus -------------------------------
(***************************************************************************)
(* The system management bus controller (src/src/devices/smbus.cpp): its   *)
(* status and control registers, the transactions it runs against the      *)
(* devices connected to it, and its line to the interrupt controllers.     *)
(*                                                                         *)
(* The data a transaction moves is added by SMBusDevices: no device        *)
(* refuses a command, so that the outcome of a transaction depends on its  *)
(* address and protocol alone.                                             *)
(***************************************************************************)
EXTENDS Naturals

CONSTANTS
  Addresses,     \* the values of the address register the guest writes
  Devices,       \* the addresses of the connected devices: 0x10, 0x45, 0x54
  Controls,      \* the values of the enable register the guest writes
  BlockLength,   \* the size of m_Data: 32
  ExactAck       \* the guest clears only status bits that are set

\* The bits of GS_CLEAR_STS.
Flags == {"ABRT", "COL", "PRERR", "HCYC", "TO"}

\* QUICK, BYTE, BYTE_DATA, WORD_DATA and BLOCK_DATA.
Implemented == {0, 1, 2, 3, 5}

\* The bits of the enable register.
ControlWord ==
  [protocol : 0 .. 7, start : BOOLEAN, irqEnabled : BOOLEAN, abort : BOOLEAN]

\* An index outside m_Data, as the constructor may leave it.
Unset == 255

ASSUME SMBusAssumption ==
  /\ BlockLength \in 1 .. Unset
  /\ Addresses \subseteq 0 .. 255
  /\ Controls \subseteq ControlWord
  /\ ExactAck \in BOOLEAN

VARIABLES
  Status,     \* m_Status
  Control,    \* m_Control
  Address,    \* m_Address
  Index,      \* m_Index
  line,       \* the level of interrupt line 11 (m_PreviousIRR of the I8259)
  signal      \* what the last access asked of the I8259

vars == <<Status, Control, Address, Index, line, signal>>

-----------------------------------------------------------------------------
Raise == line' = TRUE  /\ signal' = "RaiseIRQ"
Lower == line' = FALSE /\ signal' = "LowerIRQ"
Quiet == signal' = "none" /\ UNCHANGED line

\* Mistake: the line follows the status only when a new status is set.
WriteStatus_NoLower(value) ==
  /\ IF Control.irqEnabled /\ value \ Status # {} THEN Raise ELSE Quiet
  /\ Status' = IF value # {} THEN {} ELSE {"HCYC"}
  /\ Index' = 0
  /\ UNCHANGED <<Control, Address>>

\* Mistake: only the completion is cleared, the errors stay.
WriteStatus_KeepsErrors(value) ==
  /\ IF Control.irqEnabled /\ value \ Status # {} THEN Raise ELSE Lower
  /\ Status' = IF value # {} THEN Status \ {"HCYC"} ELSE {"HCYC"}
  /\ Index' = 0
  /\ UNCHANGED <<Control, Address>>

\* IOWrite of SMB_GLOBAL_STATUS.  The second of the three branches tests a
\* bit the first one covers: a value without bits to clear sets HCYC.
WriteStatus(value) ==
  /\ IF Control.irqEnabled /\ value \ Status # {} THEN Raise ELSE Lower
  /\ Status' = IF value # {} THEN {} ELSE {"HCYC"}
  /\ Index' = 0
  /\ UNCHANGED <<Control, Address>>

\* The address register holds the device's address above the read bit.
Device(address) == address \div 2
IsRead(address) == address % 2 = 1

\* The status bit ExecuteTransaction sets.
Outcome(address, protocol) ==
  IF Device(address) \in Devices /\ protocol \in Implemented THEN "HCYC" ELSE "PRERR"

\* Mistake: a transaction that is aborted as it is started completes without
\* saying so.
WriteEnable_AbortWins(control) ==
  /\ Control' = control
  /\ Status' = Status \cup (IF control.abort THEN {"ABRT"} ELSE {})
                 \cup (IF control.start /\ ~ (control.abort /\ Device(Address) \in Devices)
                       THEN {Outcome(Address, control.protocol)} ELSE {})
  /\ IF control.start /\ control.irqEnabled /\ Status' # {} THEN Raise ELSE Quiet
  /\ UNCHANGED <<Address, Index>>

\* IOWrite of SMB_GLOBAL_ENABLE: aborting does not keep a transaction from
\* being executed, which takes place within the access.
WriteEnable(control) ==
  /\ Control' = control
  /\ Status' = Status \cup (IF control.abort THEN {"ABRT"} ELSE {})
                 \cup (IF control.start
                       THEN {Outcome(Address, control.protocol)} ELSE {})
  /\ IF control.start /\ control.irqEnabled /\ Status' # {} THEN Raise ELSE Quiet
  /\ UNCHANGED <<Address, Index>>

\* IOWrite of SMB_HOST_ADDRESS.
WriteAddress(address) ==
  /\ Address' = address
  /\ Quiet
  /\ UNCHANGED <<Status, Control, Index>>

\* Mistake: the index wraps one access too late (> 32 for > 31).
BlockData_WrapsLate ==
  /\ Index' = IF Index + 1 > BlockLength THEN 0 ELSE Index + 1
  /\ Quiet
  /\ UNCHANGED <<Status, Control, Address>>

\* IORead or IOWrite of SMB_HOST_BLOCK_DATA.  Every index outside m_Data wraps
\* at the next access, so that one stands for all of them.
BlockData ==
  /\ Index' = IF Index + 1 > BlockLength - 1 THEN 0 ELSE Index + 1
  /\ Quiet
  /\ UNCHANGED <<Status, Control, Address>>

-----------------------------------------------------------------------------
\* SMBus::Reset clears the status; the constructor leaves the other registers,
\* the index among them, unset.
Init ==
  /\ Status = {}
  /\ Control \in Controls
  /\ Address \in Addresses
  /\ Index \in (0 .. BlockLength - 1) \cup {Unset}
  /\ line = FALSE
  /\ signal = "none"

Next ==
  \/ \E value \in SUBSET Flags :
       (ExactAck => value \subseteq Status) /\ WriteStatus(value)
  \/ \E control \in Controls : WriteEnable(control)
  \/ \E address \in Addresses : WriteAddress(address)
  \/ BlockData

Spec == Init /\ [][Next]_vars

-----------------------------------------------------------------------------
(* Properties.                                                             *)

\* The registers are well formed; the index stays inside m_Data, whose end it
\* reaches in as many accesses, or keeps the value the constructor left it with.
TypeOK ==
  /\ Status \subseteq Flags
  /\ Control \in Controls
  /\ Address \in Addresses
  /\ Index \in (0 .. BlockLength - 1) \cup {Unset}
  /\ line \in BOOLEAN
  /\ signal \in {"RaiseIRQ", "LowerIRQ", "none"}

\* The line is high only while a status bit is set: an interrupt tells of a new
\* status (the comment of SMBus::IOWrite), and once the status is cleared the
\* next completion is an edge the edge-triggered I8259 latches.
InterruptMeansStatus == line => Status # {}

=============================================================================
