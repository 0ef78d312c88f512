----------------------------- MODULE SMBusDriver -----------------------------
(***************************************************************************)
(* A driver of the management bus in the guest, which asks for one byte    *)
(* transfer at a time without interrupts: it writes the registers, clears  *)
(* the status, starts the transaction, looks at the status and tries       *)
(* again after an error.                                                   *)
(*                                                                         *)
(* The status register tells of every transaction since it was last        *)
(* cleared.  Other code uses the bus between the driver's requests and     *)
(* leaves in it what it likes; at any time it writes the enable register   *)
(* without starting anything, to abort or to switch the interrupt.         *)
(***************************************************************************)
EXTENDS SMBusDevices

CONSTANTS
  Requests,    \* the transfers the driver is asked for
  Attempts     \* how often it tries

\* Byte transfers, and transfers with a protocol the bus does not implement.
Request ==
  [address : Addresses, command : Commands, data : Bytes,
   protocol : {2} \cup (0 .. 7 \ Implemented)]

ASSUME SMBusDriverAssumption ==
  /\ Requests \subseteq Request
  /\ Attempts \in Nat \ {0}

VARIABLES
  step,       \* the driver's next access, how its last request ended, or "idle"
  request,    \* the transfer it is asked for
  attempts,   \* attempts left
  served,     \* the byte of the register asked for, at every transfer made for it
  answer      \* the byte the driver has read

askVars    == <<request, attempts, served, answer>>
driverVars == <<devVars, step, askVars>>

Steps  == {"address", "command", "data", "clear", "start", "status", "answer"}
Asleep == step \in {"idle", "answered", "refused"}

\* COL, PRERR and TO: what a driver takes for a failed transaction.
Failed == Status \cap {"COL", "PRERR", "TO"} # {}

-----------------------------------------------------------------------------
(* The driver's accesses.                                                  *)

Ask(r) ==
  /\ Asleep
  /\ step' = "address" /\ request' = r /\ attempts' = Attempts /\ served' = <<>>
  /\ answer' = 0
  /\ UNCHANGED devVars

SetAddress ==
  /\ step = "address" /\ step' = "command"
  /\ WriteAddress(request.address)
  /\ UNCHANGED <<dataVars, smcVars, seenVars, askVars>>

SetCommand ==
  /\ step = "command"
  /\ step' = IF IsRead(request.address) THEN "clear" ELSE "data"
  /\ WriteCommand(request.command)
  /\ UNCHANGED askVars

SetData ==
  /\ step = "data" /\ step' = "clear"
  /\ WriteData(request.data, Data1)
  /\ UNCHANGED askVars

\* It clears those flags it finds set, if any, or all, if the guest does so.
Clear ==
  /\ step = "clear" /\ step' = "start"
  /\ \E value \in {Status} \cup (IF ExactAck THEN {} ELSE {Flags}) : WriteStatus(value)
  /\ UNCHANGED <<dataVars, smcVars, seenVars, askVars>>

\* A transaction that reaches a device and is one it knows.
Serves(address, protocol) ==
  Device(address) \in Devices /\ protocol \in Implemented

Start ==
  /\ step = "start" /\ step' = "status"
  /\ \E control \in Controls :
       /\ control.start /\ control.protocol = request.protocol
       /\ Enable(control)
  /\ served' = IF Serves(Address, Control'.protocol)
               THEN Append(served, ReadByte(Device(request.address), request.command))
               ELSE served
  /\ UNCHANGED <<request, attempts, answer>>

\* It looks for errors first, and takes the answer of a transfer that is done.
ReadStatus ==
  /\ step = "status"
  /\ \/ ~ Failed /\ "HCYC" \in Status /\ step' = "answer" /\ UNCHANGED attempts
     \/ Failed /\ attempts > 1 /\ step' = "address" /\ attempts' = attempts - 1
     \/ Failed /\ attempts = 1 /\ step' = "refused" /\ UNCHANGED attempts
  /\ UNCHANGED <<devVars, request, served, answer>>

ReadAnswer ==
  /\ step = "answer" /\ step' = "answered"
  /\ answer' = IORead("SMB_HOST_DATA")
  /\ UNCHANGED <<devVars, request, attempts, served>>

Driver == SetAddress \/ SetCommand \/ SetData \/ Clear \/ Start \/ ReadStatus \/ ReadAnswer

\* The other code.  When it uses the bus, the driver's last request is over and
\* forgotten.
Others ==
  \/ /\ Asleep
     /\ DevicesNext
     /\ step' = "idle" /\ attempts' = 0 /\ served' = <<>> /\ answer' = 0
     /\ UNCHANGED request
  \/ /\ \E control \in Controls : ~ control.start /\ Enable(control)
     /\ UNCHANGED <<step, askVars>>

-----------------------------------------------------------------------------
\* The driver has not been asked for anything.
DriverInit ==
  /\ DevicesInit
  /\ step = "idle"
  /\ request \in Requests
  /\ attempts = 0
  /\ served = <<>>
  /\ answer = 0

DriverNext == (\E r \in Requests : Ask(r)) \/ Driver \/ Others

\* The code that has been asked goes on, whoever interrupts it.
DriverSpec == DriverInit /\ [][DriverNext]_driverVars /\ WF_driverVars(Driver)

-----------------------------------------------------------------------------
(* Properties.                                                             *)

\* A request that is answered has been served by the device once and only once,
\* and the answer to a read is the byte that one transfer gave; a request that is
\* refused has not been served.  No status an earlier transaction, another
\* program or an abort has left makes the driver repeat a transfer that was done
\* (the SMC's version string would lose a byte) or believe in one that was not.
AnsweredOnce ==
  /\ step = "answered" => /\ Len(served) = 1
                          /\ IsRead(request.address) => answer = served[1]
  /\ step = "refused" => served = <<>>

\* Every transaction that is started leaves a status the driver can act on: a
\* request ends.
RequestEnds == step = "address" ~> Asleep

=============================================================================
