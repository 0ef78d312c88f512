------------------------------ MODULE PCIGuests ------------------------------
(***************************************************************************)
(* A guest that programs configuration space through the one address       *)
(* register of the bus.  A driver writes an address, then data, reads the  *)
(* data back the same way and tries again until it reads what it wrote.    *)
(* A handler preempts it between any two of its accesses, acknowledges the *)
(* status of its own function and puts back the address it has read,       *)
(* which is always 0: the driver's next access goes to the host bridge's   *)
(* identification.                                                         *)
(***************************************************************************)
EXTENDS PCIConfig

CONSTANTS
  Requests,          \* what the driver writes, in this order
  HandlerRequest,    \* what the handler writes
  MaxPreemptions     \* bound on the interrupts that come while the driver works

\* A request stays in one double word, as the port of its data does.
Fits(request) ==
  /\ request.function \in Functions
  /\ request.register \in Registers
  /\ request.value \in Seq(Byte)
  /\ (request.register % 4) + Len(request.value) <= 4

ASSUME GuestsAssumption ==
  /\ MaxPreemptions \in Nat
  /\ Len(Requests) \in Nat
  /\ \A i \in 1 .. Len(Requests) : Fits(Requests[i])
  /\ Fits(HandlerRequest)

VARIABLES
  done,          \* requests the driver has seen completed
  pc,            \* its next access
  handler,       \* the handler's next access; "out" when it is not running
  saved,         \* the address the handler has to put back
  preemptions

vars == <<configAddress, config, done, pc, handler, saved, preemptions>>

Request == Requests[done + 1]

\* The port offset of a request is that of its register in its double word.
Address(request)  == [location |-> Identity[request.function].location,
                      register |-> request.register - (request.register % 4)]
Offset(request)   == request.register % 4

WriteAddress(address) == IOWriteConfigAddress(address.location, address.register)

\* What a request writes, and the driver wants to read back.
Aims(request) ==
  {<<request.function, r>> :
     r \in {s \in Registers : Covers(<<request.register, request.value>>, s)}}

\* What the driver reads if its address has been lost: the identification of the
\* host bridge.
LostRead(request) ==
  [i \in 1 .. Len(request.value) |->
     IF "HostBridge" \in Functions THEN PowerOn["HostBridge"][Offset(request) + (i - 1)]
     ELSE 0 .. 7]

\* A driver that writes every register once, none that the handler writes, and
\* no value that it could mistake that identification for.
Distinguishable ==
  \A i \in 1 .. Len(Requests) :
    /\ \A j \in 1 .. i - 1 : Aims(Requests[j]) \cap Aims(Requests[i]) = {}
    /\ Aims(Requests[i]) \cap Aims(HandlerRequest) = {}
    /\ LostRead(Requests[i]) # Requests[i].value

-----------------------------------------------------------------------------
Working == handler = "out" /\ done < Len(Requests)

DriverSelects ==
  /\ Working
  /\ pc \in {"select", "reselect"}
  /\ WriteAddress(Address(Request))
  /\ pc' = IF pc = "select" THEN "write" ELSE "read"
  /\ UNCHANGED <<done, handler, saved, preemptions>>

DriverWrites ==
  /\ Working
  /\ pc = "write"
  /\ IOWriteConfigData(Request.value, Offset(Request))
  /\ pc' = "reselect"
  /\ UNCHANGED <<done, handler, saved, preemptions>>

DriverReads ==
  /\ Working
  /\ pc = "read"
  /\ done' = IF IOReadConfigData(Len(Request.value), Offset(Request)) = Request.value
             THEN done + 1 ELSE done
  /\ pc' = "select"
  /\ UNCHANGED <<configAddress, config, handler, saved, preemptions>>

Driver == DriverSelects \/ DriverWrites \/ DriverReads

Interrupt ==
  /\ handler = "out"
  /\ preemptions < MaxPreemptions
  /\ preemptions' = preemptions + 1
  /\ saved' = IOReadConfigAddress
  /\ handler' = "select"
  /\ UNCHANGED <<configAddress, config, done, pc>>

HandlerSelects ==
  /\ handler = "select"
  /\ WriteAddress(Address(HandlerRequest))
  /\ handler' = "write"
  /\ UNCHANGED <<done, pc, saved, preemptions>>

HandlerWrites ==
  /\ handler = "write"
  /\ IOWriteConfigData(HandlerRequest.value, Offset(HandlerRequest))
  /\ handler' = "restore"
  /\ UNCHANGED <<done, pc, saved, preemptions>>

HandlerRestores ==
  /\ handler = "restore"
  /\ WriteAddress(saved)
  /\ handler' = "out"
  /\ UNCHANGED <<done, pc, saved, preemptions>>

Handler == HandlerSelects \/ HandlerWrites \/ HandlerRestores

Init ==
  /\ PCIInit({Address(Requests[i]) : i \in DOMAIN Requests})
  /\ done = 0
  /\ pc = "select"
  /\ handler = "out"
  /\ saved = IOReadConfigAddress
  /\ preemptions = 0

Next == Driver \/ Interrupt \/ Handler

\* A handler ends, and then the code it has interrupted goes on.
Spec == Init /\ [][Next]_vars /\ WF_vars(Driver) /\ WF_vars(Handler)

-----------------------------------------------------------------------------
(* Properties.                                                             *)

\* Every register is a byte and the address names a register.
TypeOK ==
  /\ config \in [Functions -> [Registers -> Byte]]
  /\ configAddress.register \in Registers
  /\ done \in 0 .. Len(Requests)
  /\ pc \in {"select", "write", "reselect", "read"}
  /\ handler \in {"out", "select", "write", "restore"}
  /\ preemptions \in 0 .. MaxPreemptions

\* What the guest may not write, it never changes: the identification of every
\* function, where its capabilities begin, the types of its BARs and the address
\* bits below their size stay what Xbox::Init left there.
IdentityKept ==
  \A f \in Functions, r \in Registers :
    LET kept == WriteMask[f][r] \cup Write1ToClearMask[f][r]
    IN  config[f][r] \ kept = PowerOn[f][r] \ kept

\* The registers the running program means to write.
Targets == Aims(IF handler = "out" THEN Request ELSE HandlerRequest)

\* A write whose address was lost changes nothing: what changes is what the
\* program that writes means to change, byte by byte.
StrayWritesHarmless ==
  [][\A f \in Functions, r \in Registers :
       config'[f][r] # config[f][r] => <<f, r>> \in Targets]_vars

\* What the driver has read back is there, and stays there while it and the
\* handler go on to other registers: a read whose address was lost is never
\* mistaken for a completed request.  (Of a driver that is Distinguishable.)
CompletedIsHeld ==
  \A i \in 1 .. done :
    ReadConfig(Requests[i].function, Requests[i].register, Len(Requests[i].value))
      = Requests[i].value

\* The driver gets all its requests through although the handler disturbs them.
DriverSucceeds == <>(done = Len(Requests))

=============================================================================
