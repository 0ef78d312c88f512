----------------------------- MODULE MachineIO -----------------------------
(***************************************************************************)
(* Where the guest's port and memory accesses end (Xbox::IORead, IOWrite), *)
(* for the graphics processor and the devices that answer constants: the   *)
(* interval timer, whose thread is never started, the audio processor,     *)
(* AC97, the ATA controller and the host bridge.  The interrupt            *)
(* controllers and the management bus have modules of their own, and PCIBus *)
(* shows that an access to a BAR reaches its device.                       *)
(***************************************************************************)
EXTENDS Nv2a

PORT_PIC == {\h20, \h21, \hA0, \hA1, \h4D0, \h4D1}
PORT_PIT == \h40 .. \h43

-----------------------------------------------------------------------------
(* The devices.                                                            *)

APU_VP == [base |-> \h20000, size |-> \h10000]

\* VPRead pretends that the FIFO is always empty.
ApuRead(addr) == IF addr = APU_VP.base + \h10 THEN \h80 ELSE 0

ApuWrite(addr, value) == UNCHANGED gpuVars

I8254Read == 0

\* The command that would start the timer is recognised and ignored.
I8254Write(value) == UNCHANGED gpuVars

Ac97Read == 0

Ac97Write(value) == UNCHANGED gpuVars

AtaRead == 0

AtaWrite(value) == UNCHANGED gpuVars

HostBridgeRead == 0

HostBridgeWrite(value) == UNCHANGED gpuVars

-----------------------------------------------------------------------------
(* The ports.                                                              *)

\* The device Xbox::IORead and IOWrite hand a port to.
PortOwner(port) ==
  CASE port \in PORT_PIC         -> "i8259"
    [] port \in PORT_PIT         -> "i8254"
    [] port \in \h3C0 .. \h3DF   -> "prmcio"
    [] OTHER                     -> "pci"

\* The ACPI timer at 0x8008 stands still unless the host is Windows; no BAR is
\* mapped there, and an access nobody handles reads 0.
IORead(port) ==
  CASE PortOwner(port) = "prmcio" -> PrmcioRead(port)
    [] PortOwner(port) = "i8254"  -> I8254Read
    [] PortOwner(port) = "pci"    -> 0

IOWrite(port, value) ==
  \/ PortOwner(port) = "prmcio" /\ PrmcioWrite(port, value)
  \/ PortOwner(port) = "i8254" /\ I8254Write(value)
  \/ PortOwner(port) = "pci" /\ UNCHANGED gpuVars

-----------------------------------------------------------------------------
(* A place is a port, or a device with the address within its BAR.         *)

Place(space, addr) == [space |-> space, addr |-> addr]

Read(place) ==
  CASE place.space = "port"      -> IORead(place.addr)
    [] place.space = "registers" -> MMIORead(0, place.addr)
    [] place.space = "ram"       -> MMIORead(1, place.addr)
    [] place.space = "bar2"      -> MMIORead(2, place.addr)
    [] place.space = "apu"       -> ApuRead(place.addr)
    [] place.space = "ac97"      -> Ac97Read
    [] place.space = "ata"       -> AtaRead
    [] place.space = "host"      -> HostBridgeRead

Write(place, value) ==
  \/ place.space = "port" /\ IOWrite(place.addr, value)
  \/ place.space = "registers" /\ MMIOWrite(0, place.addr, value)
  \/ place.space = "ram" /\ MMIOWrite(1, place.addr, value)
  \/ place.space = "bar2" /\ MMIOWrite(2, place.addr, value)
  \/ place.space = "apu" /\ ApuWrite(place.addr, value)
  \/ place.space = "ac97" /\ Ac97Write(value)
  \/ place.space = "ata" /\ AtaWrite(value)
  \/ place.space = "host" /\ HostBridgeWrite(value)

=============================================================================
