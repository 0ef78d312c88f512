------------------------------- MODULE PCIBus -------------------------------
(***************************************************************************)
(* Routing of the guest's accesses to the devices of the PCI bus           *)
(* (pci/pci_bus.cpp, pci/pci.cpp) behind the fixed ports of Xbox::IORead   *)
(* and Xbox::IOWrite.  The guest moves the base address registers (BARs)   *)
(* through the configuration ports while other BARs are in use; neither    *)
(* the enable bits of the command register nor the enable bit of the       *)
(* configuration address keep a BAR from being decoded.                    *)
(*                                                                         *)
(* Only whole BARs are written.  The rest of configuration space does not  *)
(* affect routing and is left out.                                         *)
(***************************************************************************)
EXTENDS Naturals, Sequences

CONSTANTS
  Bars,          \* the BARs in the order they are searched: by device, then index
  Top,           \* the number of addresses: 2^32
  FixedPorts,    \* ports Xbox::IORead and IOWrite handle before the bus
  Pool           \* addresses the guest's firmware hands out

Fixed      == "fixed"
Nobody     == "nobody"

Unassigned == Top      \* no address

BarIds == 1 .. Len(Bars)

ASSUME PCIBusAssumption ==
  /\ Top \in Nat
  /\ Bars \in Seq([space : {"IO", "Memory"}, size : Nat \ {0}, initial : Nat])
  /\ \A b \in BarIds : /\ Top % Bars[b].size = 0
                       /\ Bars[b].initial % Bars[b].size = 0
                       /\ Bars[b].initial < Top
  /\ FixedPorts \subseteq Nat
  /\ Pool \subseteq 0 .. Top - 1

\* The firmware hands out none of the addresses BARs have after reset, nor the
\* last address, whose BAR would end at zero.
ASSUME PoolAssumption ==
  /\ Top - 1 \notin Pool
  /\ \A b \in BarIds :
       (Bars[b].initial .. Bars[b].initial + Bars[b].size - 1) \cap Pool = {}

VARIABLES
  address,     \* the address bits of every BAR in its configuration space
  selected,    \* the BAR m_configAddressRegister names; 0 for none
  assigned     \* the base the firmware has given a BAR

vars == <<address, selected, assigned>>

-----------------------------------------------------------------------------
\* Mistake: the address after the BAR is decoded too.
Claims_Inclusive(b, a) ==
  a >= address[b] /\ a <= (address[b] + Bars[b].size) % Top

\* GetIOBar and GetMMIOBar: the end of the BAR wraps to zero at the top of the
\* address space, where a BAR claims nothing.
Claims(b, a) == a >= address[b] /\ a < (address[b] + Bars[b].size) % Top

\* The first BAR of that space that claims the address.
Route(space, a) ==
  IF space = "IO" /\ a \in FixedPorts THEN Fixed
  ELSE LET claiming == {b \in BarIds : Bars[b].space = space /\ Claims(b, a)}
       IN  IF claiming = {} THEN Nobody
           ELSE CHOOSE b \in claiming : \A c \in claiming : b <= c

\* Mistake: the low bits of the address are kept.
WriteConfig_NoMask(b, value) == address' = [address EXCEPT ![b] = value]

\* WriteConfig of a BAR whose write mask is ~(size - 1).
WriteConfig(b, value) ==
  address' = [address EXCEPT ![b] = value - (value % Bars[b].size)]

\* IOWriteConfigAddress.
IOWriteConfigAddress(b) ==
  /\ selected' = b
  /\ UNCHANGED <<address, assigned>>

\* IOWriteConfigData; without a device at the configuration address it does
\* nothing.
IOWriteConfigData(value) ==
  IF selected \in BarIds THEN WriteConfig(selected, value)
  ELSE UNCHANGED address

-----------------------------------------------------------------------------
(* The firmware.                                                           *)

Range(b) == assigned[b] .. assigned[b] + Bars[b].size - 1

InUse == {b \in BarIds : assigned[b] # Unassigned}

\* It takes a BAR out of use and writes all ones to learn its size.
SizeBar ==
  /\ selected \in BarIds
  /\ IOWriteConfigData(Top - 1)
  /\ assigned' = [assigned EXCEPT ![selected] = Unassigned]
  /\ UNCHANGED selected

\* The size the firmware reads back from IOReadConfigData.
SizeRead(b) == Top - address[b]

\* It gives a sized BAR a free range of that size.
AssignBar(base) ==
  /\ selected \in BarIds
  /\ assigned[selected] = Unassigned
  /\ address[selected] # Bars[selected].initial
  /\ LET size  == SizeRead(selected)
         range == base .. base + size - 1
     IN  /\ base % size = 0
         /\ range \subseteq Pool
         /\ Bars[selected].space = "IO" => range \cap FixedPorts = {}
         /\ \A b \in InUse :
              Bars[b].space = Bars[selected].space => range \cap Range(b) = {}
  /\ IOWriteConfigData(base)
  /\ assigned' = [assigned EXCEPT ![selected] = base]
  /\ UNCHANGED selected

-----------------------------------------------------------------------------
\* RegisterBAR leaves a BAR at address 0; HostBridge::Init then puts its
\* aperture at 1 GiB.
Init ==
  /\ address = [b \in BarIds |-> Bars[b].initial]
  /\ selected = 0
  /\ assigned = [b \in BarIds |-> Unassigned]

Next ==
  \/ \E b \in BarIds \cup {0} : IOWriteConfigAddress(b)
  \/ SizeBar
  \/ \E base \in Pool : AssignBar(base)

Spec == Init /\ [][Next]_vars

-----------------------------------------------------------------------------
(* Properties.                                                             *)

\* The registers are well formed.
TypeOK ==
  /\ address \in [BarIds -> 0 .. Top - 1]
  /\ selected \in BarIds \cup {0}
  /\ assigned \in [BarIds -> Pool \cup {Unassigned}]

\* Every access to a range the firmware has assigned reaches the BAR it was
\* assigned to, whatever other BARs are at address 0, being sized or moved.
RoutedToOwner ==
  \A b \in InUse : \A a \in Range(b) : Route(Bars[b].space, a) = b

\* The size the firmware learns by writing all ones is the size registered.
SizesRight ==
  \A b \in BarIds \ InUse : address[b] # Bars[b].initial => SizeRead(b) = Bars[b].size

=============================================================================
