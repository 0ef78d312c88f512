----------------------------- MODULE PCIConfig -----------------------------
(***************************************************************************)
(* Configuration space behind ports 0xCF8 and 0xCFC (pci/pci_bus.cpp,      *)
(* pci/pci.cpp): what the devices and bridges of the machine put into      *)
(* their spaces, and how a guest reads and changes them.                   *)
(*                                                                         *)
(* A byte is the set of its bits that are one.  Accesses that run past the *)
(* space are left out; so is m_checkMask, which the code never looks at.   *)
(* PCIBridge::WriteConfig does nothing more than PCIDevice::WriteConfig,   *)
(* for no device is on the bus it resets.                                  *)
(***************************************************************************)
EXTENDS Integers, Sequences, FiniteSetsExt

CONSTANT Functions     \* the functions followed: names of the domain of Identity

VARIABLES
  configAddress,       \* m_configAddressRegister: where and at which register
  config               \* m_configSpace of every function

pciVars == <<configAddress, config>>

Registers == 0 .. \hff

PCI_CONFIG_HEADER_SIZE  == \h40

PCI_VENDOR_ID           == \h00
PCI_DEVICE_ID           == \h02
PCI_COMMAND             == \h04
PCI_STATUS              == \h06
PCI_REVISION_ID         == \h08
PCI_CLASS_PROG          == \h09
PCI_CLASS_DEVICE        == \h0a
PCI_CACHE_LINE_SIZE     == \h0c
PCI_LATENCY_TIMER       == \h0d
PCI_HEADER_TYPE         == \h0e
PCI_BASE_ADDRESS_0      == \h10
PCI_PRIMARY_BUS         == \h18
PCI_IO_BASE             == \h1c
PCI_IO_LIMIT            == \h1d
PCI_SEC_STATUS          == \h1e
PCI_MEMORY_BASE         == \h20
PCI_MEMORY_LIMIT        == \h22
PCI_PREF_MEMORY_BASE    == \h24
PCI_PREF_MEMORY_LIMIT   == \h26
PCI_PREF_BASE_UPPER32   == \h28
PCI_IO_BASE_UPPER16     == \h30
PCI_CAPABILITY_LIST     == \h34
PCI_INTERRUPT_LINE      == \h3c
PCI_MIN_GNT             == \h3e
PCI_BRIDGE_CONTROL      == \h3e

-----------------------------------------------------------------------------
(* Bytes, and writes of them: each is a register and the bytes from there. *)

Byte == SUBSET (0 .. 7)

Bits(n) == {b \in 0 .. 7 : (n \div (2 ^ b)) % 2 = 1}

Word(n)     == <<Bits(n % 256), Bits(n \div 256)>>
Long(high, low) == Word(low) \o Word(high)
Ones(count) == [i \in 1 .. count |-> 0 .. 7]
Zero(count) == [i \in 1 .. count |-> {}]

Covers(write, r) == r - write[1] \in 0 .. Len(write[2]) - 1

\* What a register that starts at zero holds after the writes.
Written(writes, r) ==
  LET hits == {i \in DOMAIN writes : Covers(writes[i], r)}
  IN  IF hits = {} THEN {}
      ELSE LET w == writes[Max(hits)] IN w[2][(r - w[1]) + 1]

-----------------------------------------------------------------------------
(* The machine: who its functions are and where they are connected.        *)

Description(location, type, device, revision, class) ==
  [location |-> location, type |-> type, device |-> device,
   revision |-> revision, class |-> class]

NORMAL        == 0
BRIDGE        == 1
MULTIFUNCTION == \h80

Identity ==
  [HostBridge    |-> Description(<<0, 0, 0>>,  MULTIFUNCTION, \h02a5, \ha1, <<\h06, \h00, \h00>>),
   SMBus         |-> Description(<<0, 1, 1>>,  MULTIFUNCTION, \h01b4, \hb1, <<\h0c, \h05, \h00>>),
   McpxApu       |-> Description(<<0, 5, 0>>,  NORMAL, \h01b0, \hb1, <<\h04, \h01, \h00>>),
   Ac97          |-> Description(<<0, 6, 0>>,  NORMAL, \h01b1, \hb1, <<\h04, \h01, \h00>>),
   PCIBridge     |-> Description(<<0, 8, 0>>,  BRIDGE, \h01b8, \hb1, <<\h06, \h04, \h00>>),
   AtaController |-> Description(<<0, 9, 0>>,  NORMAL, \h01bc, \hd2, <<\h01, \h01, \h8a>>),
   AGPBridge     |-> Description(<<0, 30, 0>>, BRIDGE, \h01b7, \ha1, <<\h06, \h04, \h00>>),
   Nv2a          |-> Description(<<1, 0, 0>>,  NORMAL, \h02a0, \ha1, <<\h03, \h00, \h00>>)]

ASSUME FunctionsAssumption == Functions \subseteq DOMAIN Identity

Bridges == {f \in DOMAIN Identity : Identity[f].type = BRIDGE}

\* The base address registers of a function: index, binary logarithm of the
\* size, and type bits.
Bars ==
  [HostBridge    |-> {<<0, 30, 0>>},
   SMBus         |-> {<<0, 4, 1>>, <<1, 4, 1>>, <<2, 5, 1>>},
   McpxApu       |-> {<<0, 19, 0>>},
   Ac97          |-> {<<0, 8, 1>>, <<1, 7, 1>>, <<2, 12, 0>>},
   PCIBridge     |-> {},
   AtaController |-> {<<4, 4, 1>>},
   AGPBridge     |-> {},
   Nv2a          |-> {<<0, 24, 0>>, <<1, 27, 8>>, <<2, 19, 8>>}]

BarAt(bar) == PCI_BASE_ADDRESS_0 + 4 * bar[1]

\* RegisterBAR: address bits above the size can be written.
BarMask(bar)  ==
  <<BarAt(bar), [j \in 1 .. 4 |-> {b \in 0 .. 7 : 8 * (j - 1) + b >= bar[2]}]>>
BarValue(bar) == <<BarAt(bar), <<Bits(bar[3]), {}, {}, {}>>>>

-----------------------------------------------------------------------------
(* The masks of the constructor and of RegisterBAR.                        *)

HeaderMask ==
  << <<PCI_CACHE_LINE_SIZE, Ones(1)>>, <<PCI_INTERRUPT_LINE, Ones(1)>>,
     <<PCI_COMMAND, Word(\h507)>>,
     <<PCI_CONFIG_HEADER_SIZE, Ones(256 - PCI_CONFIG_HEADER_SIZE)>> >>

BridgeMask ==
  << <<PCI_PRIMARY_BUS, Ones(4)>>,
     <<PCI_IO_BASE, <<Bits(\hf0), Bits(\hf0)>> >>,
     <<PCI_MEMORY_BASE, Word(\hfff0)>>, <<PCI_MEMORY_LIMIT, Word(\hfff0)>>,
     <<PCI_PREF_MEMORY_BASE, Word(\hfff0)>>, <<PCI_PREF_MEMORY_LIMIT, Word(\hfff0)>>,
     <<PCI_PREF_BASE_UPPER32, Ones(8)>>,
     <<PCI_BRIDGE_CONTROL, Word(\hbff)>> >>

WriteMask ==
  [f \in Functions |-> [r \in Registers |->
     LET bars == {bar \in Bars[f] : Covers(BarMask(bar), r)}
     IN  IF bars # {} THEN Written(<<BarMask(CHOOSE bar \in bars : TRUE)>>, r)
         ELSE Written(HeaderMask \o (IF f \in Bridges THEN BridgeMask ELSE <<>>), r)]]

\* Status bits that writing a one would clear; nothing ever sets them.
Write1ToClearMask ==
  [f \in Functions |-> [r \in Registers |->
     Written(<< <<PCI_STATUS, Word(\hf900)>> >>
             \o (IF f \in Bridges THEN << <<PCI_BRIDGE_CONTROL, Word(\h400)>> >> ELSE <<>>), r)]]

-----------------------------------------------------------------------------
(* The spaces when the guest starts.                                       *)

\* The constructor.
Constructed(f) ==
  << <<PCI_HEADER_TYPE, <<Bits(Identity[f].type)>>>>,
     <<PCI_VENDOR_ID, Word(\h10de)>>, <<PCI_DEVICE_ID, Word(Identity[f].device)>>,
     <<PCI_REVISION_ID, <<Bits(Identity[f].revision)>>>>,
     <<PCI_CLASS_DEVICE, <<Bits(Identity[f].class[2]), Bits(Identity[f].class[1])>>>>,
     <<PCI_CLASS_PROG, <<Bits(Identity[f].class[3])>>>> >>
  \o (IF f \in Bridges
      THEN << <<PCI_PREF_MEMORY_BASE, Word(1)>>, <<PCI_PREF_MEMORY_LIMIT, Word(1)>> >>
      ELSE <<>>)

Header(status, capabilities, grant, latency) ==
  << <<PCI_STATUS, Word(status)>>, <<PCI_CAPABILITY_LIST, <<Bits(capabilities)>>>>,
     <<PCI_MIN_GNT, <<Bits(grant), Bits(latency)>>>> >>

\* The header of a capability in the list: its kind and the next one, or 0.
PCI_CAP_ID_PM  == 1
PCI_CAP_ID_AGP == 2
PCI_CAP_ID_HT  == 8

Capability(at, id, next) == <<at, <<Bits(id), Bits(next)>> >>

\* The same 32 bits from a register to the end.
Filled(from, long) == <<from, [i \in 1 .. 256 - from |-> long[((i - 1) % 4) + 1]]>>

\* PCIBridge::Init
BridgeInit ==
  << <<PCI_STATUS, Word(\ha0)>>, <<PCI_SEC_STATUS, Word(\h280)>>,
     <<PCI_CAPABILITY_LIST, <<Bits(\h44)>>>>, Capability(\h44, PCI_CAP_ID_PM, 0),
     <<\h46, Word(2)>>, <<\h4c, Word(\hb08)>>, <<\h50, Word(\hd0c)>>, <<\h54, Word(\hf0e)>> >>

\* Init of the devices.
HostBridgeInit ==
  << <<PCI_BASE_ADDRESS_0, Long(\h4000, 8)>>,
     <<PCI_STATUS, Word(\h10)>>, <<PCI_CAPABILITY_LIST, <<Bits(\h40)>>>>,
     Capability(\h40, PCI_CAP_ID_AGP, \h60), Capability(\h60, PCI_CAP_ID_HT, 0),
     <<\h42, Word(\h20)>>, <<\h44, Long(\h1f00, \h217)>>, <<\h4c, <<Bits(1)>>>>,
     <<\h57, <<Bits(\h10)>>>>, <<\h58, Ones(8)>>,
     <<\h60, Long(\h2001, \h8)>>, <<\h64, Long(\h8888, \h120)>>, <<\h68, Long(0, \h10)>>,
     <<\h6c, Long(\hf0f, \hf21)>>, <<\h70, Ones(16)>>, <<\h87, Long(0, 3)>>,
     <<\h88, Long(0, 1)>>, <<\h8c, Long(\h3ff6, \hf417)>>, <<\h94, Long(\hf9fe, \hffff)>>,
     <<\ha4, Long(0, \h2001)>>, <<\hb0, Long(0, 1)>>, <<\hc0, Long(3, \h3333)>>,
     <<\hc4, Long(3, \h3333)>>, <<\hc8, Long(0, \h13)>>, <<\hd4, Long(0, 1)>>,
     <<\hd8, Long(\h7f0, \hffff)>>, <<\he0, Long(\h40, 6)>>, <<\he4, Long(\h1ff, \h75b7)>>,
     <<\hf0, Long(\hf000, 1)>> >>

PowerManaged(grant, latency) ==
  Header(\hb0, \h44, grant, latency)
  \o << Capability(\h44, PCI_CAP_ID_PM, 0), <<\h46, Word(2)>> >>

SMBusInit   == PowerManaged(3, 1)
McpxApuInit == PowerManaged(1, 12) \o << <<\h4c, Long(0, \h50a)>>, Filled(\h50, Long(2, 1)) >>
Ac97Init    == PowerManaged(2, 5) \o << <<\h4c, Word(\h106)>> >>
AtaInit     == PowerManaged(3, 1) \o << <<\h5c, Long(\hffff, \hff)>> >>

Nv2aInit ==
  << <<PCI_LATENCY_TIMER, <<Bits(\hf8)>>>> >> \o Header(\h2b0, \h60, 5, 1)
  \o << Capability(\h60, PCI_CAP_ID_PM, \h44), Capability(\h44, PCI_CAP_ID_AGP, 0),
        <<\h46, Word(\h20)>>, <<\h48, Long(\h1f00, \h17)>>, <<\h4c, Word(\h1f00)>>,
        <<\h54, Long(0, 1)>>, <<\h58, Long(\h23, \hd6ce)>>, <<\h5c, Long(0, \hf)>>,
        <<\h60, Long(2, \h4401)>>, <<\h80, Long(\h2b16, \hd065)>> >>

AGPBridgeInit ==
  << <<PCI_PREF_MEMORY_BASE, Word(0)>>, <<PCI_PREF_MEMORY_LIMIT, Word(0)>> >>
  \o BridgeInit
  \o Header(\h220, 0, \h80, 0)
  \o << <<PCI_SEC_STATUS, Word(\h2a0)>>, <<PCI_IO_BASE, Word(\hf0)>>,
        <<PCI_MEMORY_BASE, Word(\hfd00)>>, <<PCI_MEMORY_LIMIT, Word(\hfe70)>>,
        <<PCI_PREF_MEMORY_BASE, Word(\hf000)>>, <<PCI_PREF_MEMORY_LIMIT, Word(\hf3f0)>>,
        <<PCI_PREF_BASE_UPPER32, Long(\hff3f, \hbfff) \o Long(\hafff, \h7fff)>>,
        <<PCI_IO_BASE_UPPER16, Word(\hf5fd) \o Word(\h3eff)>>,
        <<\h44, Word(0)>>, <<\h46, Word(\h8000)>>, <<\h48, Word(\h14)>>, <<\h4c, Word(1)>>,
        <<\h50, Word(0)>>, <<\h54, Long(\h1000, 0)>>, Filled(\h58, Ones(4)) >>

DeviceInit ==
  [HostBridge    |-> HostBridgeInit, SMBus   |-> SMBusInit,
   McpxApu       |-> McpxApuInit,    Ac97    |-> Ac97Init,
   PCIBridge     |-> BridgeInit,     AtaController |-> AtaInit,
   AGPBridge     |-> AGPBridgeInit,  Nv2a    |-> Nv2aInit]

\* RegisterBAR puts the type of a BAR at its address before Init goes on.
Initialised(f) ==
  [r \in Registers |->
     LET bars == {bar \in Bars[f] : Covers(BarValue(bar), r)}
     IN  Written(Constructed(f)
                 \o (IF bars = {} THEN <<>> ELSE <<BarValue(CHOOSE bar \in bars : TRUE)>>)
                 \o DeviceInit[f], r)]

\* PCIBridge::Reset clears the bus numbers, the upper halves of the prefetchable
\* window and the control register, and sets every bit of the windows.
ResetClears ==
  {r \in Registers : \/ Covers(<<PCI_PRIMARY_BUS, Zero(4)>>, r)
                     \/ Covers(<<PCI_PREF_BASE_UPPER32, Zero(8)>>, r)
                     \/ Covers(<<PCI_BRIDGE_CONTROL, Zero(2)>>, r)}

ResetSets ==
  << <<PCI_IO_BASE, <<Bits(\hf0), Bits(\hf0)>> >>,
     <<PCI_MEMORY_BASE, Word(\hfff0) \o Word(\hfff0)>>,
     <<PCI_PREF_MEMORY_BASE, Word(\hfff0) \o Word(\hfff0)>> >>

\* The spaces after Xbox::Init: Reset is the last thing it does.
PowerOn ==
  [f \in Functions |-> [r \in Registers |->
     IF f \notin Bridges THEN Initialised(f)[r]
     ELSE IF r \in ResetClears THEN {}
     ELSE Initialised(f)[r] \cup Written(ResetSets, r)]]

-----------------------------------------------------------------------------
(* Accesses.                                                               *)

\* Mistake: the byte written replaces the one there.
ByteWritten_NoMask(f, r, old, new) == new

\* Mistake: bits are set and never cleared.
ByteWritten_Or(f, r, old, new) == old \cup (new \cap WriteMask[f][r])

\* WriteConfig, for one byte.
ByteWritten(f, r, old, new) ==
  ((old \ WriteMask[f][r]) \cup (new \cap WriteMask[f][r]))
    \ (new \cap Write1ToClearMask[f][r])

\* Mistake: the whole register is written, however small the access.
WriteConfig_Whole(f, reg, value) ==
  config' = [config EXCEPT ![f] = [r \in Registers |->
               LET dword == reg - (reg % 4)
                   i     == (r - reg) + 1
               IN  IF r \in dword .. dword + 3
                   THEN ByteWritten(f, r, config[f][r],
                                    IF i \in DOMAIN value THEN value[i] ELSE {})
                   ELSE config[f][r]]]

WriteConfig(f, reg, value) ==
  config' = [config EXCEPT ![f] = [r \in Registers |->
               IF Covers(<<reg, value>>, r)
               THEN ByteWritten(f, r, config[f][r], value[(r - reg) + 1])
               ELSE config[f][r]]]

ReadConfig(f, reg, size) == [i \in 1 .. size |-> config[f][reg + (i - 1)]]

\* The functions m_configAddressRegister names; none, or one.
Found == {f \in Functions : Identity[f].location = configAddress.location}

\* A write of 0xCF8, of whatever size.
IOWriteConfigAddress(location, register) ==
  /\ configAddress' = [location |-> location, register |-> register]
  /\ UNCHANGED config

IOReadConfigData(size, offset) ==
  IF Found = {} THEN Ones(size)
  ELSE ReadConfig(CHOOSE f \in Found : TRUE,
                  (configAddress.register - (configAddress.register % 4)) + offset, size)

IOWriteConfigData(value, offset) ==
  /\ IF Found = {} THEN UNCHANGED config
     ELSE WriteConfig(CHOOSE f \in Found : TRUE,
                      (configAddress.register - (configAddress.register % 4)) + offset, value)
  /\ UNCHANGED configAddress

\* IORead of 0xCF8 finds no device: Xbox::IORead answers 0.
IOReadConfigAddress == [location |-> <<0, 0, 0>>, register |-> 0]

\* The register is not initialised.
PCIInit(addresses) ==
  /\ configAddress \in addresses
  /\ config = PowerOn

=============================================================================
