-------------------------------- MODULE Nv2a --------------------------------
(***************************************************************************)
(* The graphics processor's registers as the guest and retro_run see them  *)
(* (video/nv2a/): the map from BAR 0 to the units, the units that keep     *)
(* state (PFIFO, USER, PCRTC, PRMCIO, PRAMIN) and the RAM behind BAR 1.    *)
(* The other units answer 0 and ignore what is written.                    *)
(*                                                                         *)
(* Every register is a word at its byte address, and the size of an access *)
(* is ignored, as in the code.  None is initialised but the index of       *)
(* PRMCIO; `Garbage` is what a unit's memory may hold.  Words stay below   *)
(* 2^27 and the guest keeps the index below the number of registers.       *)
(***************************************************************************)
EXTENDS Naturals, Sequences, FiniteSetsExt

CONSTANTS
  Garbage,         \* contents of memory nothing has initialised
  UserAddresses,   \* the addresses of USER, CRTC, PRMCIO, PRAMIN and RAM the
  CrtcAddresses,   \*   guest uses
  CioIndexes,
  PraminAddresses,
  RamAddresses

VARIABLES
  pfifo,    \* Nv2aPfifo::m_Regs
  user,     \* Nv2aUser::m_Regs
  crtc,     \* Nv2aPcrtc::m_Regs
  cio,      \* Nv2aPrmcio::m_Regs
  index,    \* Nv2aPrmcio::m_Index
  pramin,   \* Nv2aPramin::m_Data
  ram       \* the machine's RAM, m_pRam

gpuVars == <<pfifo, user, crtc, cio, index, pramin, ram>>

-----------------------------------------------------------------------------
(* Words.                                                                  *)

MaskBits == 12             \* no mask of the code or the guest reaches further
Words    == 0 .. 2 ^ 27 - 1

Bit(word, i) == (word \div (2 ^ i)) % 2

And(a, b) ==
  LET low[n \in 0 .. MaskBits] ==
        IF n = 0 THEN 0 ELSE low[n - 1] + Bit(a, n - 1) * Bit(b, n - 1) * 2 ^ (n - 1)
  IN  low[MaskBits]

Or(a, b) == (a + b) - And(a, b)

\* GET_MASK of a mask whose lowest bit is bit 0.
LowBits(word, n) == word % (2 ^ n)

-----------------------------------------------------------------------------
(* Registers.                                                              *)

NV_PFIFO_INTR_0         == \h100
NV_PFIFO_RUNOUT_STATUS  == \h400
NV_PFIFO_MODE           == \h504
NV_PFIFO_CACHE1_PUSH1   == \h1204
NV_PFIFO_CACHE1_DMA_PUT == \h1240
NV_PFIFO_CACHE1_DMA_GET == \h1244
NV_PFIFO_CACHE1_REF     == \h1248

PfifoRegisters == {NV_PFIFO_INTR_0, NV_PFIFO_MODE, NV_PFIFO_CACHE1_PUSH1,
                   NV_PFIFO_CACHE1_DMA_PUT, NV_PFIFO_CACHE1_DMA_GET,
                   NV_PFIFO_CACHE1_REF}

NV_PFIFO_RUNOUT_STATUS_LOW_MARK == 2 ^ 4

NV_USER == [DMA_PUT |-> \h40, DMA_GET |-> \h44, REF |-> \h48]

NV_PCRTC_START == \h800

NV_PRMCIO == [CRX__COLOR |-> \h3d4, CR__COLOR |-> \h3d5]

\* The CRTC registers; the picture's geometry is made of OVL, VDE, OFFSET, RPC0,
\* LSR and PIXEL.
NV_CIO == [
  HDT |-> \h00, HDE |-> \h01, HBS |-> \h02, HBE |-> \h03, HRS |-> \h04, HRE |-> \h05,
  VDT |-> \h06, OVL |-> \h07, RSAL |-> \h08, CELL_HT |-> \h09, CURS_ST |-> \h0a,
  CURS_END |-> \h0b, SA_HI |-> \h0c, SA_LO |-> \h0d, TCOFF_HI |-> \h0e, TCOFF_LO |-> \h0f,
  VRS |-> \h10, VRE |-> \h11, VDE |-> \h12, OFFSET |-> \h13, ULINE |-> \h14, VBS |-> \h15,
  VBE |-> \h16, MODE |-> \h17, LCOMP |-> \h18, RPC0 |-> \h19, RPC1 |-> \h1a, FF |-> \h1b,
  ENH |-> \h1c, LOCK |-> \h1f, FFLWM |-> \h20, CRE_21 |-> \h21, LSR |-> \h25, ARX |-> \h26,
  CHIP_ID |-> \h27, PIXEL |-> \h28]

-----------------------------------------------------------------------------
(* PFIFO.                                                                  *)

GetCurrentChannelId == LowBits(pfifo[NV_PFIFO_CACHE1_PUSH1], 5)

GetChannelMode(channel) == Bit(pfifo[NV_PFIFO_MODE], channel) = 1

PfifoRead(reg) ==
  IF reg = NV_PFIFO_RUNOUT_STATUS THEN NV_PFIFO_RUNOUT_STATUS_LOW_MARK
  ELSE pfifo[reg]

\* The pending interrupts are cleared by the ones written; UpdateIrq is empty.
PfifoWritten(regs, reg, value) ==
  [regs EXCEPT ![reg] = IF reg = NV_PFIFO_INTR_0 THEN @ - And(@, value) ELSE value]

-----------------------------------------------------------------------------
(* USER: one area of 64 KiB for every channel.                             *)

Channel(addr) == (addr \div \h10000) % \h100

\* Mistake: the mode of the channel is not looked at.
Active_AnyMode(addr) == Channel(addr) = GetCurrentChannelId

\* An area other than the current channel's, or that of a channel in PIO mode,
\* is dead.
Active(addr) ==
  /\ Channel(addr) = GetCurrentChannelId
  /\ GetChannelMode(Channel(addr))

UserRead(addr) ==
  LET reg == addr % \h10000
  IN  CASE ~ Active(addr)         -> 0
        [] reg = NV_USER.DMA_PUT  -> PfifoRead(NV_PFIFO_CACHE1_DMA_PUT)
        [] reg = NV_USER.DMA_GET  -> PfifoRead(NV_PFIFO_CACHE1_DMA_GET)
        [] reg = NV_USER.REF      -> PfifoRead(NV_PFIFO_CACHE1_REF)
        [] OTHER                  -> user[addr]

\* Mistake: every case ends with a break, which is what the hardware does.
Forwarded_Break(reg) ==
  CASE reg = NV_USER.DMA_PUT -> {NV_PFIFO_CACHE1_DMA_PUT}
    [] reg = NV_USER.DMA_GET -> {NV_PFIFO_CACHE1_DMA_GET}
    [] reg = NV_USER.REF     -> {NV_PFIFO_CACHE1_REF}
    [] OTHER                 -> {}

\* The registers of PFIFO a write to the area writes: the cases fall through.
Forwarded(reg) ==
  CASE reg = NV_USER.DMA_PUT -> {NV_PFIFO_CACHE1_DMA_PUT, NV_PFIFO_CACHE1_DMA_GET,
                                 NV_PFIFO_CACHE1_REF}
    [] reg = NV_USER.DMA_GET -> {NV_PFIFO_CACHE1_DMA_GET, NV_PFIFO_CACHE1_REF}
    [] reg = NV_USER.REF     -> {NV_PFIFO_CACHE1_REF}
    [] OTHER                 -> {}

UserWrite(addr, value) ==
  /\ IF Active(addr)
     THEN /\ pfifo' = [r \in PfifoRegisters |->
                         IF r \in Forwarded(addr % \h10000) THEN value ELSE pfifo[r]]
          /\ user' = [user EXCEPT ![addr] = value]
     ELSE UNCHANGED <<pfifo, user>>
  /\ UNCHANGED <<crtc, cio, index, pramin, ram>>

-----------------------------------------------------------------------------
(* PRMCIO: an index and a data port.                                       *)

\* Mistake: the index cannot be read back.
PrmcioRead_NoIndex(addr) ==
  IF addr = NV_PRMCIO.CR__COLOR THEN cio[index] ELSE 0

PrmcioRead(addr) ==
  CASE addr = NV_PRMCIO.CRX__COLOR -> index
    [] addr = NV_PRMCIO.CR__COLOR  -> cio[index]
    [] OTHER                       -> 0

PrmcioWrite(addr, value) ==
  /\ index' = IF addr = NV_PRMCIO.CRX__COLOR THEN value % (2 ^ 16) ELSE index
  /\ cio' = IF addr = NV_PRMCIO.CR__COLOR THEN [cio EXCEPT ![index] = value] ELSE cio
  /\ UNCHANGED <<pfifo, user, crtc, pramin, ram>>

GetDisplayBpp(regs) == <<4, 1, 2, 4>>[(regs[NV_CIO.PIXEL] % 4) + 1]

\* The length of a line in units of 8 bytes.
Line(regs) ==
  Or(Or(regs[NV_CIO.OFFSET], And(\h700, regs[NV_CIO.RPC0] * 2 ^ 3)),
     And(\h800, regs[NV_CIO.LSR] * 2 ^ 6))

GetDisplayWidth(regs) == ((Line(regs) * 8) \div GetDisplayBpp(regs)) % (2 ^ 16)

LastLine(regs) ==
  Or(regs[NV_CIO.VDE], Bit(regs[NV_CIO.OVL], 1) * 2 ^ 8
                       + Bit(regs[NV_CIO.OVL], 6) * 2 ^ 9
                       + Bit(regs[NV_CIO.LSR], 1) * 2 ^ 10)

\* Mistake: the register holds the last line, not the number of lines.
GetDisplayHeight_LastLine(regs) == LastLine(regs) % (2 ^ 16)

GetDisplayHeight(regs) == (LastLine(regs) % (2 ^ 16)) + 1

-----------------------------------------------------------------------------
(* The units, by the file that implements them.                            *)

Unimplemented(name) == [name |-> name, registers |-> FALSE]
Implemented(name)   == [name |-> name, registers |-> TRUE]

Pmc      == Unimplemented("PMC")
Pbus     == Unimplemented("PBUS")
Pfifo    == Implemented("PFIFO")
Prma     == Unimplemented("PRMA")
Pvideo   == Unimplemented("PVIDEO")
Ptimer   == Unimplemented("PTIMER")
Pcounter == Unimplemented("PCOUNTER")
Pvpe     == Unimplemented("PVPE")
Ptv      == Unimplemented("PTV")
Prmfb    == Unimplemented("PRMFB")
Prmvio   == Unimplemented("PRMVIO")
Pfb      == Unimplemented("PFB")
Pstraps  == Unimplemented("PSTRAPS")
Pcrtc    == Implemented("PCRTC")
Prmcio   == Implemented("PRMCIO")
Pramdac  == Unimplemented("PRAMDAC")
Prmdio   == Unimplemented("PRMDIO")
Pramin   == Implemented("PRAMIN")
User     == Implemented("USER")

\* Where the regions are, and how long.
NV_REGION ==
  [ PMC     |-> <<\h000000, \h1000>>,  PBUS     |-> <<\h001000, \h1000>>,
    PRMA    |-> <<\h007000, \h1000>>,  PVIDEO   |-> <<\h008000, \h1000>>,
    PTIMER  |-> <<\h009000, \h1000>>,  PCOUNTER |-> <<\h00A000, \h1000>>,
    PVPE    |-> <<\h00B000, \h1000>>,  PTV      |-> <<\h00D000, \h1000>>,
    PRMFB   |-> <<\h0A0000, \h20000>>, PRMVIO   |-> <<\h0C0000, \h1000>>,
    PFB     |-> <<\h100000, \h1000>>,  PSTRAPS  |-> <<\h101000, \h1000>>,
    PGRAPH  |-> <<\h400000, \h2000>>,  PRAMDAC  |-> <<\h680000, \h1000>>,
    PRMDIO  |-> <<\h681000, \h1000>>,  PRAMIN   |-> <<\h700000, \h100000>> ]

PfifoRegion  == <<\h002000, \h2000>>
PcrtcRegion  == <<\h600000, \h1000>>
PrmcioRegion == <<\h601000, \h1000>>
UserRegion   == <<\h800000, \h800000>>

\* In the order they are searched.  PGRAPH's region leads to PSTRAPS.
m_MemoryRegions ==
  << <<NV_REGION.PMC, Pmc>>, <<NV_REGION.PBUS, Pbus>>, <<PfifoRegion, Pfifo>>,
     <<NV_REGION.PRMA, Prma>>, <<NV_REGION.PVIDEO, Pvideo>>,
     <<NV_REGION.PTIMER, Ptimer>>, <<NV_REGION.PCOUNTER, Pcounter>>,
     <<NV_REGION.PVPE, Pvpe>>, <<NV_REGION.PTV, Ptv>>, <<NV_REGION.PRMFB, Prmfb>>,
     <<NV_REGION.PRMVIO, Prmvio>>, <<NV_REGION.PFB, Pfb>>,
     <<NV_REGION.PSTRAPS, Pstraps>>, <<NV_REGION.PGRAPH, Pstraps>>,
     <<PcrtcRegion, Pcrtc>>, <<PrmcioRegion, Prmcio>>,
     <<NV_REGION.PRAMDAC, Pramdac>>, <<NV_REGION.PRMDIO, Prmdio>>,
     <<NV_REGION.PRAMIN, Pramin>>, <<UserRegion, User>> >>

Nowhere == [name |-> "none", registers |-> FALSE]

\* GetMemoryRegion: the unit and the address within it.
GetMemoryRegion(addr) ==
  LET inside(i) == LET region == m_MemoryRegions[i][1]
                   IN  addr >= region[1] /\ addr < region[1] + region[2]
      found     == {i \in DOMAIN m_MemoryRegions : inside(i)}
  IN  IF found = {} THEN [unit |-> Nowhere, addr |-> addr]
      ELSE [unit |-> m_MemoryRegions[Min(found)][2],
            addr |-> addr - m_MemoryRegions[Min(found)][1][1]]

-----------------------------------------------------------------------------
(* The accesses.                                                           *)

MMIORead(bar, addr) ==
  LET at == GetMemoryRegion(addr)
  IN  CASE bar = 1                                -> ram[addr]
        [] bar = 0 /\ at.unit = Pfifo             -> PfifoRead(at.addr)
        [] bar = 0 /\ at.unit = User              -> UserRead(at.addr)
        [] bar = 0 /\ at.unit = Pcrtc             -> crtc[at.addr]
        [] bar = 0 /\ at.unit = Prmcio            -> PrmcioRead(at.addr)
        [] bar = 0 /\ at.unit = Pramin            -> pramin[at.addr]
        [] bar = 2 \/ (bar = 0 /\ ~ at.unit.registers) -> 0

MMIOWrite(bar, addr, value) ==
  \E at \in {GetMemoryRegion(addr)} :
    \/ /\ bar = 1
       /\ ram' = [ram EXCEPT ![addr] = value]
       /\ UNCHANGED <<pfifo, user, crtc, cio, index, pramin>>
    \/ /\ bar = 0 /\ at.unit = Pfifo
       /\ pfifo' = PfifoWritten(pfifo, at.addr, value)
       /\ UNCHANGED <<user, crtc, cio, index, pramin, ram>>
    \/ /\ bar = 0 /\ at.unit = User
       /\ UserWrite(at.addr, value)
    \/ /\ bar = 0 /\ at.unit = Pcrtc
       /\ crtc' = [crtc EXCEPT ![at.addr] = value]
       /\ UNCHANGED <<pfifo, user, cio, index, pramin, ram>>
    \/ /\ bar = 0 /\ at.unit = Prmcio
       /\ PrmcioWrite(at.addr, value)
    \/ /\ bar = 0 /\ at.unit = Pramin
       /\ pramin' = [pramin EXCEPT ![at.addr] = value]
       /\ UNCHANGED <<pfifo, user, crtc, cio, index, ram>>
    \/ /\ bar = 2 \/ (bar = 0 /\ ~ at.unit.registers)
       /\ UNCHANGED gpuVars

\* Memory that nothing initialises, filled with one pattern.
Filled(addresses, pattern) == [a \in addresses |-> pattern]

\* One pattern in the memory of the display, one in that of the channels.
GpuInit ==
  /\ \E g \in Garbage : /\ crtc = Filled(CrtcAddresses, g)
                         /\ cio = Filled(CioIndexes, g)
                         /\ ram = Filled(RamAddresses, g)
  /\ \E g \in Garbage : /\ pfifo = Filled(PfifoRegisters, g)
                         /\ user = Filled(UserAddresses, g)
                         /\ pramin = Filled(PraminAddresses, g)
  /\ index = 0

GpuTypeOK ==
  /\ pfifo \in [PfifoRegisters -> Words]
  /\ user \in [UserAddresses -> Words]
  /\ crtc \in [CrtcAddresses -> Words]
  /\ cio \in [CioIndexes -> Words]
  /\ index \in CioIndexes \cup {0}
  /\ pramin \in [PraminAddresses -> Words]
  /\ ram \in [RamAddresses -> Words]

=============================================================================
