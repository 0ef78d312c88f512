----------------------------- MODULE Nv2aGuests -----------------------------
(***************************************************************************)
(* A guest that uses the graphics processor while the frontend presents    *)
(* frames.                                                                 *)
(*                                                                         *)
(* A driver waits for the audio FIFO and for PFIFO, sets a display mode    *)
(* register by register through the VGA ports or their alias in BAR 0,     *)
(* draws, makes its channel current, submits work through USER and waits   *)
(* for it.  A handler preempts it between any two accesses, uses the same  *)
(* index register and channel selection, and puts back what it read.       *)
(* Other code of the guest writes anywhere else.  retro_run ends a frame   *)
(* after 16 ms wherever the guest is, and presents it.                     *)
(***************************************************************************)
EXTENDS MachineIO

CONSTANTS
  Mode,            \* the settings of the driver's mode: pairs of index and value
  Start,           \* its frame buffer
  Pixel,           \* what the driver draws at the start of the frame buffer
  Put,             \* the put pointer it submits
  Own, Other,      \* the channels of driver and handler
  OtherIndex,      \* the register the handler looks at
  Elsewhere        \* the places and values other code writes

\* Neither the display nor the driver's and the handler's channels depend on such
\* a place.
Unrelated(place) ==
  LET at == GetMemoryRegion(place.addr)
  IN  \/ place.space \in {"bar2", "apu", "ac97", "ata", "host"}
      \/ place.space = "port" /\ PortOwner(place.addr) \in {"i8254", "pci"}
      \/ place.space = "ram" /\ place.addr \notin Garbage \cup {Start}
      \/ /\ place.space = "registers"
         /\ \/ ~ at.unit.registers
            \/ at.unit = Pramin
            \/ at.unit = Pfifo /\ at.addr = NV_PFIFO_INTR_0
            \/ at.unit = User /\ Channel(at.addr) \notin {Own, Other}

\* The mode word of the driver's channel is a word; the picture's registers are
\* among those modelled, and each has an index that fits the index register.
ASSUME GuestsAssumption ==
  /\ Garbage \subseteq Words
  /\ CioIndexes \subseteq 0 .. 2 ^ 16 - 1
  /\ {NV_CIO.OFFSET, NV_CIO.RPC0, NV_CIO.LSR, NV_CIO.VDE, NV_CIO.OVL, NV_CIO.PIXEL,
      OtherIndex} \subseteq CioIndexes
  /\ NV_PCRTC_START \in CrtcAddresses
  /\ Mode \in Seq(CioIndexes \X Words)
  /\ {Start, Pixel, Put} \subseteq Words
  /\ Own \in 0 .. 26 /\ Other \in 0 .. 26 /\ Own # Other
  /\ \A access \in Elsewhere : Unrelated(access.place) /\ access.value \in Words
                              /\ access.place.addr \in Nat

ASSUME DrawingAssumption == Start \in RamAddresses

VARIABLES
  pc,       \* the next access of the driver
  handler,  \* the next access of the handler; 0 when it is not running
  saved,    \* the registers it has to put back
  expected, \* the display after each number of the driver's accesses, were they
            \* the only ones
  frame     \* the last frame presented

vars == <<pfifo, user, crtc, cio, index, pramin, ram,
          pc, handler, saved, expected, frame>>

NoFrame == [width |-> 0]

-----------------------------------------------------------------------------
(* The driver.                                                             *)

Index == Place("port", NV_PRMCIO.CRX__COLOR)
Data  == Place("port", NV_PRMCIO.CR__COLOR)

\* A VGA port is also a register of PRMCIO.
Aliases(place) ==
  {place} \cup (IF place \in {Index, Data}
                THEN {Place("registers", PrmcioRegion[1] + place.addr)} ELSE {})

PfifoPlace(reg) == Place("registers", PfifoRegion[1] + reg)

UserPlace(channel, reg) ==
  Place("registers", UserRegion[1] + channel * \h10000 + reg)

Store(place, value)      == [poll |-> FALSE, place |-> place, value |-> value, mask |-> 0]
Await(place, mask, value) == [poll |-> TRUE, place |-> place, value |-> value, mask |-> mask]

Waits ==
  << Await(Place("apu", \h20010), \h80, \h80),
     Await(PfifoPlace(NV_PFIFO_RUNOUT_STATUS), 16, 16) >>

SetMode ==
  [i \in 1 .. 2 * Len(Mode) |->
     IF i % 2 = 1 THEN Store(Index, Mode[(i + 1) \div 2][1])
     ELSE Store(Data, Mode[i \div 2][2])]

Draw ==
  << Store(Place("registers", PcrtcRegion[1] + NV_PCRTC_START), Start),
     Store(Place("ram", Start), Pixel) >>

Submit ==
  << Store(PfifoPlace(NV_PFIFO_MODE), 2 ^ Own),
     Store(PfifoPlace(NV_PFIFO_CACHE1_PUSH1), Own),
     Store(UserPlace(Own, NV_USER.DMA_PUT), Put),
     Await(UserPlace(Own, NV_USER.DMA_GET), \hFFF, Put) >>

Program == Waits \o SetMode \o Draw \o Submit

ModeSet   == Len(Waits) + Len(SetMode) + Len(Draw)   \* accesses until then
Submitted == Len(Program) - 1

Driver ==
  /\ handler = 0
  /\ pc <= Len(Program)
  /\ LET access == Program[pc]
     IN  IF access.poll
         THEN /\ pc' = IF And(Read(access.place), access.mask) = access.value
                       THEN pc + 1 ELSE pc
              /\ UNCHANGED gpuVars
         ELSE /\ \E place \in Aliases(access.place) : Write(place, access.value)
              /\ pc' = pc + 1
  /\ UNCHANGED <<handler, saved, expected, frame>>

-----------------------------------------------------------------------------
(* The handler and the rest of the guest.                                  *)

Interrupt ==
  /\ handler = 0
  /\ saved' = [index |-> Read(Index), channel |-> Read(PfifoPlace(NV_PFIFO_CACHE1_PUSH1))]
  /\ handler' = 1
  /\ UNCHANGED <<gpuVars, pc, expected, frame>>

HandlerProgram ==
  << Store(Index, OtherIndex),
     Store(PfifoPlace(NV_PFIFO_CACHE1_PUSH1), Other),
     Store(UserPlace(Other, NV_USER.DMA_PUT), 0),
     Store(PfifoPlace(NV_PFIFO_CACHE1_PUSH1), saved.channel),
     Store(Index, saved.index) >>

Handler ==
  /\ handler # 0
  /\ Write(HandlerProgram[handler].place, HandlerProgram[handler].value)
  /\ handler' = IF handler = Len(HandlerProgram) THEN 0 ELSE handler + 1
  /\ UNCHANGED <<pc, saved, expected, frame>>

Bystander ==
  /\ handler = 0
  /\ \E access \in Elsewhere : Write(access.place, access.value)
  /\ UNCHANGED <<pc, handler, saved, expected, frame>>

-----------------------------------------------------------------------------
(* The frontend.                                                           *)

Picture(regs, start, memory) ==
  LET base == start % 2 ^ 27
  IN  [width  |-> GetDisplayWidth(regs),
       height |-> GetDisplayHeight(regs),
       pitch  |-> GetDisplayWidth(regs) * GetDisplayBpp(regs),
       base   |-> base,
       pixel  |-> memory[base]]

\* The display if the first `n` accesses of the driver had been the only ones:
\* a register holds the last setting made.
After(n) ==
  LET settings(r) == {i \in 1 .. Len(Mode) :
                        Mode[i][1] = r /\ Len(Waits) + 2 * i <= n}
      drawn       == Len(Waits) + Len(SetMode)
  IN  Picture([r \in CioIndexes |-> IF settings(r) = {} THEN cio[r]
                                    ELSE Mode[Max(settings(r))][2]],
              IF n > drawn THEN Start ELSE crtc[NV_PCRTC_START],
              IF n > drawn + 1 THEN [ram EXCEPT ![Start] = Pixel] ELSE ram)

\* The end of retro_run.
retro_run ==
  /\ frame' = Picture(cio, crtc[NV_PCRTC_START], ram)
  /\ UNCHANGED <<gpuVars, pc, handler, saved, expected>>

Init ==
  /\ GpuInit
  /\ pc = 1
  /\ handler = 0
  /\ saved = [index |-> 0, channel |-> 0]
  /\ expected = [n \in 0 .. Len(Program) |-> After(n)]
  /\ frame = NoFrame

Next == Driver \/ Interrupt \/ Handler \/ Bystander \/ retro_run

\* Handlers end, and the code they interrupt runs again and again.
Spec == Init /\ [][Next]_vars /\ WF_vars(Handler) /\ SF_vars(Driver)

-----------------------------------------------------------------------------
(* Properties.                                                             *)

\* Every register is a word; a frame has at least one line and no more pixels
\* in a line than retro_run can pass on.
TypeOK ==
  /\ GpuTypeOK
  /\ pc \in 1 .. Len(Program) + 1
  /\ frame # NoFrame => /\ frame.width \in 0 .. 2 ^ 16 - 1
                        /\ frame.height \in 1 .. 2 ^ 16

\* A frame shows the display as it was after some number of the driver's
\* accesses: neither a handler that puts back index and channel nor writes
\* elsewhere ever show, whichever of the two paths to the index is used.
FrameOfPrefix ==
  frame # NoFrame => \E n \in 0 .. pc - 1 : frame = expected[n]

Frame640by480 ==
  [width |-> 640, height |-> 480, pitch |-> 2560, base |-> Start, pixel |-> Pixel]

\* Once the mode is set and drawn, a frame is that of a 640 by 480 display with
\* 4 bytes a pixel.
ModeShown == [][retro_run /\ pc > ModeSet => frame' = Frame640by480]_vars

PictureRegisters ==
  {NV_CIO.OFFSET, NV_CIO.RPC0, NV_CIO.LSR, NV_CIO.VDE, NV_CIO.OVL, NV_CIO.PIXEL}

LastSetting(r) == Mode[Max({i \in 1 .. Len(Mode) : Mode[i][1] = r})][2]

\* A driver that sets all registers of the picture, to 640 by 480 pixels of 4 bytes.
Sets640by480 ==
  LET regs == [r \in PictureRegisters |-> LastSetting(r)]
  IN  /\ PictureRegisters \subseteq {Mode[i][1] : i \in 1 .. Len(Mode)}
      /\ GetDisplayWidth(regs) = 640
      /\ GetDisplayHeight(regs) = 480
      /\ GetDisplayBpp(regs) = 4

\* The pitch is the length of a line the guest has set, whatever pixel format
\* is set with it, so that a format set later than the line never skews rows.
PitchIsStride ==
  (\A r \in CioIndexes : cio[r] < 256) =>
    GetDisplayWidth(cio) * GetDisplayBpp(cio) = 8 * Line(cio)

\* A submission stays in the pointers of PFIFO while the driver waits for it,
\* though a handler makes another channel current and writes its area.
SubmissionKept ==
  pc > Submitted => {pfifo[NV_PFIFO_CACHE1_DMA_PUT], pfifo[NV_PFIFO_CACHE1_DMA_GET]} = {Put}

\* Every wait of the driver ends, for the audio FIFO, for PFIFO and for the work
\* it has submitted, although nothing executes that work.
WaitsEnd == <>(pc = Len(Program) + 1)

=============================================================================
