------------------------------- MODULE I8259 -------------------------------
(***************************************************************************)
(* The pair of cascaded 8259 interrupt controllers of the Xbox             *)
(* (src/src/devices/i8259.cpp).  A register is the set of the lines whose  *)
(* bit is set.                                                             *)
(*                                                                         *)
(* UpdateIRQ, GetCurrentIRQ, AcknowledgeIRQ and SetIRQ call each other:    *)
(* acknowledging a request updates the controller again before the vector  *)
(* of the request is handed to the virtual processor.  That recursion is   *)
(* kept: `pc` says which call runs, `calls` holds the GetCurrentIRQ calls  *)
(* that wait for a nested UpdateIRQ.  No other call can start before the   *)
(* outermost one returns (pc = "Rest"), so a handler is its action         *)
(* followed by the steps of UpdateIRQ it causes.                           *)
(***************************************************************************)
EXTENDS Integers, Sequences

CONSTANTS
  LineCount,    \* lines of one controller: 8
  DeviceIRQs,   \* the IRQ numbers that have a device
  ElcrMask,     \* m_ELCRMask: lines that may be made level triggered
  Bases,        \* vector bases the guest writes (ICW2)
  Modes,        \* ICW4 words the guest writes
  Masks,        \* interrupt masks the guest writes (OCW1)
  Commands,     \* OCW2 commands the guest writes
  OCW3Words     \* OCW3 words the guest writes

Master  == "master"
Slave   == "slave"
Pics    == {Master, Slave}
Lines   == 0 .. LineCount - 1
Cascade == 2                      \* the slave drives this line of the master
NoIRQ   == -1

OCW3Word == [poll : BOOLEAN, select : {"keep", "IRR", "ISR"},
             specialMask : {"keep", "set", "clear"}]

ASSUME LineCountAssumption == LineCount \in Nat /\ LineCount > Cascade
ASSUME InputAssumption ==
  /\ DeviceIRQs \subseteq 0 .. 2 * LineCount - 1
  /\ Cascade \notin DeviceIRQs
  /\ ElcrMask \in [Pics -> SUBSET Lines]
  /\ Bases \subseteq Nat
  /\ Modes \subseteq [SFNM : BOOLEAN, AutoEOI : BOOLEAN]
  /\ Masks \subseteq SUBSET Lines
  /\ Commands \subseteq 0 .. 7
  /\ OCW3Words \subseteq OCW3Word

VARIABLES
  pic,      \* the registers of both controllers
  pc,       \* the call being executed
  calls,    \* suspended GetCurrentIRQ calls, the innermost last
  raised    \* vectors the current, or last, handler passed to Xbox::Interrupt

vars == <<pic, pc, calls, raised>>

Registers ==
  [PreviousIRR : SUBSET Lines, IRR : SUBSET Lines, IMR : SUBSET Lines,
   ISR : SUBSET Lines, ELCR : SUBSET Lines, Base : Nat, PriorityAdd : Lines,
   ReadRegisterSelect : {"IRR", "ISR"}, SpecialMask : BOOLEAN,
   InitState : 0 .. 3, Is4ByteInit : BOOLEAN, Poll : BOOLEAN,
   RotateOnAutoEOI : BOOLEAN, AutoEOI : BOOLEAN, SFNM : BOOLEAN,
   InterruptOutput : BOOLEAN]

\* A suspended GetCurrentIRQ: the controller whose request it acknowledged
\* last and the line of that request.
Activation == [pic : Pics, irq : Lines]

-----------------------------------------------------------------------------
(* Priorities.                                                             *)

\* Mistake: the wrap-around (& 7) is forgotten.
Wrap_Unmasked(x) == x

\* x & 7, for the sums of two line numbers the code takes it of.
Wrap(x) == IF x < LineCount THEN x ELSE x - LineCount

\* The priority of the first line of `mask` in rotated order; LineCount if
\* the mask is empty.
GetPriority(c, mask) ==
  IF mask = {} THEN LineCount
  ELSE CHOOSE n \in Lines :
         /\ Wrap(n + c.PriorityAdd) \in mask
         /\ \A m \in Lines : Wrap(m + c.PriorityAdd) \in mask => n <= m

\* The lines in service that hold back requests of lower or equal priority.
Blocking(s, p) ==
  ((s[p].ISR \ (IF s[p].SpecialMask THEN s[p].IMR ELSE {}))
     \ (IF s[p].SFNM /\ p = Master THEN {Cascade} ELSE {}))

GetIRQ(s, p) ==
  LET priority == GetPriority(s[p], s[p].IRR \ s[p].IMR)
  IN  IF priority < GetPriority(s[p], Blocking(s, p))
      THEN Wrap(priority + s[p].PriorityAdd)
      ELSE NoIRQ

-----------------------------------------------------------------------------
(* Register changes.                                                       *)

\* Level-triggered lines follow the device; an edge-triggered line latches a
\* request only when the device raises it from low.
SetIRQ(c, i, asserted) ==
  LET level == i \in c.ELCR
      rises == level \/ i \notin c.PreviousIRR
  IN  IF asserted
      THEN [c EXCEPT !.IRR = IF rises THEN @ \cup {i} ELSE @,
                     !.PreviousIRR = @ \cup {i}]
      ELSE [c EXCEPT !.IRR = IF level THEN @ \ {i} ELSE @,
                     !.PreviousIRR = @ \ {i}]

\* Mistake: the acknowledged line is not put in service.
AcknowledgeIRQ_NoService(c, i) ==
  [c EXCEPT !.IRR = IF i \in c.ELCR THEN @ ELSE @ \ {i}]

\* Mistake: the acknowledged request is not cleared.
AcknowledgeIRQ_KeepRequest(c, i) ==
  [c EXCEPT !.ISR = IF c.AutoEOI THEN @ ELSE @ \cup {i}]

AcknowledgeIRQ(c, i) ==
  [c EXCEPT
     !.ISR = IF c.AutoEOI THEN @ ELSE @ \cup {i},
     !.PriorityAdd =
        IF c.AutoEOI /\ c.RotateOnAutoEOI THEN Wrap(i + 1) ELSE @,
     !.IRR = IF i \in c.ELCR THEN @ ELSE @ \ {i}]

\* Reset(pic): everything but the edge/level register.
ResetRegisters(c) ==
  [PreviousIRR |-> {}, IRR |-> {}, IMR |-> {}, ISR |-> {}, ELCR |-> c.ELCR,
   Base |-> 0, PriorityAdd |-> 0, ReadRegisterSelect |-> "IRR",
   SpecialMask |-> FALSE, InitState |-> 0, Is4ByteInit |-> FALSE,
   Poll |-> FALSE, RotateOnAutoEOI |-> FALSE, AutoEOI |-> FALSE,
   SFNM |-> FALSE, InterruptOutput |-> FALSE]

-----------------------------------------------------------------------------
(* UpdateIRQ and the calls it makes.                                       *)

Updating(p) == IF p = Master THEN "UpdateMaster" ELSE "UpdateSlave"

\* Mistake: the slave cascades its output only when it is high.
UpdateSlave_RaiseOnly ==
  LET output == GetIRQ(pic, Slave) # NoIRQ
  IN  /\ pc = "UpdateSlave"
      /\ pic' = [pic EXCEPT ![Slave].InterruptOutput = output,
                            ![Master] = IF output THEN SetIRQ(@, Cascade, TRUE)
                                        ELSE @]
      /\ pc' = "UpdateMaster"
      /\ UNCHANGED <<calls, raised>>

\* Mistake: the slave cascades to itself (PIC_SLAVE for PIC_MASTER).
UpdateSlave_ToItself ==
  LET output == GetIRQ(pic, Slave) # NoIRQ
  IN  /\ pc = "UpdateSlave"
      /\ pic' = [pic EXCEPT ![Slave] = SetIRQ([@ EXCEPT !.InterruptOutput = output],
                                              Cascade, output)]
      /\ UNCHANGED <<pc, calls, raised>>

\* UpdateIRQ(slave): the output of the slave drives a line of the master.
UpdateSlave ==
  LET output == GetIRQ(pic, Slave) # NoIRQ
  IN  /\ pc = "UpdateSlave"
      /\ pic' = [pic EXCEPT ![Slave].InterruptOutput = output,
                            ![Master] = SetIRQ(@, Cascade, output)]
      /\ pc' = "UpdateMaster"
      /\ UNCHANGED <<calls, raised>>

\* UpdateIRQ(master) with nothing to deliver returns to its caller.
UpdateMasterIdle ==
  /\ pc = "UpdateMaster"
  /\ GetIRQ(pic, Master) = NoIRQ
  /\ pic' = [pic EXCEPT ![Master].InterruptOutput = FALSE]
  /\ pc' = IF calls = <<>> THEN "Rest" ELSE "GetCurrentIRQ"
  /\ UNCHANGED <<calls, raised>>

\* UpdateIRQ(master) with a request enters GetCurrentIRQ, whose
\* AcknowledgeIRQ calls UpdateIRQ(master) again.
UpdateMasterPending ==
  LET irq == GetIRQ(pic, Master)
  IN  /\ pc = "UpdateMaster"
      /\ irq # NoIRQ
      /\ pic' = [pic EXCEPT ![Master] =
                    AcknowledgeIRQ([@ EXCEPT !.InterruptOutput = TRUE], irq)]
      /\ calls' = Append(calls, [pic |-> Master, irq |-> irq])
      /\ UNCHANGED <<pc, raised>>

Top     == calls[Len(calls)]
Callers == SubSeq(calls, 1, Len(calls) - 1)

\* GetCurrentIRQ resumes for a request of the slave: it acknowledges the
\* slave's request, which updates the slave.
AcknowledgeSlave ==
  LET irq == GetIRQ(pic, Slave)
  IN  /\ pc = "GetCurrentIRQ"
      /\ Top = [pic |-> Master, irq |-> Cascade]
      /\ irq # NoIRQ
      /\ pic' = [pic EXCEPT ![Slave] = AcknowledgeIRQ(@, irq)]
      /\ calls' = Append(Callers, [pic |-> Slave, irq |-> irq])
      /\ pc' = "UpdateSlave"
      /\ UNCHANGED raised

\* The vector GetCurrentIRQ returns; a slave without a request is spurious.
Vector ==
  IF Top = [pic |-> Master, irq |-> Cascade]
  THEN pic[Slave].Base + LineCount - 1
  ELSE pic[Top.pic].Base + Top.irq

\* GetCurrentIRQ returns and UpdateIRQ passes the vector to the Xbox.
Interrupt ==
  /\ pc = "GetCurrentIRQ"
  /\ Top = [pic |-> Master, irq |-> Cascade] => GetIRQ(pic, Slave) = NoIRQ
  /\ raised' = Append(raised, Vector)
  /\ calls' = Callers
  /\ pc' = IF Len(calls) = 1 THEN "Rest" ELSE "GetCurrentIRQ"
  /\ UNCHANGED pic

Step == \/ UpdateSlave
        \/ UpdateMasterIdle
        \/ UpdateMasterPending
        \/ AcknowledgeSlave
        \/ Interrupt

-----------------------------------------------------------------------------
(* The handlers: device lines and the guest's port accesses.               *)

\* A handler that changes the registers of p to c and then calls UpdateIRQ(p).
ThenUpdate(p, c) ==
  /\ pc = "Rest"
  /\ pic' = [pic EXCEPT ![p] = c]
  /\ pc' = Updating(p)
  /\ raised' = <<>>
  /\ UNCHANGED calls

\* A handler that changes the registers of p to c and returns.
ThenReturn(p, c) ==
  /\ pc = "Rest"
  /\ pic' = [pic EXCEPT ![p] = c]
  /\ raised' = <<>>
  /\ UNCHANGED <<pc, calls>>

PicOf(n)  == IF n < LineCount THEN Master ELSE Slave
LineOf(n) == IF n < LineCount THEN n ELSE n - LineCount

RaiseIRQ(n) == ThenUpdate(PicOf(n), SetIRQ(pic[PicOf(n)], LineOf(n), TRUE))
LowerIRQ(n) == ThenUpdate(PicOf(n), SetIRQ(pic[PicOf(n)], LineOf(n), FALSE))

\* CommandWrite with bit 4: Reset(pic), which updates, and the start of the
\* initialisation sequence (whose registers UpdateIRQ does not read).
ICW1(p, fourBytes) ==
  ThenUpdate(p, [ResetRegisters(pic[p]) EXCEPT !.InitState = 1,
                                               !.Is4ByteInit = fourBytes])

\* DataWrite in the steps of the initialisation sequence.
ICW2(p, base) ==
  /\ pic[p].InitState = 1
  /\ ThenReturn(p, [pic[p] EXCEPT !.Base = base, !.InitState = 2])

ICW3(p) ==
  /\ pic[p].InitState = 2
  /\ ThenReturn(p, [pic[p] EXCEPT !.InitState = IF pic[p].Is4ByteInit THEN 3
                                                ELSE 0])

ICW4(p, mode) ==
  /\ pic[p].InitState = 3
  /\ ThenReturn(p, [pic[p] EXCEPT !.SFNM = mode.SFNM, !.AutoEOI = mode.AutoEOI,
                                  !.InitState = 0])

\* Mistake: writing the mask does not update.
OCW1_NoUpdate(p, mask) ==
  /\ pic[p].InitState = 0
  /\ ThenReturn(p, [pic[p] EXCEPT !.IMR = mask])

\* DataWrite outside the initialisation sequence: the interrupt mask.
OCW1(p, mask) ==
  /\ pic[p].InitState = 0
  /\ ThenUpdate(p, [pic[p] EXCEPT !.IMR = mask])

\* CommandWrite, commands 0 and 4.
RotateOnAutoEOI(p, command) ==
  /\ command \in {0, 4}
  /\ ThenReturn(p, [pic[p] EXCEPT !.RotateOnAutoEOI = (command = 4)])

\* Ends the service of a line, which the rotating commands make the lowest
\* priority.
EndOfInterrupt(c, irq, rotate) ==
  [c EXCEPT !.ISR = @ \ {irq},
            !.PriorityAdd = IF rotate THEN Wrap(irq + 1) ELSE @]

\* CommandWrite, commands 1 and 5: ends the service of highest priority, if
\* any.
NonspecificEOI(p, command) ==
  LET priority == GetPriority(pic[p], pic[p].ISR)
      irq      == Wrap(priority + pic[p].PriorityAdd)
  IN  /\ command \in {1, 5}
      /\ IF priority = LineCount THEN ThenReturn(p, pic[p])
         ELSE ThenUpdate(p, EndOfInterrupt(pic[p], irq, command = 5))

\* Mistake: a specific end of interrupt does not update.
SpecificEOI_NoUpdate(p, command, irq) ==
  /\ command \in {3, 7}
  /\ ThenReturn(p, EndOfInterrupt(pic[p], irq, command = 7))

\* CommandWrite, commands 3 and 7: ends the service of a given line.
SpecificEOI(p, command, irq) ==
  /\ command \in {3, 7}
  /\ ThenUpdate(p, EndOfInterrupt(pic[p], irq, command = 7))

\* CommandWrite, command 6: makes a line the lowest priority.
SetPriority(p, command, irq) ==
  /\ command = 6
  /\ ThenUpdate(p, [pic[p] EXCEPT !.PriorityAdd = Wrap(irq + 1)])

\* CommandWrite with bit 3: no update follows, whatever the word changes.
OCW3(p, word) ==
  ThenReturn(p, [pic[p] EXCEPT
    !.Poll = @ \/ word.poll,
    !.ReadRegisterSelect = IF word.select = "keep" THEN @ ELSE word.select,
    !.SpecialMask = IF word.specialMask = "keep" THEN @
                    ELSE word.specialMask = "set"])

\* IOWrite to an ELCR port.
ElcrWrite(p, lines) ==
  ThenReturn(p, [pic[p] EXCEPT !.ELCR = lines \cap ElcrMask[p]])

\* CommandRead or DataRead after a poll command: Poll acknowledges the
\* request of highest priority and returns it to the guest.
PollRead(p) ==
  LET irq    == GetIRQ(pic, p)
      polled == [pic[p] EXCEPT !.Poll = FALSE]
  IN  /\ pic[p].Poll
      /\ IF irq = NoIRQ THEN ThenReturn(p, polled)
         ELSE ThenUpdate(p, AcknowledgeIRQ(polled, irq))

-----------------------------------------------------------------------------
\* The registers are not initialised by the constructor; the Xbox object is
\* large enough to be allocated from fresh, zeroed pages.
Init ==
  /\ pic = [p \in Pics |-> ResetRegisters([ELCR |-> {}])]
  /\ pc = "Rest"
  /\ calls = <<>>
  /\ raised = <<>>

Device == \E n \in DeviceIRQs : RaiseIRQ(n) \/ LowerIRQ(n)

Guest == \E p \in Pics :
  \/ \E fourBytes \in BOOLEAN : Bases # {} /\ ICW1(p, fourBytes)
  \/ \E base \in Bases : ICW2(p, base)
  \/ ICW3(p)
  \/ \E mode \in Modes : ICW4(p, mode)
  \/ \E mask \in Masks : OCW1(p, mask)
  \/ \E command \in Commands : RotateOnAutoEOI(p, command)
  \/ \E command \in Commands : NonspecificEOI(p, command)
  \/ \E command \in Commands, irq \in Lines : SpecificEOI(p, command, irq)
  \/ \E command \in Commands, irq \in Lines : SetPriority(p, command, irq)
  \/ \E word \in OCW3Words : OCW3(p, word)
  \/ \E lines \in SUBSET Lines : ElcrWrite(p, lines)
  \/ PollRead(p)

Next == Device \/ Guest \/ Step

\* The handlers run to completion on the thread that called them.
Spec == Init /\ [][Next]_vars /\ WF_vars(Step)

-----------------------------------------------------------------------------
(* Properties.                                                             *)

\* The registers, the call in progress and the suspended calls are well formed.
TypeOK ==
  /\ pic \in [Pics -> Registers]
  /\ pc \in {"Rest", "UpdateMaster", "UpdateSlave", "GetCurrentIRQ"}
  /\ calls \in Seq(Activation)
  /\ raised \in Seq(Nat)

\* A request is waiting, unmasked and of higher priority than every line in
\* service, whatever the mode of the controller.
Deliverable(c) == GetPriority(c, c.IRR \ c.IMR) < GetPriority(c, c.ISR)

\* When every handler has returned, no deliverable request of the master is left
\* behind and its output is low: every change of the requests, the mask, the
\* lines in service or the priorities ended in an update, or the guest would
\* get the vector only at some later, unrelated access.
MasterDrained ==
  pc = "Rest" => /\ ~ Deliverable(pic[Master])
                 /\ ~ pic[Master].InterruptOutput

\* UpdateIRQ cascades the slave to the master: when every handler has returned,
\* a slave that asserts its output, on a line the master has seen rise, is
\* still requested at the master, which has not used up the edge for an earlier
\* request of the slave.
SlaveCascaded ==
  pc = "Rest" /\ pic[Slave].InterruptOutput /\ Cascade \in pic[Master].PreviousIRR
    => Cascade \in pic[Master].IRR

\* So it is, while the slave does not end its services by itself and the guest
\* neither polls the master, which takes the request from its line, nor changes
\* the special mask, which may leave the slave without a deliverable request when
\* the master asks for it.
CascadeNotLost == ~pic[Slave].AutoEOI => SlaveCascaded

\* Unless a controller ends services by itself, one handler hands over at most
\* one vector, however many requests wait on the two controllers: the first one
\* blocks the others until the guest ends it.
OneVectorPerHandler ==
  (\A p \in Pics : ~pic[p].AutoEOI /\ ~pic[p].SFNM) => Len(raised) <= 1

\* The recursion of UpdateIRQ through AcknowledgeIRQ is as deep as the master has
\* lines: each call in progress has used up a request of another line of the
\* master, and the acknowledgements made on the way raise none of them again
\* (one of them, once, after the guest has changed the special mask).
RecursionBounded == Len(calls) <= LineCount

\* The recursion of UpdateIRQ through AcknowledgeIRQ ends: every handler
\* returns to the device or to the guest.
HandlerReturns == pc # "Rest" ~> pc = "Rest"

=============================================================================
