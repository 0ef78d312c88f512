---------------------------- MODULE I8259Proofs ----------------------------
(* Theorems about the interrupt controllers, for every number of lines,     *)
(* every set of devices, every edge/level mask and every guest.             *)
EXTENDS I8259, FiniteSets, FiniteSetTheorems, SequenceTheorems,
        WellFoundedInduction, TLAPS

-----------------------------------------------------------------------------
(* The operators the handlers are built from.                              *)

\* Wrapping the sum of two lines, or the successor of one, gives a line.
LEMMA WrapType ==
  ASSUME NEW x \in Nat, x < 2 * LineCount
  PROVE  Wrap(x) \in Lines
BY LineCountAssumption DEF Wrap, Lines

\* Rotation reaches every line.
LEMMA WrapOnto ==
  ASSUME NEW i \in Lines, NEW add \in Lines
  PROVE  \E n \in Lines : Wrap(n + add) = i
<1>1. CASE i >= add
  <2>1. i - add \in Lines /\ Wrap((i - add) + add) = i
    BY <1>1, LineCountAssumption DEF Wrap, Lines
  <2> QED BY <2>1
<1>2. CASE i < add
  <2>1. i - add + LineCount \in Lines /\ Wrap((i - add + LineCount) + add) = i
    BY <1>2, LineCountAssumption DEF Wrap, Lines
  <2> QED BY <2>1
<1> QED BY <1>1, <1>2, LineCountAssumption DEF Lines

\* A nonempty set of naturals has a smallest element.
LEMMA SmallestOf ==
  ASSUME NEW S, S \subseteq Nat, S # {}
  PROVE  \E n \in S : \A m \in S : n <= m
<1> DEFINE R == OpToRel(<, Nat)
<1>0. \A x, y \in Nat : x < y => <<x, y>> \in R
  BY DEF OpToRel
<1>1. IsWellFoundedOn(R, Nat)
  BY NatLessThanWellFounded
<1> HIDE DEF R
<1>2. PICK n \in S : \A m \in S : <<m, n>> \notin R
  BY <1>1, WFMin
<1>3. \A m \in S : ~ (m < n)
  BY <1>0, <1>2, Zenon
<1> QED BY <1>3

\* The priority of a nonempty mask is the place of one of its lines, and no line
\* of the mask comes before it.
LEMMA PriorityOfMask ==
  ASSUME NEW c \in Registers, NEW mask \in SUBSET Lines, mask # {}
  PROVE  LET n == GetPriority(c, mask)
         IN  /\ n \in Lines
             /\ Wrap(n + c.PriorityAdd) \in mask
             /\ \A m \in Lines : Wrap(m + c.PriorityAdd) \in mask => n <= m
<1> DEFINE P(n) == /\ Wrap(n + c.PriorityAdd) \in mask
                   /\ \A m \in Lines : Wrap(m + c.PriorityAdd) \in mask => n <= m
           S == {n \in Lines : Wrap(n + c.PriorityAdd) \in mask}
<1>1. c.PriorityAdd \in Lines
  BY DEF Registers
<1>2. S # {}
  <2>1. PICK i \in Lines : i \in mask
    OBVIOUS
  <2> QED BY <2>1, <1>1, WrapOnto
<1>3. S \subseteq Nat
  BY DEF Lines
<1>4. PICK n \in S : \A m \in S : n <= m
  BY <1>2, <1>3, SmallestOf
<1>5. n \in Lines /\ P(n)
  BY <1>4
<1>6. GetPriority(c, mask) = CHOOSE k \in Lines : P(k)
  BY DEF GetPriority
<1> QED BY <1>5, <1>6

LEMMA PriorityType ==
  ASSUME NEW c \in Registers, NEW mask \in SUBSET Lines
  PROVE  /\ GetPriority(c, mask) \in 0 .. LineCount
         /\ GetPriority(c, mask) # LineCount => mask # {}
<1>1. CASE mask = {}
  BY <1>1, LineCountAssumption DEF GetPriority
<1>2. CASE mask # {}
  BY <1>2, PriorityOfMask, LineCountAssumption DEF Lines
<1> QED BY <1>1, <1>2

\* GetIRQ returns a line that is requested and not masked, or none.
LEMMA GetIRQType ==
  ASSUME NEW s \in [Pics -> Registers], NEW p \in Pics
  PROVE  \/ GetIRQ(s, p) = NoIRQ
         \/ /\ GetIRQ(s, p) \in Lines
            /\ GetIRQ(s, p) \in s[p].IRR \ s[p].IMR
<1> DEFINE c == s[p]
           ready == c.IRR \ c.IMR
<1>1. c \in Registers /\ ready \in SUBSET Lines /\ Blocking(s, p) \in SUBSET Lines
  BY DEF Registers, Blocking
<1>2. CASE ready = {}
  <2>1. GetPriority(c, ready) = LineCount
    BY <1>2 DEF GetPriority
  <2>2. GetPriority(c, Blocking(s, p)) <= LineCount
    BY <1>1, PriorityType, LineCountAssumption
  <2>3. GetPriority(c, Blocking(s, p)) \in Nat
    BY <1>1, PriorityType, LineCountAssumption
  <2> QED BY <2>1, <2>2, <2>3, LineCountAssumption DEF GetIRQ
<1>3. CASE ready # {}
  BY <1>1, <1>3, PriorityOfMask DEF GetIRQ
<1> QED BY <1>2, <1>3

-----------------------------------------------------------------------------
(* Every register change yields registers.                                 *)

LEMMA SetIRQType ==
  ASSUME NEW c \in Registers, NEW i \in Lines, NEW asserted \in BOOLEAN
  PROVE  SetIRQ(c, i, asserted) \in Registers
BY DEF SetIRQ, Registers

LEMMA AcknowledgeType ==
  ASSUME NEW c \in Registers, NEW i \in Lines
  PROVE  AcknowledgeIRQ(c, i) \in Registers
<1>1. Wrap(i + 1) \in Lines
  BY WrapType, LineCountAssumption DEF Lines
<1> QED BY <1>1 DEF AcknowledgeIRQ, Registers

LEMMA ResetType ==
  ASSUME NEW c \in Registers
  PROVE  ResetRegisters(c) \in Registers
BY LineCountAssumption DEF ResetRegisters, Registers, Lines

LEMMA EndOfInterruptType ==
  ASSUME NEW c \in Registers, NEW i \in Lines, NEW rotate \in BOOLEAN
  PROVE  EndOfInterrupt(c, i, rotate) \in Registers
<1>1. Wrap(i + 1) \in Lines
  BY WrapType, LineCountAssumption DEF Lines
<1> QED BY <1>1 DEF EndOfInterrupt, Registers

-----------------------------------------------------------------------------
(* The inductive invariant.  It says when the registers are right while the *)
(* nested calls run, which the properties say of the state at rest only:    *)
(* after an update of the master until the next change of its registers.    *)

Settled ==
  pc \in {"Rest", "GetCurrentIRQ"} => /\ ~ Deliverable(pic[Master])
                                     /\ ~ pic[Master].InterruptOutput

\* GetCurrentIRQ is resumed only when it was suspended, and a handler has
\* returned only when every call it made has.
CallsMatch == /\ pc = "GetCurrentIRQ" => calls # <<>>
              /\ pc = "Rest" => calls = <<>>

IInv == TypeOK /\ CallsMatch /\ Settled

\* The registers a handler changes without an update are not those that make a
\* request deliverable.
SameRequests(c, d) ==
  /\ d.IRR = c.IRR /\ d.IMR = c.IMR /\ d.ISR = c.ISR
  /\ d.PriorityAdd = c.PriorityAdd
  /\ d.InterruptOutput = c.InterruptOutput

\* GetPriority reads only the rotation of the controller.
LEMMA SamePriority ==
  ASSUME NEW c, NEW d, d.PriorityAdd = c.PriorityAdd, NEW mask
  PROVE  GetPriority(d, mask) = GetPriority(c, mask)
BY DEF GetPriority

LEMMA SameDeliverable ==
  ASSUME NEW c, NEW d,
         d.IRR = c.IRR, d.IMR = c.IMR, d.ISR = c.ISR, d.PriorityAdd = c.PriorityAdd
  PROVE  Deliverable(d) <=> Deliverable(c)
BY SamePriority DEF Deliverable

\* A larger mask has a first line of the same or of a higher priority.
LEMMA PriorityMonotonic ==
  ASSUME NEW c \in Registers, NEW small \in SUBSET Lines, NEW large \in SUBSET Lines,
         small \subseteq large
  PROVE  GetPriority(c, large) <= GetPriority(c, small)
<1>1. CASE small = {}
  <2>1. GetPriority(c, small) = LineCount
    BY <1>1 DEF GetPriority
  <2> QED BY <2>1, PriorityType, LineCountAssumption
<1>2. CASE small # {}
  <2> DEFINE n == GetPriority(c, small)
  <2>1. n \in Lines /\ Wrap(n + c.PriorityAdd) \in large
    BY <1>2, PriorityOfMask
  <2>2. large # {}
    BY <1>2
  <2> QED BY <2>1, <2>2, PriorityOfMask
<1> QED BY <1>1, <1>2

\* If GetIRQ finds nothing, nothing is deliverable: the lines in service that
\* the modes ignore could only hold back more.
LEMMA NoIRQNotDeliverable ==
  ASSUME NEW s \in [Pics -> Registers], NEW p \in Pics, GetIRQ(s, p) = NoIRQ
  PROVE  ~ Deliverable(s[p])
<1> DEFINE c == s[p]
           ready == c.IRR \ c.IMR
           first == GetPriority(c, ready)
<1>1. /\ c \in Registers /\ ready \in SUBSET Lines /\ c.ISR \in SUBSET Lines
      /\ Blocking(s, p) \in SUBSET Lines /\ Blocking(s, p) \subseteq c.ISR
  BY DEF Registers, Blocking
<1>2. /\ first \in 0 .. LineCount
      /\ GetPriority(c, Blocking(s, p)) \in 0 .. LineCount
      /\ GetPriority(c, c.ISR) \in 0 .. LineCount
      /\ GetPriority(c, c.ISR) <= GetPriority(c, Blocking(s, p))
  BY <1>1, PriorityType, PriorityMonotonic
<1>3. ~ (first < GetPriority(c, Blocking(s, p)))
  <2> SUFFICES ASSUME first < GetPriority(c, Blocking(s, p)) PROVE FALSE
    OBVIOUS
  <2>1. first # LineCount
    BY <1>2, LineCountAssumption
  <2>2. ready # {}
    BY <1>1, <2>1, PriorityType
  <2>3. Wrap(first + c.PriorityAdd) \in Lines
    BY <1>1, <2>2, PriorityOfMask
  <2>4. GetIRQ(s, p) = Wrap(first + c.PriorityAdd)
    BY DEF GetIRQ
  <2> QED BY <2>3, <2>4 DEF NoIRQ, Lines
<1> QED BY <1>2, <1>3, LineCountAssumption DEF Deliverable

-----------------------------------------------------------------------------
(* A handler: a change of one controller's registers, with or without an    *)
(* update.                                                                  *)

LEMMA UpdateHandler ==
  ASSUME IInv, NEW p \in Pics, NEW c \in Registers, ThenUpdate(p, c)
  PROVE  IInv'
<1>1. pic' \in [Pics -> Registers]
  BY DEF IInv, TypeOK, ThenUpdate
<1>2. pc' \in {"UpdateMaster", "UpdateSlave"}
  BY DEF ThenUpdate, Updating
<1>3. raised' \in Seq(Nat) /\ calls' \in Seq(Activation)
  BY DEF IInv, TypeOK, ThenUpdate
<1> QED BY <1>1, <1>2, <1>3 DEF IInv, TypeOK, CallsMatch, Settled

LEMMA ReturnHandler ==
  ASSUME IInv, NEW p \in Pics, NEW c \in Registers, SameRequests(pic[p], c),
         ThenReturn(p, c)
  PROVE  IInv'
<1>1. pic' \in [Pics -> Registers]
  BY DEF IInv, TypeOK, ThenReturn
<1>2. pc = "Rest" /\ pc' = pc /\ calls' = calls /\ raised' \in Seq(Nat)
  BY DEF ThenReturn
<1>3. SameRequests(pic[Master], pic'[Master])
  BY DEF IInv, TypeOK, ThenReturn, SameRequests, Pics
<1>4. /\ Deliverable(pic'[Master]) <=> Deliverable(pic[Master])
      /\ pic'[Master].InterruptOutput = pic[Master].InterruptOutput
  BY <1>3, SameDeliverable DEF SameRequests
<1>5. Deliverable(pic[Master])' <=> Deliverable(pic'[Master])
  BY DEF Deliverable, GetPriority
<1>6. Settled'
  BY <1>2, <1>4, <1>5 DEF IInv, Settled
<1> QED BY <1>1, <1>2, <1>6 DEF IInv, TypeOK, CallsMatch

-----------------------------------------------------------------------------
(* What the handlers have in common, for the invariants below.             *)

\* The guest's OCW3 words leave the special mask alone; they do not poll.
Steady  == \A word \in OCW3Words : word.specialMask = "keep"
NoPolls == \A word \in OCW3Words : ~ word.poll

Cleared(d) ==
  /\ d.IRR = {} /\ d.PreviousIRR = {}
  /\ ~ d.AutoEOI /\ ~ d.InterruptOutput

\* Only UpdateIRQ(slave) raises the cascade line, only a poll takes its request.
Continued(p, c, d) ==
  /\ p = Master =>
       /\ Cascade \in d.PreviousIRR <=> Cascade \in c.PreviousIRR
       /\ Cascade \in d.IRR => Cascade \in c.IRR
       /\ ~ c.Poll /\ Cascade \in c.IRR => Cascade \in d.IRR
  /\ d.InterruptOutput = c.InterruptOutput
  /\ d.AutoEOI = c.AutoEOI \/ (c.InitState # 0 /\ d.InitState = 0)
  /\ d.InitState # 0 => c.InitState # 0

Change(p, c, d) ==
  /\ d.ELCR = c.ELCR \/ d.ELCR \subseteq ElcrMask[p]
  /\ Steady => (d.SpecialMask => c.SpecialMask)
  /\ NoPolls => (d.Poll => c.Poll)
  /\ Cleared(d) \/ Continued(p, c, d)

\* A handler of p leaves its registers as d.
Handles(p, d) ==
  /\ Change(p, pic[p], d)
  /\ ThenUpdate(p, d) \/ (SameRequests(pic[p], d) /\ ThenReturn(p, d))

LEMMA HandlerStep ==
  ASSUME IInv, NEW p \in Pics, NEW d \in Registers, Handles(p, d)
  PROVE  IInv'
BY UpdateHandler, ReturnHandler DEF Handles

LEMMA DeviceHandles ==
  ASSUME IInv, Device
  PROVE  \E p \in Pics, d \in Registers : Handles(p, d)
<1> PICK n \in DeviceIRQs : RaiseIRQ(n) \/ LowerIRQ(n)
  BY DEF Device
<1> DEFINE p == PicOf(n)
           c == pic[p]
<1>1. p \in Pics /\ LineOf(n) \in Lines /\ (p = Master => LineOf(n) # Cascade)
  BY InputAssumption, LineCountAssumption DEF PicOf, LineOf, Pics, Lines, Master, Slave
<1>2. c \in Registers
  BY <1>1 DEF IInv, TypeOK
<1>3. ASSUME NEW asserted \in BOOLEAN
      PROVE  /\ SetIRQ(c, LineOf(n), asserted) \in Registers
             /\ Change(p, c, SetIRQ(c, LineOf(n), asserted))
  <2> DEFINE i == LineOf(n)
             d == SetIRQ(c, i, asserted)
  <2>1. d \in Registers
    BY <1>1, <1>2, SetIRQType
  <2>2. /\ d.ELCR = c.ELCR /\ d.SpecialMask = c.SpecialMask /\ d.Poll = c.Poll
        /\ d.InterruptOutput = c.InterruptOutput /\ d.AutoEOI = c.AutoEOI
        /\ d.InitState = c.InitState
    BY <1>2 DEF SetIRQ, Registers
  <2>3. /\ d.PreviousIRR \in {c.PreviousIRR \cup {i}, c.PreviousIRR \ {i}}
        /\ d.IRR \in {c.IRR, c.IRR \cup {i}, c.IRR \ {i}}
    BY <1>2 DEF SetIRQ, Registers
  <2> HIDE DEF d, i
  <2>4. Continued(p, c, d)
    BY <1>1, <2>2, <2>3 DEF Continued, i
  <2> QED BY <2>1, <2>2, <2>4 DEF Change, d, i
<1> QED BY <1>1, <1>3 DEF Handles, RaiseIRQ, LowerIRQ

\* Changing one register to a value of its type (the two-field changes of the
\* handlers are chains of these).
LEMMA FieldTypes ==
  ASSUME NEW c \in Registers
  PROVE  /\ \A n \in 0 .. 3 : [c EXCEPT !.InitState = n] \in Registers
         /\ \A b \in BOOLEAN :
              /\ [c EXCEPT !.Is4ByteInit = b] \in Registers
              /\ [c EXCEPT !.SFNM = b] \in Registers
              /\ [c EXCEPT !.AutoEOI = b] \in Registers
              /\ [c EXCEPT !.Poll = b] \in Registers
              /\ [c EXCEPT !.SpecialMask = b] \in Registers
         /\ \A base \in Nat : [c EXCEPT !.Base = base] \in Registers
         /\ \A r \in {"IRR", "ISR"} : [c EXCEPT !.ReadRegisterSelect = r] \in Registers
<1>1. \A n \in 0 .. 3 : [c EXCEPT !.InitState = n] \in Registers
  BY DEF Registers
<1>2. ASSUME NEW b \in BOOLEAN PROVE [c EXCEPT !.Is4ByteInit = b] \in Registers
  BY DEF Registers
<1>3. ASSUME NEW b \in BOOLEAN PROVE [c EXCEPT !.SFNM = b] \in Registers
  BY DEF Registers
<1>4. ASSUME NEW b \in BOOLEAN PROVE [c EXCEPT !.AutoEOI = b] \in Registers
  BY DEF Registers
<1>5. ASSUME NEW b \in BOOLEAN PROVE [c EXCEPT !.Poll = b] \in Registers
  BY DEF Registers
<1>6. ASSUME NEW b \in BOOLEAN PROVE [c EXCEPT !.SpecialMask = b] \in Registers
  BY DEF Registers
<1>7. ASSUME NEW r \in {"IRR", "ISR"}
      PROVE  [c EXCEPT !.ReadRegisterSelect = r] \in Registers
  BY DEF Registers
<1>8. ASSUME NEW base \in Nat PROVE [c EXCEPT !.Base = base] \in Registers
  BY DEF Registers
<1> QED BY <1>1, <1>2, <1>3, <1>4, <1>5, <1>6, <1>7, <1>8

\* A change that leaves the latches, or the latches and the modes, alone.
SameLatches(c, d) ==
  /\ d.PreviousIRR = c.PreviousIRR /\ d.IRR = c.IRR
  /\ d.InterruptOutput = c.InterruptOutput

SameControls(c, d) ==
  /\ d.ELCR = c.ELCR /\ d.SpecialMask = c.SpecialMask /\ d.Poll = c.Poll

Same(c, d) ==
  /\ SameLatches(c, d)
  /\ SameControls(c, d)
  /\ d.AutoEOI = c.AutoEOI /\ d.InitState = c.InitState

\* A change of the mask, the services or the priorities, with an update.
LEMMA Updated ==
  ASSUME NEW p \in Pics, NEW d \in Registers, Same(pic[p], d), ThenUpdate(p, d)
  PROVE  \E e \in Registers : Handles(p, e)
BY DEF Same, SameLatches, SameControls, Handles, Change, Continued

\* A step of the initialisation, or a change of a mode GetIRQ does not read.
LEMMA Quietly ==
  ASSUME NEW p \in Pics, NEW d \in Registers,
         SameRequests(pic[p], d), SameLatches(pic[p], d), SameControls(pic[p], d),
         d.AutoEOI = pic[p].AutoEOI \/ (pic[p].InitState # 0 /\ d.InitState = 0),
         d.InitState # 0 => pic[p].InitState # 0,
         ThenReturn(p, d)
  PROVE  \E e \in Registers : Handles(p, e)
BY DEF SameLatches, SameControls, Handles, Change, Continued

\* Every access of the guest is a handler.
LEMMA GuestHandles ==
  ASSUME IInv, Guest
  PROVE  \E p \in Pics, d \in Registers : Handles(p, d)
<1> PICK p \in Pics :
      \/ \E fourBytes \in BOOLEAN : ICW1(p, fourBytes)
      \/ \E base \in Bases : ICW2(p, base)
      \/ ICW3(p)
      \/ \E mode \in Modes : ICW4(p, mode)
      \/ \E mask \in Masks : OCW1(p, mask)
      \/ \E command \in Commands : RotateOnAutoEOI(p, command)
      \/ \E command \in Commands : NonspecificEOI(p, command)
      \/ \E command \in Commands, irq \in Lines : SpecificEOI(p, command, irq)
      \/ \E command \in Commands, irq \in Lines : SetPriority(p, command, irq)
      \/ \E word \in OCW3Words : OCW3(p, word)
      \/ \E lines \in SUBSET Lines : ElcrWrite(p, lines)
      \/ PollRead(p)
  BY Zenon DEF Guest
<1> DEFINE c == pic[p]
           Goal == \E d \in Registers : Handles(p, d)
<1>0. c \in Registers /\ pic \in [Pics -> Registers]
  BY DEF IInv, TypeOK
<1>1. ASSUME NEW fourBytes \in BOOLEAN, ICW1(p, fourBytes) PROVE Goal
  <2> DEFINE r == ResetRegisters(c)
             d == [r EXCEPT !.InitState = 1, !.Is4ByteInit = fourBytes]
  <2>1. /\ r \in Registers
        /\ r.IRR = {} /\ r.PreviousIRR = {} /\ ~ r.AutoEOI /\ ~ r.InterruptOutput
        /\ r.ELCR = c.ELCR /\ ~ r.SpecialMask /\ ~ r.Poll
    BY <1>0, ResetType DEF ResetRegisters
  <2> HIDE DEF r
  <2>2. /\ d.IRR = {} /\ d.PreviousIRR = {} /\ ~ d.AutoEOI /\ ~ d.InterruptOutput
        /\ d.ELCR = c.ELCR /\ ~ d.SpecialMask /\ ~ d.Poll
    BY <2>1 DEF Registers
  <2>3. [r EXCEPT !.InitState = 1] \in Registers
    BY <2>1 DEF Registers
  <2>4. d \in Registers
    BY <2>3, FieldTypes
  <2>5. ThenUpdate(p, d)
    BY <1>1 DEF ICW1, r
  <2> HIDE DEF d
  <2> QED BY <2>2, <2>4, <2>5 DEF Handles, Change, Cleared
<1>2. ASSUME NEW base \in Bases, ICW2(p, base) PROVE Goal
  <2> DEFINE d1 == [c EXCEPT !.Base = base]
             d == [d1 EXCEPT !.InitState = 2]
  <2>1. d1 \in Registers
    BY <1>0, InputAssumption, FieldTypes
  <2>2. d \in Registers
    <3>1. 2 \in 0 .. 3
      OBVIOUS
    <3> HIDE DEF d1
    <3> QED BY <2>1, <3>1, FieldTypes
  <2>3. c.InitState = 1 /\ ThenReturn(p, d)
    BY <1>2 DEF ICW2
  <2>4. SameRequests(c, d) /\ SameLatches(c, d) /\ SameControls(c, d)
        /\ d.AutoEOI = c.AutoEOI
    BY <1>0 DEF Registers, SameRequests, SameLatches, SameControls
  <2> HIDE DEF d
  <2> QED BY <2>2, <2>3, <2>4, Quietly
<1>3. ASSUME ICW3(p) PROVE Goal
  <2> DEFINE d == [c EXCEPT !.InitState = IF c.Is4ByteInit THEN 3 ELSE 0]
  <2>1. (IF c.Is4ByteInit THEN 3 ELSE 0) \in 0 .. 3
    OBVIOUS
  <2>2. d \in Registers
    BY <1>0, <2>1, FieldTypes
  <2>3. c.InitState = 2 /\ ThenReturn(p, d)
    BY <1>3 DEF ICW3
  <2>4. SameRequests(c, d) /\ SameLatches(c, d) /\ SameControls(c, d)
        /\ d.AutoEOI = c.AutoEOI
    BY <1>0 DEF Registers, SameRequests, SameLatches, SameControls
  <2> HIDE DEF d
  <2> QED BY <2>2, <2>3, <2>4, Quietly
<1>4. ASSUME NEW mode \in Modes, ICW4(p, mode) PROVE Goal
  <2>1. mode.SFNM \in BOOLEAN /\ mode.AutoEOI \in BOOLEAN
    BY InputAssumption
  <2> DEFINE d1 == [c EXCEPT !.SFNM = mode.SFNM]
             d2 == [d1 EXCEPT !.AutoEOI = mode.AutoEOI]
             d == [d2 EXCEPT !.InitState = 0]
  <2>2. d1 \in Registers
    BY <1>0, <2>1, FieldTypes
  <2>3. d2 \in Registers
    BY <2>1, <2>2, FieldTypes
  <2>4. d \in Registers
    <3>1. 0 \in 0 .. 3
      OBVIOUS
    <3> HIDE DEF d2
    <3> QED BY <2>3, <3>1, FieldTypes
  <2>5. c.InitState = 3 /\ ThenReturn(p, d)
    BY <1>4 DEF ICW4
  <2>6. SameRequests(c, d) /\ SameLatches(c, d) /\ SameControls(c, d)
        /\ d.InitState = 0
    BY <1>0 DEF Registers, SameRequests, SameLatches, SameControls
  <2> HIDE DEF d
  <2> QED BY <2>4, <2>5, <2>6, Quietly
<1>5. ASSUME NEW mask \in Masks, OCW1(p, mask) PROVE Goal
  <2> DEFINE d == [c EXCEPT !.IMR = mask]
  <2>1. d \in Registers
    BY <1>0, InputAssumption DEF Registers
  <2>2. Same(c, d)
    BY <1>0 DEF Registers, Same, SameLatches, SameControls
  <2>3. ThenUpdate(p, d)
    BY <1>5 DEF OCW1
  <2> HIDE DEF d
  <2> QED BY <2>1, <2>2, <2>3, Updated
<1>6. ASSUME NEW command \in Commands, RotateOnAutoEOI(p, command) PROVE Goal
  <2> DEFINE d == [c EXCEPT !.RotateOnAutoEOI = (command = 4)]
  <2>1. d \in Registers
    BY <1>0 DEF Registers
  <2>2. SameRequests(c, d) /\ Same(c, d)
    BY <1>0 DEF Registers, SameRequests, Same, SameLatches, SameControls
  <2>3. ThenReturn(p, d)
    BY <1>6 DEF RotateOnAutoEOI
  <2> HIDE DEF d
  <2> QED BY <2>1, <2>2, <2>3, Quietly DEF Same
<1>7. ASSUME NEW command \in Commands, NonspecificEOI(p, command) PROVE Goal
  <2> DEFINE priority == GetPriority(c, c.ISR)
             irq      == Wrap(priority + c.PriorityAdd)
             d        == EndOfInterrupt(c, irq, command = 5)
  <2>1. CASE priority = LineCount
    <3>1. SameRequests(c, c) /\ Same(c, c) /\ ThenReturn(p, c)
      BY <1>7, <2>1 DEF NonspecificEOI, SameRequests, Same, SameLatches, SameControls
    <3> QED BY <1>0, <3>1, Quietly DEF Same
  <2>2. CASE priority # LineCount
    <3>1. ThenUpdate(p, d)
      BY <1>7, <2>2 DEF NonspecificEOI
    <3>2. c.ISR \in SUBSET Lines /\ c.ISR # {}
      BY <1>0, <2>2, PriorityType DEF Registers
    <3>3. irq \in Lines
      BY <1>0, <3>2, PriorityOfMask
    <3> HIDE DEF irq
    <3>4. d \in Registers
      BY <1>0, <3>3, EndOfInterruptType
    <3>5. Same(c, d)
      BY <1>0 DEF EndOfInterrupt, Registers, Same, SameLatches, SameControls
    <3> HIDE DEF d
    <3> QED BY <3>1, <3>4, <3>5, Updated
  <2> QED BY <2>1, <2>2
<1>8. ASSUME NEW command \in Commands, NEW irq \in Lines, SpecificEOI(p, command, irq)
      PROVE  Goal
  <2> DEFINE d == EndOfInterrupt(c, irq, command = 7)
  <2>1. d \in Registers
    BY <1>0, EndOfInterruptType
  <2>2. Same(c, d)
    BY <1>0 DEF EndOfInterrupt, Registers, Same, SameLatches, SameControls
  <2>3. ThenUpdate(p, d)
    BY <1>8 DEF SpecificEOI
  <2> HIDE DEF d
  <2> QED BY <2>1, <2>2, <2>3, Updated
<1>9. ASSUME NEW command \in Commands, NEW irq \in Lines, SetPriority(p, command, irq)
      PROVE  Goal
  <2> DEFINE d == [c EXCEPT !.PriorityAdd = Wrap(irq + 1)]
  <2>1. Wrap(irq + 1) \in Lines
    BY WrapType, LineCountAssumption DEF Lines
  <2>2. d \in Registers /\ Same(c, d)
    BY <1>0, <2>1 DEF Registers, Same, SameLatches, SameControls
  <2>3. ThenUpdate(p, d)
    BY <1>9 DEF SetPriority
  <2> HIDE DEF d
  <2> QED BY <2>2, <2>3, Updated
<1>10. ASSUME NEW word \in OCW3Words, OCW3(p, word) PROVE Goal
  <2> DEFINE poll    == c.Poll \/ word.poll
             select  == IF word.select = "keep" THEN c.ReadRegisterSelect
                        ELSE word.select
             special == IF word.specialMask = "keep" THEN c.SpecialMask
                        ELSE word.specialMask = "set"
             d1 == [c EXCEPT !.Poll = poll]
             d2 == [d1 EXCEPT !.ReadRegisterSelect = select]
             d  == [d2 EXCEPT !.SpecialMask = special]
  <2>1. word.select \in {"keep", "IRR", "ISR"}
    BY InputAssumption DEF OCW3Word
  <2>2. c.SpecialMask \in BOOLEAN /\ c.ReadRegisterSelect \in {"IRR", "ISR"}
    BY <1>0 DEF Registers
  <2>3. poll \in BOOLEAN /\ select \in {"IRR", "ISR"} /\ special \in BOOLEAN
    BY <2>1, <2>2
  <2>4. SameRequests(c, d) /\ SameLatches(c, d) /\ d.AutoEOI = c.AutoEOI
        /\ d.InitState = c.InitState /\ d.ELCR = c.ELCR
        /\ d.Poll = poll /\ d.SpecialMask = special
    BY <1>0 DEF Registers, SameRequests, SameLatches
  <2>5. ThenReturn(p, d)
    BY <1>10 DEF OCW3
  <2>6. /\ Steady => (special => c.SpecialMask)
        /\ NoPolls => (poll => c.Poll)
    BY DEF Steady, NoPolls
  <2> HIDE DEF poll, select, special
  <2>7. d1 \in Registers
    BY <1>0, <2>3, FieldTypes
  <2>8. d2 \in Registers
    BY <2>3, <2>7, FieldTypes
  <2>9. d \in Registers
    BY <2>3, <2>8, FieldTypes
  <2> HIDE DEF d
  <2>10. Continued(p, c, d)
    BY <2>4 DEF Continued, SameRequests, SameLatches
  <2> QED BY <2>4, <2>5, <2>6, <2>9, <2>10 DEF Handles, Change
<1>11. ASSUME NEW lines \in SUBSET Lines, ElcrWrite(p, lines) PROVE Goal
  <2> DEFINE d == [c EXCEPT !.ELCR = lines \cap ElcrMask[p]]
  <2>1. d \in Registers
    BY <1>0 DEF Registers
  <2>2. SameRequests(c, d) /\ SameLatches(c, d)
        /\ d.AutoEOI = c.AutoEOI /\ d.InitState = c.InitState
        /\ d.Poll = c.Poll /\ d.SpecialMask = c.SpecialMask
        /\ d.ELCR \subseteq ElcrMask[p]
    BY <1>0 DEF Registers, SameRequests, SameLatches
  <2>3. ThenReturn(p, d)
    BY <1>11 DEF ElcrWrite
  <2> HIDE DEF d
  <2> QED BY <2>1, <2>2, <2>3 DEF Handles, Change, Continued, SameRequests, SameLatches
<1>12. ASSUME PollRead(p) PROVE Goal
  <2> DEFINE irq == GetIRQ(pic, p)
             d   == [c EXCEPT !.Poll = FALSE]
             e   == AcknowledgeIRQ(d, irq)
  <2>1. c.Poll
    BY <1>12 DEF PollRead
  <2>2. d \in Registers /\ SameRequests(c, d) /\ SameLatches(c, d)
        /\ d.AutoEOI = c.AutoEOI /\ d.InitState = c.InitState /\ d.ELCR = c.ELCR
        /\ ~ d.Poll /\ d.SpecialMask = c.SpecialMask
    BY <1>0 DEF Registers, SameRequests, SameLatches
  <2>3. CASE irq = NoIRQ
    <3>1. ThenReturn(p, d)
      BY <1>12, <2>3 DEF PollRead
    <3> HIDE DEF d
    <3> QED BY <2>2, <3>1 DEF Handles, Change, Continued, SameRequests, SameLatches
  <2>4. CASE irq # NoIRQ
    <3>1. irq \in Lines
      BY <1>0, <2>4, GetIRQType
    <3>2. ThenUpdate(p, e)
      BY <1>12, <2>4 DEF PollRead
    <3> HIDE DEF d, irq
    <3>3. e \in Registers
      BY <2>2, <3>1, AcknowledgeType
    <3>4. /\ e.IRR \subseteq d.IRR /\ e.PreviousIRR = d.PreviousIRR
          /\ e.InterruptOutput = d.InterruptOutput
          /\ e.AutoEOI = d.AutoEOI /\ e.InitState = d.InitState /\ e.ELCR = d.ELCR
          /\ e.Poll = d.Poll /\ e.SpecialMask = d.SpecialMask
      BY <2>2 DEF AcknowledgeIRQ, Registers
    <3> HIDE DEF e
    <3> QED BY <2>1, <2>2, <3>2, <3>3, <3>4
            DEF Handles, Change, Continued, SameRequests, SameLatches
  <2> QED BY <2>3, <2>4
<1> QED BY <1>1, <1>2, <1>3, <1>4, <1>5, <1>6, <1>7, <1>8, <1>9, <1>10, <1>11,
           <1>12

LEMMA GuestStep == IInv /\ (Device \/ Guest) => IInv'
BY DeviceHandles, GuestHandles, HandlerStep


-----------------------------------------------------------------------------
(* The steps of UpdateIRQ and GetCurrentIRQ.                               *)

\* Returning from a call leaves the calls below it.
LEMMA CallersType ==
  ASSUME TypeOK, calls # <<>>
  PROVE  /\ Top \in Activation
         /\ Callers \in Seq(Activation)
         /\ Len(Callers) = Len(calls) - 1
<1>1. calls \in Seq(Activation) /\ Len(calls) \in Nat /\ Len(calls) >= 1
  BY LenProperties, EmptySeq DEF TypeOK
<1>2. \A i \in 1 .. Len(calls) : calls[i] \in Activation
  BY <1>1, ElementOfSeq
<1>3. Top \in Activation
  BY <1>1, <1>2 DEF Top
<1>4. \A i \in 1 .. Len(calls) - 1 : calls[i] \in Activation
  BY <1>1, <1>2
<1>5. /\ Callers \in Seq(Activation)
      /\ Len(Callers) = IF 1 <= Len(calls) - 1 THEN (Len(calls) - 1) - 1 + 1 ELSE 0
  BY <1>1, <1>4, SubSeqProperties DEF Callers
<1>6. Len(Callers) = Len(calls) - 1
  <2>1. CASE Len(calls) = 1
    BY <1>5, <2>1
  <2>2. CASE Len(calls) > 1
    BY <1>1, <1>5, <2>2
  <2>3. \A n \in Nat : n >= 1 => n = 1 \/ n > 1
    OBVIOUS
  <2> QED BY <1>1, <2>1, <2>2, <2>3, Zenon
<1> QED BY <1>3, <1>5, <1>6

LEMMA StepStep == IInv /\ Step => IInv'
<1> SUFFICES ASSUME IInv, Step PROVE IInv'
  OBVIOUS
<1>0. /\ pic \in [Pics -> Registers] /\ Master \in Pics /\ Slave \in Pics
      /\ Master # Slave /\ Cascade \in Lines /\ raised \in Seq(Nat)
      /\ calls \in Seq(Activation)
  BY LineCountAssumption DEF IInv, TypeOK, Pics, Master, Slave, Cascade, Lines
<1>1. CASE UpdateSlave
  <2> DEFINE output == GetIRQ(pic, Slave) # NoIRQ
             m == SetIRQ(pic[Master], Cascade, output)
             d == [pic[Slave] EXCEPT !.InterruptOutput = output]
  <2>1. output \in BOOLEAN
    OBVIOUS
  <2>2. m \in Registers
    BY <1>0, <2>1, SetIRQType
  <2>3. d \in Registers
    BY <1>0, <2>1 DEF Registers
  <2>4. pic' = [pic EXCEPT ![Slave] = d, ![Master] = m]
    BY <1>0, <1>1 DEF UpdateSlave, Master, Slave
  <2>5. pic' \in [Pics -> Registers]
    BY <1>0, <2>2, <2>3, <2>4
  <2>6. pc' = "UpdateMaster" /\ calls' = calls /\ raised' = raised
    BY <1>1 DEF UpdateSlave
  <2> QED BY <1>0, <2>5, <2>6 DEF IInv, TypeOK, CallsMatch, Settled
<1>2. CASE UpdateMasterIdle
  <2> DEFINE d == [pic[Master] EXCEPT !.InterruptOutput = FALSE]
  <2>1. d \in Registers /\ ~ d.InterruptOutput
    BY <1>0 DEF Registers
  <2>2. pic' = [pic EXCEPT ![Master] = d]
    BY <1>2 DEF UpdateMasterIdle
  <2>3. pic' \in [Pics -> Registers] /\ pic'[Master] = d
    BY <1>0, <2>1, <2>2
  <2>4. ~ Deliverable(pic[Master])
    BY <1>0, <1>2, NoIRQNotDeliverable DEF UpdateMasterIdle
  <2>5. ~ Deliverable(d)
    <3>1. /\ d.IRR = pic[Master].IRR /\ d.IMR = pic[Master].IMR
          /\ d.ISR = pic[Master].ISR
          /\ d.PriorityAdd = pic[Master].PriorityAdd
      BY <1>0 DEF Registers
    <3> HIDE DEF d
    <3> QED BY <2>4, <3>1, SameDeliverable
  <2>6. ~ Deliverable(pic[Master])'
    BY <2>3, <2>5 DEF Deliverable, GetPriority
  <2>7. /\ pc' = IF calls = <<>> THEN "Rest" ELSE "GetCurrentIRQ"
        /\ calls' = calls /\ raised' = raised
    BY <1>2 DEF UpdateMasterIdle
  <2>8. Settled'
    BY <2>1, <2>3, <2>6 DEF Settled
  <2> QED BY <1>0, <2>3, <2>7, <2>8 DEF IInv, TypeOK, CallsMatch
<1>3. CASE UpdateMasterPending
  <2> DEFINE irq == GetIRQ(pic, Master)
             d == [pic[Master] EXCEPT !.InterruptOutput = TRUE]
  <2>1. irq \in Lines
    BY <1>0, <1>3, GetIRQType DEF UpdateMasterPending
  <2>2. d \in Registers
    BY <1>0 DEF Registers
  <2>3. AcknowledgeIRQ(d, irq) \in Registers
    BY <2>1, <2>2, AcknowledgeType
  <2>4. pic' = [pic EXCEPT ![Master] = AcknowledgeIRQ(d, irq)]
    BY <1>3 DEF UpdateMasterPending
  <2>5. pic' \in [Pics -> Registers]
    BY <1>0, <2>3, <2>4
  <2>6. [pic |-> Master, irq |-> irq] \in Activation
    BY <1>0, <2>1 DEF Activation
  <2>7. calls' \in Seq(Activation)
    BY <1>0, <1>3, <2>6, AppendProperties DEF UpdateMasterPending
  <2>8. pc' = "UpdateMaster" /\ raised' = raised
    BY <1>3 DEF UpdateMasterPending
  <2> QED BY <1>0, <2>5, <2>7, <2>8 DEF IInv, TypeOK, CallsMatch, Settled
<1>4. CASE AcknowledgeSlave
  <2> DEFINE irq == GetIRQ(pic, Slave)
  <2>1. calls # <<>>
    BY <1>4 DEF AcknowledgeSlave, IInv, CallsMatch
  <2>2. irq \in Lines
    BY <1>0, <1>4, GetIRQType DEF AcknowledgeSlave
  <2>3. AcknowledgeIRQ(pic[Slave], irq) \in Registers
    BY <1>0, <2>2, AcknowledgeType
  <2>4. pic' = [pic EXCEPT ![Slave] = AcknowledgeIRQ(pic[Slave], irq)]
    BY <1>4 DEF AcknowledgeSlave
  <2>5. pic' \in [Pics -> Registers]
    BY <1>0, <2>3, <2>4
  <2>6. [pic |-> Slave, irq |-> irq] \in Activation /\ Callers \in Seq(Activation)
    BY <1>0, <2>1, <2>2, CallersType DEF Activation, IInv
  <2>7. calls' \in Seq(Activation)
    BY <1>4, <2>6, AppendProperties DEF AcknowledgeSlave
  <2>8. pc' = "UpdateSlave" /\ raised' = raised
    BY <1>4 DEF AcknowledgeSlave
  <2> QED BY <1>0, <2>5, <2>7, <2>8 DEF IInv, TypeOK, CallsMatch, Settled
<1>5. CASE Interrupt
  <2>1. pc = "GetCurrentIRQ" /\ calls # <<>> /\ pic' = pic
    BY <1>5 DEF Interrupt, IInv, CallsMatch
  <2>2. Top \in Activation /\ Callers \in Seq(Activation) /\ Len(Callers) = Len(calls) - 1
    BY <2>1, CallersType DEF IInv
  <2>3. Vector \in Nat
    <3>1. pic[Slave].Base \in Nat /\ pic[Top.pic].Base \in Nat
      BY <1>0, <2>2 DEF Registers, Activation
    <3>2. Top.irq \in Nat
      BY <2>2 DEF Activation, Lines
    <3> QED BY <3>1, <3>2, LineCountAssumption DEF Vector
  <2>4. raised' \in Seq(Nat)
    BY <1>0, <1>5, <2>3, AppendProperties DEF Interrupt
  <2>5. calls' = Callers /\ pc' = IF Len(calls) = 1 THEN "Rest" ELSE "GetCurrentIRQ"
    BY <1>5 DEF Interrupt
  <2>6. Len(calls) = 1 <=> calls' = <<>>
    <3>1. Len(calls) \in Nat /\ Len(Callers) = Len(calls) - 1
      BY <1>0, <2>2, LenProperties
    <3>2. Len(Callers) = 0 <=> Callers = <<>>
      BY <2>2, EmptySeq
    <3> QED BY <2>5, <3>1, <3>2
  <2>7. Settled'
    BY <2>1 DEF IInv, Settled, Deliverable, GetPriority
  <2>8. CallsMatch'
    BY <2>5, <2>6 DEF CallsMatch
  <2>9. TypeOK'
    BY <1>0, <2>1, <2>2, <2>4, <2>5 DEF TypeOK
  <2> QED BY <2>7, <2>8, <2>9 DEF IInv
<1> QED BY <1>1, <1>2, <1>3, <1>4, <1>5 DEF Step

-----------------------------------------------------------------------------
(* When GetIRQ finds a request.                                            *)

\* GetIRQ finds a request exactly if one comes before every line that blocks.
LEMMA Offered ==
  ASSUME NEW s \in [Pics -> Registers], NEW p \in Pics
  PROVE  GetIRQ(s, p) # NoIRQ <=>
           \E n \in Lines :
             /\ Wrap(n + s[p].PriorityAdd) \in s[p].IRR \ s[p].IMR
             /\ \A m \in Lines :
                  Wrap(m + s[p].PriorityAdd) \in Blocking(s, p) => n < m
<1> DEFINE c == s[p]
           ready == c.IRR \ c.IMR
           blocking == Blocking(s, p)
           first == GetPriority(c, ready)
           bar == GetPriority(c, blocking)
<1>1. c \in Registers /\ ready \in SUBSET Lines /\ blocking \in SUBSET Lines
  BY DEF Registers, Blocking
<1>2. first \in 0 .. LineCount /\ bar \in 0 .. LineCount
  BY <1>1, PriorityType
<1>3. GetIRQ(s, p) = IF first < bar THEN Wrap(first + c.PriorityAdd) ELSE NoIRQ
  BY DEF GetIRQ
<1>4. first < bar => /\ ready # {} /\ first \in Lines
                     /\ Wrap(first + c.PriorityAdd) \in ready
  <2>1. first < bar => first # LineCount
    BY <1>2, LineCountAssumption
  <2> QED BY <1>1, <2>1, PriorityType, PriorityOfMask
<1>5. blocking # {} =>
        /\ bar \in Lines /\ Wrap(bar + c.PriorityAdd) \in blocking
        /\ \A m \in Lines : Wrap(m + c.PriorityAdd) \in blocking => bar <= m
  BY <1>1, PriorityOfMask
<1>6. blocking = {} => bar = LineCount
  BY DEF GetPriority
<1>7. ready # {} =>
        \A n \in Lines : Wrap(n + c.PriorityAdd) \in ready => first <= n
  BY <1>1, PriorityOfMask
<1>8. GetIRQ(s, p) # NoIRQ <=> first < bar
  <2>1. first < bar => Wrap(first + c.PriorityAdd) # NoIRQ
    BY <1>1, <1>4 DEF Lines, NoIRQ
  <2> QED BY <1>3, <2>1
<1> HIDE DEF first, bar, ready, blocking
<1>9. ASSUME first < bar
      PROVE  \E n \in Lines :
               /\ Wrap(n + c.PriorityAdd) \in ready
               /\ \A m \in Lines : Wrap(m + c.PriorityAdd) \in blocking => n < m
  <2>1. \A m \in Lines : Wrap(m + c.PriorityAdd) \in blocking => first < m
    BY <1>2, <1>5, <1>9, LineCountAssumption DEF Lines
  <2> QED BY <1>4, <1>9, <2>1
<1>10. ASSUME NEW n \in Lines, Wrap(n + c.PriorityAdd) \in ready,
              \A m \in Lines : Wrap(m + c.PriorityAdd) \in blocking => n < m
       PROVE  first < bar
  <2>1. first <= n
    BY <1>7, <1>10
  <2>2. n < bar
    BY <1>5, <1>6, <1>10, LineCountAssumption DEF Lines
  <2> QED BY <1>2, <2>1, <2>2, LineCountAssumption DEF Lines
<1> QED BY <1>8, <1>9, <1>10 DEF first, bar, ready, blocking

\* A request GetIRQ returns comes first of all that are ready.
LEMMA FirstOffered ==
  ASSUME NEW s \in [Pics -> Registers], NEW p \in Pics, GetIRQ(s, p) # NoIRQ
  PROVE  \E n \in Lines :
           /\ GetIRQ(s, p) = Wrap(n + s[p].PriorityAdd)
           /\ \A m \in Lines :
                Wrap(m + s[p].PriorityAdd) \in s[p].IRR \ s[p].IMR => n <= m
<1> DEFINE c == s[p]
           ready == c.IRR \ c.IMR
           first == GetPriority(c, ready)
<1>1. c \in Registers /\ ready \in SUBSET Lines
  BY DEF Registers
<1>2. ready # {}
  BY Offered
<1>3. GetIRQ(s, p) = Wrap(first + c.PriorityAdd)
  BY DEF GetIRQ
<1> QED BY <1>1, <1>2, <1>3, PriorityOfMask

\* With nothing to find, GetIRQ still finds nothing when lines are added to those
\* that block, or to the requests if they block themselves.
LEMMA StaysQuiet ==
  ASSUME NEW s \in [Pics -> Registers], NEW t \in [Pics -> Registers], NEW p \in Pics,
         GetIRQ(s, p) = NoIRQ,
         t[p].PriorityAdd = s[p].PriorityAdd,
         Blocking(s, p) \subseteq Blocking(t, p),
         t[p].IRR \ t[p].IMR \subseteq (s[p].IRR \ s[p].IMR) \cup Blocking(t, p)
  PROVE  GetIRQ(t, p) = NoIRQ
<1> SUFFICES ASSUME NEW n \in Lines,
                    Wrap(n + t[p].PriorityAdd) \in t[p].IRR \ t[p].IMR,
                    \A m \in Lines :
                      Wrap(m + t[p].PriorityAdd) \in Blocking(t, p) => n < m
             PROVE  FALSE
  BY Offered
<1>1. Wrap(n + t[p].PriorityAdd) \notin Blocking(t, p)
  BY DEF Lines
<1>2. Wrap(n + s[p].PriorityAdd) \in s[p].IRR \ s[p].IMR
  BY <1>1
<1> QED BY <1>2, Offered

\* The service of a request holds back the others.
LEMMA AcknowledgedIsQuiet ==
  ASSUME NEW s \in [Pics -> Registers], NEW t \in [Pics -> Registers], NEW p \in Pics,
         GetIRQ(s, p) # NoIRQ,
         t[p].PriorityAdd = s[p].PriorityAdd,
         GetIRQ(s, p) \in Blocking(t, p),
         t[p].IRR \ t[p].IMR \subseteq s[p].IRR \ s[p].IMR
  PROVE  GetIRQ(t, p) = NoIRQ
<1> SUFFICES ASSUME NEW n \in Lines,
                    Wrap(n + t[p].PriorityAdd) \in t[p].IRR \ t[p].IMR,
                    \A m \in Lines :
                      Wrap(m + t[p].PriorityAdd) \in Blocking(t, p) => n < m
             PROVE  FALSE
  BY Offered
<1>1. PICK k \in Lines :
        /\ GetIRQ(s, p) = Wrap(k + s[p].PriorityAdd)
        /\ \A m \in Lines :
             Wrap(m + s[p].PriorityAdd) \in s[p].IRR \ s[p].IMR => k <= m
  BY FirstOffered
<1>2. k <= n /\ n < k
  BY <1>1
<1> QED BY <1>2 DEF Lines

\* GetIRQ reads the requests, the mask, the services, the priorities and, of the
\* modes, the special mask and the master's special fully nested mode.
LEMMA SameIRQ ==
  ASSUME NEW s, NEW t, NEW p \in Pics,
         t[p].IRR = s[p].IRR, t[p].IMR = s[p].IMR, t[p].ISR = s[p].ISR,
         t[p].PriorityAdd = s[p].PriorityAdd,
         t[p].SpecialMask = s[p].SpecialMask,
         p = Master => t[p].SFNM = s[p].SFNM
  PROVE  GetIRQ(t, p) = GetIRQ(s, p) /\ Blocking(t, p) = Blocking(s, p)
<1>1. Blocking(t, p) = Blocking(s, p)
  BY DEF Blocking
<1>2. \A mask : GetPriority(t[p], mask) = GetPriority(s[p], mask)
  BY SamePriority
<1> QED BY <1>1, <1>2 DEF GetIRQ

-----------------------------------------------------------------------------
(* The strengthened invariants.                                            *)

\* The GetCurrentIRQ call that serves a request of the slave, and a request of
\* the slave that it, or the master, still has.
CascadeCall == [pic |-> Master, irq |-> Cascade]

Pending == \/ Cascade \in pic[Master].IRR
           \/ \E i \in 1 .. Len(calls) : calls[i] = CascadeCall

\* The slave's output tells whether it has a request.
OutputTells == pic[Slave].InterruptOutput <=> GetIRQ(pic, Slave) # NoIRQ

\* Without the modes that let services end or overlap, the first request a
\* handler acknowledges holds back all others until the guest ends it.
SingleInv ==
  ~ pic[Master].AutoEOI /\ ~ pic[Master].SFNM =>
    /\ Len(calls) + Len(raised) <= 1
    /\ raised # <<>> => pc = "Rest"
    /\ calls # <<>> => GetIRQ(pic, Master) = NoIRQ
    /\ calls # <<>> /\ (Top = CascadeCall \/ pc = "UpdateSlave") =>
         Cascade \in Blocking(pic, Master)

\* While the slave's output is high the master has its request, or will have it
\* when the update of the slave is done.
CascadeInv ==
  /\ \A p \in Pics : ~ pic[p].Poll /\ ~ pic[p].SpecialMask
  /\ pic[Slave].InitState # 0 => ~ pic[Slave].AutoEOI
  /\ pc # "UpdateSlave" => OutputTells
  /\ pc # "UpdateSlave" /\ Cascade \in pic[Master].PreviousIRR =>
       pic[Slave].InterruptOutput
  /\ /\ ~ pic[Slave].AutoEOI
     /\ pc = "UpdateSlave" => GetIRQ(pic, Slave) # NoIRQ
     /\ Cascade \in pic[Master].PreviousIRR
     => Pending

\* No request of the master is used twice by one handler: an update of the slave
\* made on the way finds the cascade line as it was, or lowers it.
DepthInv ==
  /\ \A p \in Pics : pic[p].ELCR = {} /\ ~ pic[p].SpecialMask
  /\ pc # "UpdateSlave" => OutputTells
  /\ /\ pc # "UpdateSlave"
     /\ pic[Slave].InterruptOutput
     /\ Cascade \notin pic[Master].PreviousIRR
     => ~ Pending
  /\ pc = "UpdateSlave" /\ calls # <<>> =>
       Cascade \in pic[Master].PreviousIRR \/ GetIRQ(pic, Slave) = NoIRQ
  /\ Len(calls) + Cardinality(pic[Master].IRR) <= LineCount

\* With the special mask one update may raise the cascade line again, once.
LooseDepthInv ==
  /\ \A p \in Pics : pic[p].ELCR = {}
  /\ calls # <<>> =>
       Len(calls) + Cardinality(pic[Master].IRR) <=
         IF Cascade \in pic[Master].PreviousIRR \/ GetIRQ(pic, Slave) = NoIRQ
         THEN LineCount + 1 ELSE LineCount

-----------------------------------------------------------------------------
(* What each step changes, of what the strengthened invariants speak of.    *)

\* What no step changes of a controller.
SameModes(c, d) ==
  /\ d.IMR = c.IMR /\ d.ELCR = c.ELCR /\ d.SpecialMask = c.SpecialMask
  /\ d.Poll = c.Poll /\ d.AutoEOI = c.AutoEOI /\ d.SFNM = c.SFNM
  /\ d.InitState = c.InitState

SameServices(c, d) == d.ISR = c.ISR /\ d.PriorityAdd = c.PriorityAdd

\* GetIRQ and Blocking of the next state are those of the next registers.
LEMMA NextIRQ ==
  ASSUME NEW p \in Pics
  PROVE  GetIRQ(pic, p)' = GetIRQ(pic', p) /\ Blocking(pic, p)' = Blocking(pic', p)
BY DEF GetIRQ, Blocking, GetPriority, Wrap

LEMMA AcknowledgeEffect ==
  ASSUME NEW c \in Registers, NEW i \in Lines
  PROVE  LET d == AcknowledgeIRQ(c, i)
         IN  /\ SameModes(c, d)
             /\ d.PreviousIRR = c.PreviousIRR /\ d.InterruptOutput = c.InterruptOutput
             /\ d.IRR = IF i \in c.ELCR THEN c.IRR ELSE c.IRR \ {i}
             /\ ~ c.AutoEOI => /\ d.ISR = c.ISR \cup {i}
                               /\ d.PriorityAdd = c.PriorityAdd
BY DEF AcknowledgeIRQ, Registers, SameModes

LEMMA UpdateSlaveEffect ==
  ASSUME IInv, UpdateSlave
  PROVE  /\ GetIRQ(pic', Slave) = GetIRQ(pic, Slave)
         /\ SameModes(pic[Slave], pic'[Slave])
         /\ SameModes(pic[Master], pic'[Master])
         /\ SameServices(pic[Master], pic'[Master])
         /\ pic'[Slave].InterruptOutput <=> GetIRQ(pic, Slave) # NoIRQ
         /\ Cascade \in pic'[Master].PreviousIRR <=> GetIRQ(pic, Slave) # NoIRQ
         /\ pic'[Master].IRR \subseteq pic[Master].IRR \cup {Cascade}
         /\ pic[Master].IRR \subseteq pic'[Master].IRR \cup {Cascade}
         /\ GetIRQ(pic, Slave) # NoIRQ =>
              /\ pic[Master].IRR \subseteq pic'[Master].IRR
              /\ Cascade \in pic[Master].PreviousIRR \/ Cascade \in pic'[Master].IRR
         /\ pic[Master].ELCR = {} /\
            (GetIRQ(pic, Slave) = NoIRQ \/ Cascade \in pic[Master].PreviousIRR) =>
              pic'[Master].IRR = pic[Master].IRR
<1> DEFINE out == GetIRQ(pic, Slave) # NoIRQ
           m   == pic[Master]
           d   == SetIRQ(m, Cascade, out)
           e   == [pic[Slave] EXCEPT !.InterruptOutput = out]
<1>0. /\ pic \in [Pics -> Registers] /\ Master \in Pics /\ Slave \in Pics
      /\ m \in Registers /\ pic[Slave] \in Registers
      /\ Master # Slave /\ Cascade \in Lines
  BY LineCountAssumption DEF IInv, TypeOK, Pics, Master, Slave, Cascade, Lines
<1>1. pic' = [pic EXCEPT ![Slave].InterruptOutput = out, ![Master] = SetIRQ(@, Cascade, out)]
  BY DEF UpdateSlave
<1>2. pic'[Master] = d /\ pic'[Slave] = e
  BY <1>0, <1>1
<1>3. /\ SameModes(m, d) /\ SameServices(m, d)
      /\ Cascade \in d.PreviousIRR <=> out
      /\ d.IRR = IF out THEN IF Cascade \in m.ELCR \/ Cascade \notin m.PreviousIRR
                             THEN m.IRR \cup {Cascade} ELSE m.IRR
                 ELSE IF Cascade \in m.ELCR THEN m.IRR \ {Cascade} ELSE m.IRR
  BY <1>0 DEF SetIRQ, SameModes, SameServices, Registers
<1>4. /\ SameModes(pic[Slave], e) /\ SameServices(pic[Slave], e)
      /\ e.IRR = pic[Slave].IRR /\ e.InterruptOutput = out
  BY <1>0 DEF SameModes, SameServices, Registers
<1>5. GetIRQ(pic', Slave) = GetIRQ(pic, Slave)
  <2> HIDE DEF e
  <2> QED BY <1>0, <1>2, <1>4, SameIRQ DEF SameModes, SameServices
<1> HIDE DEF d, e, out
<1>6. out <=> GetIRQ(pic, Slave) # NoIRQ
  BY DEF out
<1> QED BY <1>2, <1>3, <1>4, <1>5, <1>6

LEMMA IdleEffect ==
  ASSUME IInv, UpdateMasterIdle
  PROVE  /\ pic'[Slave] = pic[Slave]
         /\ \A p \in Pics : /\ GetIRQ(pic', p) = GetIRQ(pic, p)
                            /\ Blocking(pic', p) = Blocking(pic, p)
         /\ SameModes(pic[Master], pic'[Master])
         /\ pic'[Master].IRR = pic[Master].IRR
         /\ pic'[Master].PreviousIRR = pic[Master].PreviousIRR
<1> DEFINE d == [pic[Master] EXCEPT !.InterruptOutput = FALSE]
<1>0. /\ pic \in [Pics -> Registers] /\ Master \in Pics /\ Slave \in Pics
      /\ pic[Master] \in Registers /\ Master # Slave
  BY DEF IInv, TypeOK, Pics, Master, Slave
<1>1. pic' = [pic EXCEPT ![Master] = d]
  BY DEF UpdateMasterIdle
<1>2. pic'[Master] = d /\ pic'[Slave] = pic[Slave]
  BY <1>0, <1>1
<1>3. /\ SameModes(pic[Master], d) /\ SameServices(pic[Master], d)
      /\ d.IRR = pic[Master].IRR /\ d.PreviousIRR = pic[Master].PreviousIRR
  BY <1>0 DEF SameModes, SameServices, Registers
<1> HIDE DEF d
<1>4. \A p \in Pics : GetIRQ(pic', p) = GetIRQ(pic, p) /\ Blocking(pic', p) = Blocking(pic, p)
  <2>1. GetIRQ(pic', Master) = GetIRQ(pic, Master) /\ Blocking(pic', Master) = Blocking(pic, Master)
    BY <1>0, <1>2, <1>3, SameIRQ DEF SameModes, SameServices
  <2>2. GetIRQ(pic', Slave) = GetIRQ(pic, Slave) /\ Blocking(pic', Slave) = Blocking(pic, Slave)
    BY <1>0, <1>2, SameIRQ
  <2> QED BY <2>1, <2>2 DEF Pics
<1> QED BY <1>2, <1>3, <1>4

LEMMA PendingEffect ==
  ASSUME IInv, UpdateMasterPending
  PROVE  /\ pic'[Slave] = pic[Slave]
         /\ GetIRQ(pic', Slave) = GetIRQ(pic, Slave)
         /\ SameModes(pic[Master], pic'[Master])
         /\ pic'[Master].PreviousIRR = pic[Master].PreviousIRR
         /\ GetIRQ(pic, Master) \in pic[Master].IRR \ pic[Master].IMR
         /\ pic'[Master].IRR = IF GetIRQ(pic, Master) \in pic[Master].ELCR
                               THEN pic[Master].IRR
                               ELSE pic[Master].IRR \ {GetIRQ(pic, Master)}
         /\ ~ pic[Master].AutoEOI /\ ~ pic[Master].SFNM =>
              /\ GetIRQ(pic', Master) = NoIRQ
              /\ GetIRQ(pic, Master) \in Blocking(pic', Master)
         /\ calls' = Append(calls, [pic |-> Master, irq |-> GetIRQ(pic, Master)])
         /\ pc = "UpdateMaster" /\ pc' = "UpdateMaster" /\ raised' = raised
<1> DEFINE irq == GetIRQ(pic, Master)
           m == pic[Master]
           c == [m EXCEPT !.InterruptOutput = TRUE]
           d == AcknowledgeIRQ(c, irq)
<1>0. /\ pic \in [Pics -> Registers] /\ Master \in Pics /\ Slave \in Pics
      /\ m \in Registers /\ Master # Slave
  BY DEF IInv, TypeOK, Pics, Master, Slave
<1>1. irq # NoIRQ /\ irq \in Lines /\ irq \in m.IRR \ m.IMR
  BY <1>0, GetIRQType DEF UpdateMasterPending
<1>2. pic' = [pic EXCEPT ![Master] = d]
  BY DEF UpdateMasterPending
<1>3. pic'[Master] = d /\ pic'[Slave] = pic[Slave]
  BY <1>0, <1>2
<1>4. /\ c \in Registers /\ SameModes(m, c) /\ SameServices(m, c)
      /\ c.IRR = m.IRR /\ c.PreviousIRR = m.PreviousIRR
  BY <1>0 DEF Registers, SameModes, SameServices
<1> HIDE DEF c
<1>5. /\ d \in Registers /\ SameModes(c, d) /\ d.PreviousIRR = c.PreviousIRR
      /\ d.IRR = IF irq \in c.ELCR THEN c.IRR ELSE c.IRR \ {irq}
      /\ ~ c.AutoEOI => d.ISR = c.ISR \cup {irq} /\ d.PriorityAdd = c.PriorityAdd
  BY <1>1, <1>4, AcknowledgeEffect, AcknowledgeType
<1> HIDE DEF d
<1>6. pic' \in [Pics -> Registers]
  BY <1>0, <1>2, <1>5
<1>7. ASSUME ~ m.AutoEOI, ~ m.SFNM
      PROVE  GetIRQ(pic', Master) = NoIRQ /\ irq \in Blocking(pic', Master)
  <2>1. d.ISR = m.ISR \cup {irq} /\ d.PriorityAdd = m.PriorityAdd /\ ~ d.SFNM
        /\ d.IMR = m.IMR /\ d.IRR \subseteq m.IRR
    BY <1>4, <1>5, <1>7 DEF SameModes, SameServices
  <2>2. irq \in Blocking(pic', Master)
    BY <1>1, <1>3, <2>1 DEF Blocking
  <2>3. pic'[Master].IRR \ pic'[Master].IMR \subseteq m.IRR \ m.IMR
    BY <1>3, <2>1
  <2> HIDE DEF irq
  <2>4. GetIRQ(pic', Master) = NoIRQ
    BY <1>0, <1>1, <1>3, <1>6, <2>1, <2>2, <2>3, AcknowledgedIsQuiet DEF irq
  <2> QED BY <2>2, <2>4
<1>8. GetIRQ(pic', Slave) = GetIRQ(pic, Slave)
  BY <1>0, <1>3, SameIRQ
<1>9. /\ calls' = Append(calls, [pic |-> Master, irq |-> irq])
      /\ pc = "UpdateMaster" /\ pc' = "UpdateMaster" /\ raised' = raised
  BY DEF UpdateMasterPending
<1>10. SameModes(m, d)
  BY <1>4, <1>5 DEF SameModes
<1> HIDE DEF irq
<1> QED BY <1>1, <1>3, <1>4, <1>5, <1>7, <1>8, <1>9, <1>10 DEF SameModes, irq

LEMMA AcknowledgeSlaveEffect ==
  ASSUME IInv, AcknowledgeSlave
  PROVE  /\ pic'[Master] = pic[Master]
         /\ GetIRQ(pic', Master) = GetIRQ(pic, Master)
         /\ Blocking(pic', Master) = Blocking(pic, Master)
         /\ SameModes(pic[Slave], pic'[Slave])
         /\ ~ pic[Slave].AutoEOI /\ ~ pic[Slave].SpecialMask =>
              GetIRQ(pic', Slave) = NoIRQ
         /\ calls # <<>> /\ Top = CascadeCall
         /\ GetIRQ(pic, Slave) # NoIRQ
         /\ calls' = Append(Callers, [pic |-> Slave, irq |-> GetIRQ(pic, Slave)])
         /\ pc = "GetCurrentIRQ" /\ pc' = "UpdateSlave" /\ raised' = raised
<1> DEFINE irq == GetIRQ(pic, Slave)
           c == pic[Slave]
           d == AcknowledgeIRQ(c, irq)
<1>0. /\ pic \in [Pics -> Registers] /\ Master \in Pics /\ Slave \in Pics
      /\ c \in Registers /\ Master # Slave
  BY DEF IInv, TypeOK, Pics, Master, Slave
<1>1. irq # NoIRQ /\ irq \in Lines
  BY <1>0, GetIRQType DEF AcknowledgeSlave
<1>2. pic' = [pic EXCEPT ![Slave] = d]
  BY DEF AcknowledgeSlave
<1>3. pic'[Slave] = d /\ pic'[Master] = pic[Master]
  BY <1>0, <1>2
<1>4. /\ d \in Registers /\ SameModes(c, d)
      /\ d.IRR = IF irq \in c.ELCR THEN c.IRR ELSE c.IRR \ {irq}
      /\ ~ c.AutoEOI => d.ISR = c.ISR \cup {irq} /\ d.PriorityAdd = c.PriorityAdd
  BY <1>0, <1>1, AcknowledgeEffect, AcknowledgeType
<1> HIDE DEF d
<1>5. pic' \in [Pics -> Registers]
  BY <1>0, <1>2, <1>4
<1>6. ASSUME ~ c.AutoEOI, ~ c.SpecialMask PROVE GetIRQ(pic', Slave) = NoIRQ
  <2>1. d.ISR = c.ISR \cup {irq} /\ d.PriorityAdd = c.PriorityAdd /\ ~ d.SpecialMask
        /\ d.IMR = c.IMR /\ d.IRR \subseteq c.IRR
    BY <1>4, <1>6 DEF SameModes
  <2>2. irq \in Blocking(pic', Slave)
    BY <1>0, <1>3, <2>1 DEF Blocking
  <2>3. pic'[Slave].IRR \ pic'[Slave].IMR \subseteq c.IRR \ c.IMR
    BY <1>3, <2>1
  <2> HIDE DEF irq
  <2> QED BY <1>0, <1>1, <1>3, <1>5, <2>1, <2>2, <2>3, AcknowledgedIsQuiet DEF irq
<1>7. GetIRQ(pic', Master) = GetIRQ(pic, Master) /\ Blocking(pic', Master) = Blocking(pic, Master)
  BY <1>0, <1>3, SameIRQ
<1>8. /\ calls # <<>> /\ Top = CascadeCall
      /\ calls' = Append(Callers, [pic |-> Slave, irq |-> irq])
      /\ pc = "GetCurrentIRQ" /\ pc' = "UpdateSlave" /\ raised' = raised
  BY DEF AcknowledgeSlave, IInv, CallsMatch, CascadeCall
<1> QED BY <1>1, <1>3, <1>4, <1>6, <1>7, <1>8

\* The calls below the one that returns.
LEMMA CallersFacts ==
  ASSUME IInv, calls # <<>>
  PROVE  /\ Callers \in Seq(Activation) /\ Len(calls) \in Nat /\ Len(calls) >= 1
         /\ Len(Callers) = Len(calls) - 1
         /\ \A i \in 1 .. Len(Callers) : Callers[i] = calls[i]
         /\ Top = calls[Len(calls)]
<1>1. /\ Callers \in Seq(Activation) /\ Len(Callers) = Len(calls) - 1
      /\ calls \in Seq(Activation)
  BY CallersType DEF IInv, TypeOK
<1>2. Len(calls) \in Nat /\ Len(calls) >= 1
  BY <1>1, LenProperties, EmptySeq DEF IInv, TypeOK
<1>3. \A i \in 1 .. Len(calls) - 1 : calls[i] \in Activation
  BY <1>1, <1>2, ElementOfSeq
<1>4. \A i \in 1 .. Len(Callers) : Callers[i] = calls[i]
  BY <1>1, <1>2, <1>3, SubSeqProperties DEF Callers
<1> QED BY <1>1, <1>2, <1>4 DEF Top

LEMMA InterruptEffect ==
  ASSUME IInv, Interrupt
  PROVE  /\ pic' = pic /\ calls # <<>> /\ calls' = Callers
         /\ Len(calls') = Len(calls) - 1 /\ Len(raised') = Len(raised) + 1
         /\ Len(calls) \in Nat /\ Len(raised) \in Nat
         /\ pc = "GetCurrentIRQ"
         /\ pc' = IF Len(calls) = 1 THEN "Rest" ELSE "GetCurrentIRQ"
         /\ Top = CascadeCall => GetIRQ(pic, Slave) = NoIRQ
<1>1. calls # <<>> /\ raised \in Seq(Nat)
  BY DEF Interrupt, IInv, CallsMatch, TypeOK
<1>2. Vector \in Nat
  <2>1. pic \in [Pics -> Registers] /\ Top \in Activation /\ Slave \in Pics
    BY <1>1, CallersType DEF IInv, TypeOK, Pics
  <2>2. pic[Slave].Base \in Nat /\ pic[Top.pic].Base \in Nat
    BY <2>1 DEF Registers, Activation
  <2>3. Top.irq \in Nat
    BY <2>1 DEF Activation, Lines
  <2> QED BY <2>2, <2>3, LineCountAssumption DEF Vector
<1>3. Len(raised') = Len(raised) + 1 /\ Len(raised) \in Nat
  BY <1>1, <1>2, AppendProperties, LenProperties DEF Interrupt
<1> QED BY <1>1, <1>3, CallersFacts DEF Interrupt, CascadeCall

\* What a handler changes.
LEMMA HandlerEffect ==
  ASSUME IInv, NEW p \in Pics, NEW d \in Registers, Handles(p, d)
  PROVE  /\ pic' \in [Pics -> Registers]
         /\ pic'[p] = d /\ \A q \in Pics \ {p} : pic'[q] = pic[q]
         /\ pc = "Rest" /\ calls = <<>> /\ calls' = <<>> /\ raised' = <<>>
         /\ Change(p, pic[p], d)
         /\ \/ pc' = Updating(p)
            \/ pc' = "Rest" /\ SameRequests(pic[p], d)
BY DEF IInv, TypeOK, CallsMatch, Handles, ThenUpdate, ThenReturn

LEMMA EveryHandler ==
  ASSUME IInv, Device \/ Guest
  PROVE  \E p \in Pics, d \in Registers : Handles(p, d)
BY DeviceHandles, GuestHandles

-----------------------------------------------------------------------------
(* One vector per handler.                                                 *)

LEMMA SingleStep ==
  ASSUME IInv, SingleInv, [Next]_vars
  PROVE  SingleInv'
<1>0. /\ pic \in [Pics -> Registers] /\ Master \in Pics /\ Slave \in Pics
      /\ calls \in Seq(Activation) /\ raised \in Seq(Nat)
      /\ Len(calls) \in Nat /\ Len(raised) \in Nat
  BY LenProperties DEF IInv, TypeOK, Pics
<1>1. CASE UNCHANGED vars
  BY <1>1 DEF vars, SingleInv, GetIRQ, Blocking, GetPriority, Top
<1>2. CASE Device \/ Guest
  <2>1. PICK p \in Pics, d \in Registers : Handles(p, d)
    BY <1>2, EveryHandler
  <2>2. calls' = <<>> /\ raised' = <<>>
    BY <2>1, HandlerEffect
  <2> QED BY <2>2 DEF SingleInv
<1>3. CASE Step
  <2>1. IInv'
    BY <1>3, StepStep
  <2> SUFFICES ASSUME ~ pic'[Master].AutoEOI, ~ pic'[Master].SFNM
               PROVE  /\ Len(calls') + Len(raised') <= 1
                      /\ raised' # <<>> => pc' = "Rest"
                      /\ calls' # <<>> => GetIRQ(pic', Master) = NoIRQ
                      /\ calls' # <<>> /\ (Top' = CascadeCall \/ pc' = "UpdateSlave") =>
                           Cascade \in Blocking(pic', Master)
    BY <1>0, NextIRQ DEF SingleInv, CascadeCall
  <2>2. SameModes(pic[Master], pic'[Master])
    <3>1. SameModes(pic[Master], pic[Master])
      BY DEF SameModes
    <3> QED BY <1>3, <3>1, UpdateSlaveEffect, IdleEffect, PendingEffect,
               AcknowledgeSlaveEffect, InterruptEffect DEF Step
  <2>3. /\ ~ pic[Master].AutoEOI /\ ~ pic[Master].SFNM
        /\ Len(calls) + Len(raised) <= 1
        /\ raised # <<>> => pc = "Rest"
        /\ calls # <<>> => GetIRQ(pic, Master) = NoIRQ
        /\ calls # <<>> /\ (Top = CascadeCall \/ pc = "UpdateSlave") =>
             Cascade \in Blocking(pic, Master)
    BY <2>2 DEF SameModes, SingleInv
  <2>4. CASE UpdateSlave
    <3>1. calls' = calls /\ raised' = raised /\ pc = "UpdateSlave" /\ pc' = "UpdateMaster"
      BY <2>4 DEF UpdateSlave
    <3>2. ASSUME calls # <<>>
          PROVE  GetIRQ(pic', Master) = NoIRQ /\ Cascade \in Blocking(pic', Master)
      <4>1. GetIRQ(pic, Master) = NoIRQ /\ Cascade \in Blocking(pic, Master)
        BY <2>3, <3>1, <3>2
      <4>2. /\ SameModes(pic[Master], pic'[Master])
            /\ SameServices(pic[Master], pic'[Master])
            /\ pic'[Master].IRR \subseteq pic[Master].IRR \cup {Cascade}
        BY <2>4, UpdateSlaveEffect
      <4>3. Blocking(pic', Master) = Blocking(pic, Master)
        BY <4>2 DEF Blocking, SameModes, SameServices
      <4>4. pic' \in [Pics -> Registers]
        BY <2>1 DEF IInv, TypeOK
      <4> QED BY <1>0, <4>1, <4>2, <4>3, <4>4, StaysQuiet DEF SameModes, SameServices
    <3> QED BY <2>3, <3>1, <3>2
  <2>5. CASE UpdateMasterIdle
    <3>1. calls' = calls /\ raised' = raised /\ Top' = Top
          /\ pc = "UpdateMaster" /\ pc' # "UpdateSlave"
      BY <2>5 DEF UpdateMasterIdle, Top
    <3> QED BY <1>0, <2>3, <2>5, <3>1, IdleEffect
  <2>6. CASE UpdateMasterPending
    <3> DEFINE irq == GetIRQ(pic, Master)
    <3>1. irq # NoIRQ
      BY <2>6 DEF UpdateMasterPending
    <3>2. calls = <<>> /\ raised = <<>>
      BY <2>3, <2>6, <3>1, PendingEffect
    <3>3. /\ irq \in Lines
          /\ GetIRQ(pic', Master) = NoIRQ /\ irq \in Blocking(pic', Master)
          /\ calls' = Append(calls, [pic |-> Master, irq |-> irq]) /\ raised' = raised
          /\ pc' = "UpdateMaster"
      BY <1>0, <2>3, <2>6, PendingEffect, GetIRQType, <3>1
    <3> HIDE DEF irq
    <3>4. calls' = <<[pic |-> Master, irq |-> irq]>>
      BY <3>2, <3>3
    <3>5. Len(calls') = 1 /\ Top' = [pic |-> Master, irq |-> irq]
      BY <3>4 DEF Top
    <3>6. Top' = CascadeCall => irq = Cascade
      BY <3>5 DEF CascadeCall
    <3>7. raised' = <<>> /\ Len(raised') = 0
      BY <3>2, <3>3
    <3> QED BY <3>3, <3>5, <3>6, <3>7
  <2>7. CASE AcknowledgeSlave
    <3>1. /\ calls # <<>> /\ Top = CascadeCall
          /\ calls' = Append(Callers, [pic |-> Slave, irq |-> GetIRQ(pic, Slave)])
          /\ pc' = "UpdateSlave" /\ pc = "GetCurrentIRQ" /\ raised' = raised
          /\ GetIRQ(pic', Master) = GetIRQ(pic, Master)
          /\ Blocking(pic', Master) = Blocking(pic, Master)
      BY <2>7, AcknowledgeSlaveEffect
    <3>2. Len(calls') = Len(calls)
      <4>1. GetIRQ(pic, Slave) \in Lines
        BY <1>0, <2>7, GetIRQType DEF AcknowledgeSlave
      <4>2. [pic |-> Slave, irq |-> GetIRQ(pic, Slave)] \in Activation
        BY <1>0, <4>1 DEF Activation
      <4> QED BY <3>1, <4>2, CallersFacts, AppendProperties
    <3> QED BY <2>3, <3>1, <3>2
  <2>8. CASE Interrupt
    <3>1. /\ calls # <<>> /\ calls' = Callers
          /\ Len(calls') = Len(calls) - 1 /\ Len(raised') = Len(raised) + 1
          /\ Len(calls) \in Nat /\ Len(raised) \in Nat
          /\ pc' = IF Len(calls) = 1 THEN "Rest" ELSE "GetCurrentIRQ"
      BY <2>8, InterruptEffect
    <3>2. Len(calls) = 1
      BY <1>0, <2>3, <3>1, CallersFacts
    <3>3. calls' = <<>>
      BY <3>1, <3>2, CallersFacts, EmptySeq
    <3> QED BY <2>3, <3>1, <3>2, <3>3
  <2> QED BY <1>3, <2>4, <2>5, <2>6, <2>7, <2>8 DEF Step
<1> QED BY <1>1, <1>2, <1>3 DEF Next

-----------------------------------------------------------------------------
(* The slave's requests at the cascade.                                    *)

\* A request of the slave stays pending when a call is added, or when a call
\* that serves another request returns.
LEMMA PendingKept ==
  ASSUME IInv, Pending,
         \/ /\ Cascade \in pic[Master].IRR => Cascade \in pic'[Master].IRR
            /\ \/ calls' = calls
               \/ calls # <<>> /\ Top # CascadeCall /\ calls' = Callers
         \/ /\ UpdateMasterPending
  PROVE  Pending'
<1>1. CASE Cascade \in pic'[Master].IRR
  BY <1>1 DEF Pending
<1>2. CASE calls' = calls /\ Cascade \notin pic[Master].IRR
  BY <1>2 DEF Pending, CascadeCall
<1>3. CASE calls # <<>> /\ Top # CascadeCall /\ calls' = Callers
           /\ Cascade \notin pic[Master].IRR
  <2>1. PICK i \in 1 .. Len(calls) : calls[i] = CascadeCall
    BY <1>3 DEF Pending
  <2>2. i # Len(calls)
    BY <1>3, <2>1, CallersFacts
  <2>3. i \in 1 .. Len(Callers) /\ Callers[i] = CascadeCall
    BY <1>3, <2>1, <2>2, CallersFacts
  <2> QED BY <1>3, <2>3 DEF Pending, CascadeCall
<1>4. CASE UpdateMasterPending /\ Cascade \notin pic'[Master].IRR
  <2> DEFINE irq == GetIRQ(pic, Master)
             new == [pic |-> Master, irq |-> irq]
  <2>1. /\ pic \in [Pics -> Registers] /\ Master \in Pics
        /\ calls \in Seq(Activation) /\ Len(calls) \in Nat
    BY LenProperties DEF IInv, TypeOK, Pics
  <2>2. irq \in Lines
    BY <1>4, <2>1, GetIRQType DEF UpdateMasterPending
  <2>3. new \in Activation /\ calls' = Append(calls, new)
    BY <1>4, <2>1, <2>2, PendingEffect DEF Activation
  <2>4. /\ Len(calls') = Len(calls) + 1
        /\ \A i \in 1 .. Len(calls) : calls'[i] = calls[i]
        /\ calls'[Len(calls) + 1] = new
    BY <2>1, <2>3, AppendProperties
  <2>5. CASE Cascade \in pic[Master].IRR
    <3>1. irq = Cascade
      BY <1>4, <2>5, PendingEffect
    <3>2. calls'[Len(calls')] = CascadeCall /\ Len(calls') \in 1 .. Len(calls')
      BY <2>1, <2>4, <3>1 DEF CascadeCall
    <3> QED BY <3>2 DEF Pending, CascadeCall
  <2>6. CASE \E i \in 1 .. Len(calls) : calls[i] = CascadeCall
    <3>1. PICK i \in 1 .. Len(calls) : calls[i] = CascadeCall
      BY <2>6
    <3>2. i \in 1 .. Len(calls') /\ calls'[i] = CascadeCall
      BY <2>1, <2>4, <3>1
    <3> QED BY <3>2 DEF Pending, CascadeCall
  <2> QED BY <2>5, <2>6 DEF Pending
<1> QED BY <1>1, <1>2, <1>3, <1>4

LEMMA CascadeHandler ==
  ASSUME Steady, NoPolls, IInv, CascadeInv, Device \/ Guest
  PROVE  CascadeInv'
<1>1. PICK p \in Pics, d \in Registers : Handles(p, d)
  BY EveryHandler
<1>2. /\ pic' \in [Pics -> Registers] /\ pic \in [Pics -> Registers]
      /\ pic'[p] = d /\ \A q \in Pics \ {p} : pic'[q] = pic[q]
      /\ pc = "Rest" /\ calls = <<>> /\ calls' = calls
      /\ Change(p, pic[p], d)
      /\ pc' = Updating(p) \/ (pc' = "Rest" /\ SameRequests(pic[p], d))
      /\ Master \in Pics /\ Slave \in Pics /\ Master # Slave
  BY <1>1, HandlerEffect DEF IInv, TypeOK, Pics, Master, Slave
<1>3. \A q \in Pics : ~ pic'[q].Poll /\ ~ pic'[q].SpecialMask
  BY <1>2 DEF CascadeInv, Change
<1>4. pic'[Slave].InitState # 0 => ~ pic'[Slave].AutoEOI
  BY <1>2 DEF CascadeInv, Change, Cleared, Continued
<1>5. CASE p = Master
  <2>1. pic'[Slave] = pic[Slave] /\ pc' # "UpdateSlave"
    BY <1>2, <1>5 DEF Updating
  <2>2. GetIRQ(pic', Slave) = GetIRQ(pic, Slave)
    BY <1>2, <2>1, SameIRQ
  <2>3. Cascade \in pic'[Master].PreviousIRR =>
          /\ Cascade \in pic[Master].PreviousIRR
          /\ Cascade \in pic[Master].IRR => Cascade \in pic'[Master].IRR
    BY <1>2, <1>5 DEF CascadeInv, Change, Cleared, Continued
  <2>4. Cascade \in pic'[Master].PreviousIRR /\ Pending => Pending'
    BY <1>2, <2>3, PendingKept
  <2> QED BY <1>2, <1>3, <1>4, <2>1, <2>2, <2>3, <2>4, NextIRQ
          DEF CascadeInv, OutputTells
<1>6. CASE p = Slave
  <2>1. pic'[Master] = pic[Master]
    BY <1>2, <1>6
  <2>2. Pending => Pending'
    BY <1>2, <2>1, PendingKept
  <2>3. CASE pc' = "UpdateSlave"
    <3>1. GetIRQ(pic', Slave) # NoIRQ => ~ Cleared(d)
      BY <1>2, <1>6, Offered DEF Cleared
    <3>2. Continued(Slave, pic[Slave], d) /\ ~ d.AutoEOI => ~ pic[Slave].AutoEOI
      BY DEF Continued, CascadeInv
    <3>3. /\ ~ pic'[Slave].AutoEOI /\ GetIRQ(pic', Slave) # NoIRQ
          /\ Cascade \in pic'[Master].PreviousIRR
          => Pending'
      BY <1>2, <1>6, <2>1, <2>2, <3>1, <3>2 DEF CascadeInv, Change
    <3> QED BY <1>2, <1>3, <1>4, <2>3, <3>3, NextIRQ DEF CascadeInv
  <2>4. CASE pc' = "Rest" /\ SameRequests(pic[p], d)
    <3>1. GetIRQ(pic', Slave) = GetIRQ(pic, Slave)
      <4>1. pic'[Slave].SpecialMask = pic[Slave].SpecialMask
        <5>1. /\ pic[Slave].SpecialMask \in BOOLEAN /\ pic'[Slave].SpecialMask \in BOOLEAN
              /\ ~ pic[Slave].SpecialMask /\ ~ pic'[Slave].SpecialMask
          BY <1>2, <1>3 DEF CascadeInv, Registers
        <5> QED BY <5>1, Zenon
      <4>2. SameRequests(pic[Slave], pic'[Slave])
        BY <1>2, <1>6, <2>4
      <4> QED BY <1>2, <4>1, <4>2, SameIRQ DEF SameRequests
    <3>2. pic'[Slave].InterruptOutput = pic[Slave].InterruptOutput
      BY <1>2, <1>6, <2>4 DEF SameRequests
    <3>3. pic[Slave].InterruptOutput /\ ~ d.AutoEOI => ~ pic[Slave].AutoEOI
      BY <1>2, <1>6, <2>4, <3>2 DEF Change, Cleared, Continued, CascadeInv
    <3> QED BY <1>2, <1>3, <1>4, <1>6, <2>1, <2>2, <2>4, <3>1, <3>2, <3>3, NextIRQ
            DEF CascadeInv, OutputTells
  <2> QED BY <1>2, <1>6, <2>3, <2>4 DEF Updating
<1> QED BY <1>5, <1>6 DEF Pics

LEMMA CascadeStep ==
  ASSUME IInv, CascadeInv, Step
  PROVE  CascadeInv'
<1>0. /\ pic \in [Pics -> Registers] /\ Master \in Pics /\ Slave \in Pics
      /\ Master # Slave
  BY DEF IInv, TypeOK, Pics, Master, Slave
<1> USE DEF SameModes
<1>1. CASE UpdateSlave
  <2>1. calls' = calls /\ pc = "UpdateSlave" /\ pc' = "UpdateMaster"
    BY <1>1 DEF UpdateSlave
  <2>2. OutputTells'
    BY <1>0, <1>1, UpdateSlaveEffect, NextIRQ DEF OutputTells
  <2>3. /\ \A p \in Pics : ~ pic'[p].Poll /\ ~ pic'[p].SpecialMask
        /\ pic'[Slave].InitState # 0 => ~ pic'[Slave].AutoEOI
    <3>1. SameModes(pic[Master], pic'[Master]) /\ SameModes(pic[Slave], pic'[Slave])
      BY <1>1, UpdateSlaveEffect
    <3> QED BY <1>0, <3>1 DEF CascadeInv, Pics
  <2>4. Cascade \in pic'[Master].PreviousIRR => pic'[Slave].InterruptOutput
    BY <1>1, UpdateSlaveEffect
  <2>5. ASSUME ~ pic'[Slave].AutoEOI, Cascade \in pic'[Master].PreviousIRR
        PROVE  Pending'
    <3>1. GetIRQ(pic, Slave) # NoIRQ /\ ~ pic[Slave].AutoEOI
          /\ pic[Master].IRR \subseteq pic'[Master].IRR
          /\ (Cascade \in pic[Master].PreviousIRR \/ Cascade \in pic'[Master].IRR)
      BY <1>1, <2>5, UpdateSlaveEffect
    <3>2. CASE Cascade \in pic'[Master].IRR
      BY <3>2 DEF Pending
    <3>3. CASE Cascade \in pic[Master].PreviousIRR
      BY <2>1, <3>1, <3>3, PendingKept DEF CascadeInv
    <3> QED BY <3>1, <3>2, <3>3
  <2> QED BY <2>1, <2>2, <2>3, <2>4, <2>5 DEF CascadeInv
<1>2. CASE UpdateMasterIdle
  <2>1. /\ calls' = calls /\ pc = "UpdateMaster" /\ pc' # "UpdateSlave"
        /\ pic'[Slave] = pic[Slave]
        /\ GetIRQ(pic', Slave) = GetIRQ(pic, Slave)
        /\ pic'[Master].IRR = pic[Master].IRR
        /\ pic'[Master].PreviousIRR = pic[Master].PreviousIRR
        /\ ~ pic'[Master].Poll /\ ~ pic'[Master].SpecialMask
    BY <1>0, <1>2, IdleEffect DEF UpdateMasterIdle, CascadeInv
  <2>2. Pending => Pending'
    BY <2>1, PendingKept
  <2> QED BY <1>0, <2>1, <2>2, NextIRQ DEF CascadeInv, OutputTells, Pics
<1>3. CASE UpdateMasterPending
  <2>1. /\ pc = "UpdateMaster" /\ pc' # "UpdateSlave"
        /\ pic'[Slave] = pic[Slave]
        /\ GetIRQ(pic', Slave) = GetIRQ(pic, Slave)
        /\ pic'[Master].PreviousIRR = pic[Master].PreviousIRR
        /\ ~ pic'[Master].Poll /\ ~ pic'[Master].SpecialMask
    BY <1>0, <1>3, PendingEffect DEF CascadeInv
  <2>2. Pending => Pending'
    BY <1>3, PendingKept
  <2> QED BY <1>0, <2>1, <2>2, NextIRQ DEF CascadeInv, OutputTells, Pics
<1>4. CASE AcknowledgeSlave
  <2>1. /\ pc' = "UpdateSlave" /\ pic'[Master] = pic[Master]
        /\ SameModes(pic[Slave], pic'[Slave])
    BY <1>4, AcknowledgeSlaveEffect
  <2>2. ~ pic'[Slave].AutoEOI => GetIRQ(pic', Slave) = NoIRQ
    BY <1>0, <1>4, <2>1, AcknowledgeSlaveEffect DEF CascadeInv
  <2> QED BY <1>0, <2>1, <2>2, NextIRQ DEF CascadeInv, Pics
<1>5. CASE Interrupt
  <2>1. /\ pic' = pic /\ calls # <<>> /\ calls' = Callers
        /\ pc # "UpdateSlave" /\ pc' # "UpdateSlave"
        /\ Top = CascadeCall => GetIRQ(pic, Slave) = NoIRQ
    BY <1>5, InterruptEffect
  <2>2. Cascade \in pic[Master].PreviousIRR => Top # CascadeCall
    BY <2>1 DEF CascadeInv, OutputTells
  <2>3. Cascade \in pic[Master].PreviousIRR /\ Pending => Pending'
    BY <2>1, <2>2, PendingKept
  <2> QED BY <1>0, <2>1, <2>3, NextIRQ DEF CascadeInv, OutputTells
<1> QED BY <1>1, <1>2, <1>3, <1>4, <1>5 DEF Step

-----------------------------------------------------------------------------
(* The depth of the recursion.                                             *)

\* The program leaves every line edge triggered.
EdgeOnly == \A p \in Pics : ElcrMask[p] = {}

\* The calls in progress and the requests left.
Load == Len(calls) + Cardinality(pic[Master].IRR)

LEMMA RequestsFinite ==
  ASSUME NEW c \in Registers
  PROVE  /\ IsFiniteSet(c.IRR) /\ Cardinality(c.IRR) \in Nat
         /\ Cardinality(c.IRR) <= LineCount
<1>1. /\ IsFiniteSet(Lines)
      /\ Cardinality(Lines) = LineCount
  <2>1. 0 <= LineCount - 1
    BY LineCountAssumption DEF Cascade
  <2> QED BY <2>1, LineCountAssumption, FS_Interval DEF Lines
<1>2. c.IRR \subseteq Lines
  BY DEF Registers
<1>3. IsFiniteSet(c.IRR) /\ Cardinality(c.IRR) <= Cardinality(Lines)
  BY <1>1, <1>2, FS_Subset
<1> QED BY <1>1, <1>3, FS_CardinalityType

\* What the steps of the update do to the load.
LEMMA LoadStep ==
  ASSUME IInv, Step, pic[Master].ELCR = {}
  PROVE  /\ Load \in Nat /\ Load' \in Nat
         /\ ~ UpdateSlave => Load' <= Load
         /\ UpdateSlave =>
              /\ Load' <= Load + 1
              /\ GetIRQ(pic, Slave) = NoIRQ \/ Cascade \in pic[Master].PreviousIRR
                 => Load' = Load
<1>0. /\ pic \in [Pics -> Registers] /\ Master \in Pics /\ Slave \in Pics
      /\ pic' \in [Pics -> Registers]
      /\ calls \in Seq(Activation) /\ calls' \in Seq(Activation)
      /\ Len(calls) \in Nat /\ Len(calls') \in Nat
  BY StepStep, LenProperties DEF IInv, TypeOK, Pics
<1> DEFINE n == Cardinality(pic[Master].IRR)
           m == Cardinality(pic'[Master].IRR)
<1>1. /\ n \in Nat /\ m \in Nat
      /\ IsFiniteSet(pic[Master].IRR) /\ IsFiniteSet(pic'[Master].IRR)
  BY <1>0, RequestsFinite
<1>2. Load \in Nat /\ Load' \in Nat
  BY <1>0, <1>1 DEF Load
<1>3. CASE UpdateSlave
  <2>1. calls' = calls
    BY <1>3 DEF UpdateSlave
  <2>2. /\ pic'[Master].IRR \subseteq pic[Master].IRR \cup {Cascade}
        /\ GetIRQ(pic, Slave) = NoIRQ \/ Cascade \in pic[Master].PreviousIRR =>
             pic'[Master].IRR = pic[Master].IRR
    BY <1>3, UpdateSlaveEffect
  <2>3. m <= n + 1
    <3>1. /\ IsFiniteSet(pic[Master].IRR \cup {Cascade})
          /\ Cardinality(pic[Master].IRR \cup {Cascade}) =
               IF Cascade \in pic[Master].IRR THEN n ELSE n + 1
      BY <1>1, FS_AddElement
    <3>2. m <= Cardinality(pic[Master].IRR \cup {Cascade})
      BY <2>2, <3>1, FS_Subset
    <3> QED BY <1>1, <3>1, <3>2
  <2>4. ~ (pc = "UpdateMaster") /\ ~ (pc = "GetCurrentIRQ")
    BY <1>3 DEF UpdateSlave
  <2> HIDE DEF n, m
  <2> QED BY <1>0, <1>1, <1>2, <1>3, <2>1, <2>2, <2>3 DEF Load, n, m
<1>4. ASSUME ~ UpdateSlave PROVE Load' <= Load
  <2>1. CASE UpdateMasterIdle
    <3>1. calls' = calls /\ pic'[Master].IRR = pic[Master].IRR
      BY <2>1, IdleEffect DEF UpdateMasterIdle
    <3> QED BY <1>2, <3>1 DEF Load
  <2>2. CASE UpdateMasterPending
    <3> DEFINE irq == GetIRQ(pic, Master)
    <3>1. /\ irq \in pic[Master].IRR
          /\ pic'[Master].IRR = pic[Master].IRR \ {irq}
          /\ calls' = Append(calls, [pic |-> Master, irq |-> irq])
      BY <2>2, PendingEffect
    <3>2. irq \in Lines
      BY <1>0, <3>1 DEF Registers
    <3>3. [pic |-> Master, irq |-> irq] \in Activation
      BY <1>0, <3>2 DEF Activation
    <3>4. Len(calls') = Len(calls) + 1
      BY <1>0, <3>1, <3>3, AppendProperties
    <3>5. m = n - 1
      BY <1>1, <3>1, FS_RemoveElement
    <3> HIDE DEF n, m
    <3> QED BY <1>0, <1>1, <3>4, <3>5 DEF Load, n, m
  <2>3. CASE AcknowledgeSlave
    <3>1. /\ pic'[Master] = pic[Master] /\ calls # <<>>
          /\ calls' = Append(Callers, [pic |-> Slave, irq |-> GetIRQ(pic, Slave)])
      BY <2>3, AcknowledgeSlaveEffect
    <3>2. GetIRQ(pic, Slave) \in Lines
      BY <1>0, <2>3, GetIRQType DEF AcknowledgeSlave
    <3>3. [pic |-> Slave, irq |-> GetIRQ(pic, Slave)] \in Activation
      BY <1>0, <3>2 DEF Activation
    <3>4. Len(calls') = Len(calls)
      BY <3>1, <3>3, CallersFacts, AppendProperties
    <3> QED BY <1>2, <3>1, <3>4 DEF Load
  <2>4. CASE Interrupt
    <3>1. pic' = pic /\ Len(calls') = Len(calls) - 1
      BY <2>4, InterruptEffect
    <3> QED BY <1>0, <1>1, <3>1 DEF Load
  <2> QED BY <1>4, <2>1, <2>2, <2>3, <2>4 DEF Step
<1> QED BY <1>2, <1>3, <1>4

\* A handler starts with no call in progress.
LEMMA LoadHandler ==
  ASSUME EdgeOnly, IInv, Device \/ Guest, \A p \in Pics : pic[p].ELCR = {}
  PROVE  /\ calls' = <<>> /\ Load' \in Nat /\ Load' <= LineCount
         /\ \A p \in Pics : pic'[p].ELCR = {}
<1>1. PICK p \in Pics, d \in Registers : Handles(p, d)
  BY EveryHandler
<1>2. /\ pic' \in [Pics -> Registers] /\ calls' = <<>>
      /\ pic'[p] = d /\ \A q \in Pics \ {p} : pic'[q] = pic[q]
      /\ Change(p, pic[p], d)
  BY <1>1, HandlerEffect
<1>3. \A q \in Pics : pic'[q].ELCR = {}
  BY <1>2 DEF Change, EdgeOnly
<1>4. Len(calls') = 0 /\ pic'[Master] \in Registers
  BY <1>2 DEF Pics
<1>5. /\ Cardinality(pic'[Master].IRR) \in Nat
      /\ Cardinality(pic'[Master].IRR) <= LineCount
  BY <1>4, RequestsFinite
<1> QED BY <1>2, <1>3, <1>4, <1>5 DEF Load

LEMMA DepthHandler ==
  ASSUME EdgeOnly, Steady, IInv, DepthInv, Device \/ Guest
  PROVE  DepthInv'
<1>1. PICK p \in Pics, d \in Registers : Handles(p, d)
  BY EveryHandler
<1>2. /\ pic' \in [Pics -> Registers] /\ pic \in [Pics -> Registers]
      /\ pic'[p] = d /\ \A q \in Pics \ {p} : pic'[q] = pic[q]
      /\ pc = "Rest" /\ calls = <<>> /\ calls' = <<>>
      /\ Change(p, pic[p], d)
      /\ pc' = Updating(p) \/ (pc' = "Rest" /\ SameRequests(pic[p], d))
      /\ Master \in Pics /\ Slave \in Pics /\ Master # Slave
  BY <1>1, HandlerEffect DEF IInv, TypeOK, Pics, Master, Slave
<1>3. /\ Len(calls') + Cardinality(pic'[Master].IRR) <= LineCount
      /\ \A q \in Pics : pic'[q].ELCR = {} /\ ~ pic'[q].SpecialMask
  <2>1. \A q \in Pics : pic'[q].ELCR = {}
    BY LoadHandler DEF DepthInv
  <2>2. \A q \in Pics : ~ pic'[q].SpecialMask
    BY <1>2 DEF DepthInv, Change
  <2> QED BY <2>1, <2>2, LoadHandler DEF DepthInv, Load
<1>4. Pending => Cascade \in pic[Master].IRR
  BY <1>2 DEF Pending
<1>5. Pending' => Cascade \in pic'[Master].IRR
  BY <1>2 DEF Pending
<1>6. CASE p = Master
  <2>1. pic'[Slave] = pic[Slave] /\ pc' # "UpdateSlave"
    BY <1>2, <1>6 DEF Updating
  <2>2. GetIRQ(pic', Slave) = GetIRQ(pic, Slave)
    BY <1>2, <2>1, SameIRQ
  <2>3. Cascade \in pic'[Master].IRR =>
          /\ Cascade \in pic[Master].IRR
          /\ Cascade \in pic'[Master].PreviousIRR <=> Cascade \in pic[Master].PreviousIRR
    BY <1>2, <1>6 DEF Change, Cleared, Continued
  <2>4. OutputTells'
    BY <1>2, <2>1, <2>2, NextIRQ DEF DepthInv, OutputTells
  <2>5. /\ pic'[Slave].InterruptOutput
        /\ Cascade \notin pic'[Master].PreviousIRR
        => ~ Pending'
    BY <1>2, <1>5, <2>1, <2>3 DEF DepthInv, Pending
  <2> QED BY <1>2, <1>3, <2>1, <2>4, <2>5 DEF DepthInv
<1>7. CASE p = Slave
  <2>1. pic'[Master] = pic[Master]
    BY <1>2, <1>7
  <2>2. CASE pc' = "UpdateSlave"
    BY <1>2, <1>3, <2>2 DEF DepthInv
  <2>3. CASE pc' = "Rest" /\ SameRequests(pic[p], d)
    <3>1. GetIRQ(pic', Slave) = GetIRQ(pic, Slave)
      <4>1. pic'[Slave].SpecialMask = pic[Slave].SpecialMask
        <5>1. /\ pic[Slave].SpecialMask \in BOOLEAN /\ pic'[Slave].SpecialMask \in BOOLEAN
              /\ ~ pic[Slave].SpecialMask /\ ~ pic'[Slave].SpecialMask
          BY <1>2, <1>3 DEF DepthInv, Registers
        <5> QED BY <5>1, Zenon
      <4>2. SameRequests(pic[Slave], pic'[Slave])
        BY <1>2, <1>7, <2>3
      <4> QED BY <1>2, <4>1, <4>2, SameIRQ DEF SameRequests
    <3>2. pic'[Slave].InterruptOutput = pic[Slave].InterruptOutput
      BY <1>2, <1>7, <2>3 DEF SameRequests
    <3>3. OutputTells'
      BY <1>2, <3>1, <3>2, NextIRQ DEF DepthInv, OutputTells
    <3>4. Pending' => Pending
      BY <1>5, <2>1 DEF Pending
    <3> QED BY <1>2, <1>3, <2>1, <2>3, <3>2, <3>3, <3>4 DEF DepthInv
  <2> QED BY <1>2, <1>7, <2>2, <2>3 DEF Updating
<1> QED BY <1>6, <1>7 DEF Pics

\* No step but an update of the slave makes a request of the slave pending.
LEMMA PendingOld ==
  ASSUME IInv, Pending',
         pic'[Master].IRR \subseteq pic[Master].IRR,
         calls' = calls \/ (calls # <<>> /\ calls' = Callers) \/ UpdateMasterPending
  PROVE  Pending
<1>1. CASE Cascade \in pic'[Master].IRR
  BY <1>1 DEF Pending
<1>2. CASE Cascade \notin pic'[Master].IRR
  <2>1. PICK i \in 1 .. Len(calls') : calls'[i] = CascadeCall
    BY <1>2 DEF Pending, CascadeCall
  <2>2. CASE calls' = calls
    BY <2>1, <2>2 DEF Pending
  <2>3. CASE calls # <<>> /\ calls' = Callers
    <3>1. i \in 1 .. Len(calls) /\ calls[i] = CascadeCall
      BY <2>1, <2>3, CallersFacts
    <3> QED BY <3>1 DEF Pending
  <2>4. CASE UpdateMasterPending
    <3> DEFINE irq == GetIRQ(pic, Master)
               new == [pic |-> Master, irq |-> irq]
    <3>1. /\ irq \in pic[Master].IRR /\ calls' = Append(calls, new)
      BY <2>4, PendingEffect
    <3>2. /\ pic \in [Pics -> Registers] /\ Master \in Pics
          /\ calls \in Seq(Activation) /\ Len(calls) \in Nat
      BY LenProperties DEF IInv, TypeOK, Pics
    <3>3. new \in Activation
      BY <3>1, <3>2 DEF Activation, Registers
    <3>4. /\ Len(calls') = Len(calls) + 1
          /\ \A j \in 1 .. Len(calls) : calls'[j] = calls[j]
          /\ calls'[Len(calls) + 1] = new
      BY <3>1, <3>2, <3>3, AppendProperties
    <3>5. CASE i = Len(calls) + 1
      <4>1. new = CascadeCall
        BY <2>1, <3>4, <3>5
      <4>2. irq = Cascade
        BY <4>1 DEF CascadeCall
      <4> QED BY <3>1, <4>2 DEF Pending
    <3>6. CASE i # Len(calls) + 1
      <4>1. i \in 1 .. Len(calls) /\ calls[i] = CascadeCall
        BY <2>1, <3>2, <3>4, <3>6
      <4> QED BY <4>1 DEF Pending
    <3> QED BY <3>5, <3>6
  <2> QED BY <2>2, <2>3, <2>4
<1> QED BY <1>1, <1>2

LEMMA DepthStep ==
  ASSUME IInv, DepthInv, Step
  PROVE  DepthInv'
<1>0. /\ pic \in [Pics -> Registers] /\ Master \in Pics /\ Slave \in Pics
      /\ Master # Slave
  BY DEF IInv, TypeOK, Pics, Master, Slave
<1>1. /\ SameModes(pic[Master], pic'[Master])
      /\ SameModes(pic[Slave], pic'[Slave])
  <2>1. \A c : SameModes(c, c)
    BY DEF SameModes
  <2> QED BY <2>1, UpdateSlaveEffect, IdleEffect, PendingEffect,
             AcknowledgeSlaveEffect, InterruptEffect DEF Step
<1>2. \A p \in Pics : pic'[p].ELCR = {} /\ ~ pic'[p].SpecialMask
  BY <1>0, <1>1 DEF DepthInv, SameModes, Pics
<1>3. pic[Master].ELCR = {}
  BY <1>0 DEF DepthInv
<1>4. /\ Load \in Nat /\ Load' \in Nat /\ Load <= LineCount
      /\ ~ UpdateSlave => Load' <= Load
      /\ UpdateSlave /\
         (GetIRQ(pic, Slave) = NoIRQ \/ Cascade \in pic[Master].PreviousIRR)
         => Load' = Load
  BY <1>3, LoadStep DEF DepthInv, Load
<1>5. CASE UpdateSlave
  <2>1. calls' = calls /\ pc = "UpdateSlave" /\ pc' = "UpdateMaster"
    BY <1>5 DEF UpdateSlave
  <2>2. OutputTells'
    BY <1>0, <1>5, UpdateSlaveEffect, NextIRQ DEF OutputTells
  <2>3. pic'[Slave].InterruptOutput => Cascade \in pic'[Master].PreviousIRR
    BY <1>5, UpdateSlaveEffect
  <2>4. Load' <= LineCount
    <3>1. CASE calls = <<>>
      <4>1. pic'[Master] \in Registers /\ Len(calls') = 0
        BY <1>0, <2>1, <3>1, StepStep DEF IInv, TypeOK
      <4>2. /\ Cardinality(pic'[Master].IRR) \in Nat
            /\ Cardinality(pic'[Master].IRR) <= LineCount
        BY <4>1, RequestsFinite
      <4> QED BY <4>1, <4>2 DEF Load
    <3>2. CASE calls # <<>>
      BY <1>4, <1>5, <2>1, <3>2 DEF DepthInv
    <3> QED BY <3>1, <3>2
  <2> QED BY <1>2, <2>1, <2>2, <2>3, <2>4 DEF DepthInv, Load
<1>6. CASE ~ UpdateSlave
  <2>1. Load' <= LineCount
    BY <1>4, <1>6, LineCountAssumption
  <2>2. CASE UpdateMasterIdle \/ UpdateMasterPending \/ Interrupt
    <3>1. /\ pc # "UpdateSlave" /\ pc' # "UpdateSlave"
          /\ pic'[Slave] = pic[Slave]
          /\ GetIRQ(pic', Slave) = GetIRQ(pic, Slave)
          /\ pic'[Master].PreviousIRR = pic[Master].PreviousIRR
          /\ pic'[Master].IRR \subseteq pic[Master].IRR
          /\ calls' = calls \/ (calls # <<>> /\ calls' = Callers) \/ UpdateMasterPending
      BY <1>0, <2>2, IdleEffect, PendingEffect, InterruptEffect DEF UpdateMasterIdle
    <3>2. OutputTells'
      BY <1>0, <3>1, NextIRQ DEF DepthInv, OutputTells
    <3>3. Pending' => Pending
      BY <3>1, PendingOld
    <3> QED BY <1>2, <2>1, <3>1, <3>2, <3>3 DEF DepthInv, Load
  <2>3. CASE AcknowledgeSlave
    <3>1. /\ pc = "GetCurrentIRQ" /\ pc' = "UpdateSlave" /\ pic'[Master] = pic[Master]
          /\ calls # <<>> /\ Top = CascadeCall /\ GetIRQ(pic, Slave) # NoIRQ
      BY <2>3, AcknowledgeSlaveEffect
    <3>2. Pending
      <4>1. Len(calls) \in 1 .. Len(calls) /\ calls[Len(calls)] = CascadeCall
        BY <3>1, CallersFacts
      <4> QED BY <4>1 DEF Pending
    <3>3. Cascade \in pic'[Master].PreviousIRR
      BY <3>1, <3>2 DEF DepthInv, OutputTells
    <3> QED BY <1>2, <2>1, <3>1, <3>3 DEF DepthInv, Load
  <2> QED BY <1>6, <2>2, <2>3 DEF Step
<1> QED BY <1>5, <1>6

LEMMA LooseDepthStep ==
  ASSUME EdgeOnly, IInv, LooseDepthInv, Device \/ Guest \/ Step
  PROVE  LooseDepthInv'
<1>0. /\ pic \in [Pics -> Registers] /\ Master \in Pics /\ Slave \in Pics
      /\ Master # Slave
  BY DEF IInv, TypeOK, Pics, Master, Slave
<1>1. CASE Device \/ Guest
  BY <1>1, LoadHandler DEF LooseDepthInv
<1>2. CASE Step
  <2>1. /\ SameModes(pic[Master], pic'[Master])
        /\ SameModes(pic[Slave], pic'[Slave])
    <3>1. \A c : SameModes(c, c)
      BY DEF SameModes
    <3> QED BY <1>2, <3>1, UpdateSlaveEffect, IdleEffect, PendingEffect,
               AcknowledgeSlaveEffect, InterruptEffect DEF Step
  <2>2. \A p \in Pics : pic'[p].ELCR = {}
    BY <1>0, <2>1 DEF LooseDepthInv, SameModes, Pics
  <2> DEFINE lowered == Cascade \in pic[Master].PreviousIRR \/ GetIRQ(pic, Slave) = NoIRQ
             loweredNext == Cascade \in pic'[Master].PreviousIRR
                              \/ GetIRQ(pic', Slave) = NoIRQ
  <2>3. calls # <<>> => Load <= (IF lowered THEN LineCount + 1 ELSE LineCount)
    BY DEF LooseDepthInv, Load
  <2>4. /\ Load \in Nat /\ Load' \in Nat
        /\ ~ UpdateSlave => Load' <= Load
        /\ UpdateSlave => Load' <= Load + 1 /\ (lowered => Load' = Load)
    BY <1>0, <1>2, LoadStep DEF LooseDepthInv
  <2>5. ASSUME calls' # <<>>
        PROVE  Load' <= (IF loweredNext THEN LineCount + 1 ELSE LineCount)
    <3>1. CASE UpdateSlave
      <4>1. calls' = calls /\ loweredNext
        BY <1>0, <3>1, UpdateSlaveEffect DEF UpdateSlave
      <4> HIDE DEF lowered, loweredNext
      <4> QED BY <2>3, <2>4, <2>5, <3>1, <4>1, LineCountAssumption
    <3>2. CASE ~ UpdateSlave
      <4>1. lowered => loweredNext
        BY <1>0, <1>2, <3>2, IdleEffect, PendingEffect, AcknowledgeSlaveEffect,
           InterruptEffect DEF Step
      <4>2. CASE calls # <<>>
        <5> HIDE DEF lowered, loweredNext
        <5> QED BY <2>3, <2>4, <3>2, <4>1, <4>2, LineCountAssumption
      <4>3. CASE calls = <<>>
        <5>1. Len(calls) = 0 /\ pic[Master] \in Registers
          BY <1>0, <4>3
        <5>2. Load <= LineCount
          BY <5>1, RequestsFinite DEF Load
        <5> HIDE DEF lowered, loweredNext
        <5> QED BY <2>4, <3>2, <5>2, LineCountAssumption
      <4> QED BY <4>2, <4>3
    <3> QED BY <3>1, <3>2
  <2> QED BY <1>0, <2>2, <2>5, NextIRQ DEF LooseDepthInv, Load
<1> QED BY <1>1, <1>2

-----------------------------------------------------------------------------
(* The theorems.                                                           *)

LEMMA Initially == Init => IInv
<1> SUFFICES ASSUME Init PROVE IInv
  OBVIOUS
<1> DEFINE c == ResetRegisters([ELCR |-> {}])
<1>1. c \in Registers /\ c.IRR = {} /\ c.IMR = {} /\ c.ISR = {} /\ ~ c.InterruptOutput
  <2>1. {} \in SUBSET Lines /\ 0 \in Lines
    BY LineCountAssumption DEF Lines, Cascade
  <2>2. [ELCR |-> {}].ELCR = {}
    OBVIOUS
  <2> QED BY <2>1, <2>2 DEF ResetRegisters, Registers
<1>2. GetPriority(c, {}) = LineCount
  BY DEF GetPriority
<1>3. ~ Deliverable(c)
  BY <1>1, <1>2, LineCountAssumption DEF Deliverable
<1>4. pic = [p \in Pics |-> c] /\ pic[Master] = c
  BY DEF Init, Pics
<1> QED BY <1>1, <1>3, <1>4 DEF Init, IInv, TypeOK, CallsMatch, Settled

LEMMA Inductive == IInv /\ [Next]_vars => IInv'
<1>1. IInv /\ UNCHANGED vars => IInv'
  BY DEF vars, IInv, TypeOK, CallsMatch, Settled, Deliverable, GetPriority
<1> QED BY <1>1, GuestStep, StepStep DEF Next

LEMMA Invariance == Spec => []IInv
BY Initially, Inductive, PTL DEF Spec

\* The registers and the suspended calls stay well formed.
THEOREM TypeCorrect == Spec => []TypeOK
<1>1. IInv => TypeOK
  BY DEF IInv
<1> QED BY <1>1, Invariance, PTL

\* No handler returns leaving a deliverable request of the master behind, or its
\* output high: whatever the devices and the guest do, on any number of lines.
THEOREM NothingLeftBehind == Spec => []MasterDrained
<1>1. IInv => MasterDrained
  BY DEF IInv, Settled, MasterDrained
<1> QED BY <1>1, Invariance, PTL

\* Unless a controller ends services by itself, a handler hands over at most one
\* vector: whatever the devices request and whatever masks, priorities and words
\* the guest writes, the first request acknowledged holds back the others.
THEOREM OneVector == Spec => []OneVectorPerHandler
<1>1. Init => SingleInv
  BY DEF Init, SingleInv
<1>2. IInv /\ SingleInv /\ [Next]_vars => SingleInv'
  BY SingleStep
<1>3. IInv /\ SingleInv => OneVectorPerHandler
  <2>1. IInv => Len(calls) \in Nat /\ Len(raised) \in Nat
    BY LenProperties DEF IInv, TypeOK
  <2> QED BY <2>1 DEF SingleInv, OneVectorPerHandler, Pics
<1> QED BY <1>1, <1>2, <1>3, Invariance, PTL DEF Spec

\* At the start no line is requested.
LEMMA QuietStart ==
  ASSUME Init
  PROVE  /\ \A p \in Pics : /\ pic[p].IRR = {} /\ pic[p].PreviousIRR = {}
                            /\ pic[p].ELCR = {} /\ ~ pic[p].SpecialMask
                            /\ ~ pic[p].Poll /\ pic[p].InitState = 0
                            /\ ~ pic[p].InterruptOutput
                            /\ GetIRQ(pic, p) = NoIRQ
         /\ pc = "Rest" /\ calls = <<>> /\ Slave \in Pics /\ Master \in Pics
<1>1. \A p \in Pics : /\ pic[p].IRR = {} /\ pic[p].PreviousIRR = {}
                      /\ pic[p].ELCR = {} /\ ~ pic[p].SpecialMask
                      /\ ~ pic[p].Poll /\ pic[p].InitState = 0
                      /\ ~ pic[p].InterruptOutput
  BY DEF Init, ResetRegisters
<1>2. pic \in [Pics -> Registers]
  BY Initially DEF IInv, TypeOK
<1>3. \A p \in Pics : GetIRQ(pic, p) = NoIRQ
  BY <1>1, <1>2, Offered
<1> QED BY <1>1, <1>3 DEF Init, Pics

\* While the guest neither polls nor changes the special mask, a slave that does
\* not end its services by itself has its request at the master as long as its
\* output is high: the edge of the cascade line is not used up.
THEOREM CascadeKept ==
  ASSUME Steady, NoPolls
  PROVE  Spec => []CascadeNotLost
<1>1. Init => CascadeInv
  BY QuietStart DEF CascadeInv, OutputTells
<1>2. IInv /\ CascadeInv /\ [Next]_vars => CascadeInv'
  <2>1. IInv /\ CascadeInv /\ UNCHANGED vars => CascadeInv'
    <3> SUFFICES ASSUME IInv, CascadeInv, UNCHANGED vars PROVE CascadeInv'
      OBVIOUS
    <3>1. pic' = pic /\ pc' = pc /\ calls' = calls /\ Master \in Pics /\ Slave \in Pics
      BY DEF vars, Pics
    <3>2. (OutputTells' <=> OutputTells) /\ (Pending' <=> Pending)
      BY <3>1, NextIRQ DEF OutputTells, Pending, CascadeCall
    <3> QED BY <3>1, <3>2, NextIRQ DEF CascadeInv
  <2> QED BY <2>1, CascadeHandler, CascadeStep DEF Next
<1>3. IInv /\ CascadeInv => CascadeNotLost
  BY DEF IInv, CallsMatch, CascadeInv, Pending, CascadeNotLost, SlaveCascaded
<1> QED BY <1>1, <1>2, <1>3, Invariance, PTL DEF Spec

\* With edge-triggered lines, as the program leaves them, and a guest that leaves
\* the special mask alone, the recursion is never deeper than the master has lines.
THEOREM RecursionAtMostLines ==
  ASSUME EdgeOnly, Steady
  PROVE  Spec => []RecursionBounded
<1>1. Init => DepthInv
  <2> SUFFICES ASSUME Init PROVE DepthInv
    OBVIOUS
  <2>1. pic[Master] \in Registers /\ Len(calls) = 0
    BY Initially, QuietStart DEF IInv, TypeOK
  <2>2. Cardinality(pic[Master].IRR) \in Nat /\ Cardinality(pic[Master].IRR) <= LineCount
    BY <2>1, RequestsFinite
  <2>3. ~ Pending
    BY QuietStart DEF Pending
  <2> QED BY <2>1, <2>2, <2>3, QuietStart DEF DepthInv, OutputTells
<1>2. IInv /\ DepthInv /\ [Next]_vars => DepthInv'
  <2>1. IInv /\ DepthInv /\ UNCHANGED vars => DepthInv'
    <3> SUFFICES ASSUME IInv, DepthInv, UNCHANGED vars PROVE DepthInv'
      OBVIOUS
    <3>1. pic' = pic /\ pc' = pc /\ calls' = calls /\ Master \in Pics /\ Slave \in Pics
      BY DEF vars, Pics
    <3>2. (OutputTells' <=> OutputTells) /\ (Pending' <=> Pending)
      BY <3>1, NextIRQ DEF OutputTells, Pending, CascadeCall
    <3> QED BY <3>1, <3>2, NextIRQ DEF DepthInv
  <2> QED BY <2>1, DepthHandler, DepthStep DEF Next
<1>3. IInv /\ DepthInv => RecursionBounded
  <2> SUFFICES ASSUME IInv, DepthInv PROVE Len(calls) <= LineCount
    BY DEF RecursionBounded
  <2>1. Len(calls) \in Nat /\ pic[Master] \in Registers
    BY LenProperties DEF IInv, TypeOK, Pics
  <2>2. Cardinality(pic[Master].IRR) \in Nat
    BY <2>1, RequestsFinite
  <2> QED BY <2>1, <2>2, LineCountAssumption DEF DepthInv
<1> QED BY <1>1, <1>2, <1>3, Invariance, PTL DEF Spec

\* Whatever the guest does with the special mask, it is at most one call deeper.
THEOREM RecursionAtMostOneMore ==
  ASSUME EdgeOnly
  PROVE  Spec => [](Len(calls) <= LineCount + 1)
<1>1. Init => LooseDepthInv
  BY QuietStart DEF LooseDepthInv
<1>2. IInv /\ LooseDepthInv /\ [Next]_vars => LooseDepthInv'
  <2>1. IInv /\ LooseDepthInv /\ UNCHANGED vars => LooseDepthInv'
    <3> SUFFICES ASSUME IInv, LooseDepthInv, UNCHANGED vars PROVE LooseDepthInv'
      OBVIOUS
    <3>1. pic' = pic /\ calls' = calls /\ Slave \in Pics
      BY DEF vars, Pics
    <3> QED BY <3>1, NextIRQ DEF LooseDepthInv
  <2> QED BY <2>1, LooseDepthStep DEF Next
<1>3. IInv /\ LooseDepthInv => Len(calls) <= LineCount + 1
  <2> SUFFICES ASSUME IInv, LooseDepthInv PROVE Len(calls) <= LineCount + 1
    OBVIOUS
  <2>1. Len(calls) \in Nat /\ pic[Master] \in Registers
    BY LenProperties DEF IInv, TypeOK, Pics
  <2>2. Cardinality(pic[Master].IRR) \in Nat
    BY <2>1, RequestsFinite
  <2>3. CASE calls = <<>>
    BY <2>3, LineCountAssumption
  <2>4. CASE calls # <<>>
    <3>1. Len(calls) + Cardinality(pic[Master].IRR) <= LineCount + 1
      BY <2>1, <2>2, <2>4, LineCountAssumption DEF LooseDepthInv
    <3> QED BY <2>1, <2>2, <3>1, LineCountAssumption
  <2> QED BY <2>3, <2>4
<1> QED BY <1>1, <1>2, <1>3, Invariance, PTL DEF Spec

=============================================================================
