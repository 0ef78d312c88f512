------------------------- MODULE InterruptPathProofs -------------------------
(***************************************************************************)
(* The interrupt path serves every transaction of the management bus at    *)
(* most once, has at most one vector on its way, and its lines agree:      *)
(* whatever the guest masks, prefetches and acknowledges.                  *)
(***************************************************************************)
EXTENDS InterruptPath, SequenceTheorems, TLAPS

Line == LineAt("slave")

-----------------------------------------------------------------------------
(* Sequences of at most one element.                                       *)

LEMMA OneElement ==
  ASSUME NEW x
  PROVE  /\ <<x>> # <<>> /\ <<x>>[1] = x /\ Len(<<x>>) = 1
         /\ Append(<<>>, x) = <<x>>
         /\ Head(<<x>>) = x /\ Tail(<<x>>) = <<>>
         /\ SubSeq(<<x>>, 1, Len(<<x>>) - 1) = <<>>
<1>1. <<x>> # <<>> /\ <<x>>[1] = x /\ Len(<<x>>) = 1
  OBVIOUS
<1>2. Append(<<>>, x) = <<x>>
  OBVIOUS
<1>3. Head(<<x>>) = x
  OBVIOUS
<1>4. Tail(<<x>>) = <<>>
  OBVIOUS
<1>5. SubSeq(<<x>>, 1, Len(<<x>>) - 1) = <<>>
  OBVIOUS
<1> QED BY <1>1, <1>2, <1>3, <1>4, <1>5

-----------------------------------------------------------------------------
(* One controller.                                                         *)

\* A controller as the guest has programmed it: edge-triggered lines, fixed
\* priorities, no special mode.
Plain(c) ==
  /\ c \in Pic!Registers
  /\ c.ELCR = {} /\ c.PriorityAdd = 0
  /\ ~ c.SpecialMask /\ ~ c.AutoEOI /\ ~ c.SFNM

LEMMA LineIs == Line = 3 /\ Pic!Cascade = 2 /\ Pic!NoIRQ = -1 /\ Pic!Lines = 0 .. 7
BY DEF Line, LineAt, SMB_IRQ, Pic!Cascade, Pic!NoIRQ, Pic!Lines

LEMMA PriorityIs ==
  ASSUME NEW c, c.PriorityAdd = 0, NEW l \in 0 .. 7, NEW mask \in {{}, {l}}
  PROVE  Pic!GetPriority(c, mask) = IF mask = {} THEN 8 ELSE l
<1>1. CASE mask = {}
  BY <1>1 DEF Pic!GetPriority
<1>2. CASE mask # {}
  <2>1. \A n \in Pic!Lines : Pic!Wrap(n + c.PriorityAdd) \in mask <=> n = l
    BY <1>2, LineIs DEF Pic!Wrap
  <2>2. Pic!GetPriority(c, mask) =
          CHOOSE n \in Pic!Lines :
            /\ Pic!Wrap(n + c.PriorityAdd) \in mask
            /\ \A m \in Pic!Lines : Pic!Wrap(m + c.PriorityAdd) \in mask => n <= m
    BY <1>2 DEF Pic!GetPriority
  <2>3. l \in Pic!Lines /\ \A m \in Pic!Lines : Pic!Wrap(m + c.PriorityAdd) \in mask => l <= m
    BY <2>1, LineIs
  <2> QED BY <1>2, <2>1, <2>2, <2>3
<1> QED BY <1>1, <1>2

\* A controller with one line in use has a request to deliver if it is waiting,
\* not masked and not in service.
LEMMA RequestIs ==
  ASSUME NEW p \in Pic!Pics, Plain(pic[p]),
         pic[p].IRR \subseteq {LineAt(p)}, pic[p].ISR \subseteq {LineAt(p)}
  PROVE  Pic!GetIRQ(pic, p) =
           IF LineAt(p) \in pic[p].IRR \ pic[p].IMR /\ LineAt(p) \notin pic[p].ISR
           THEN LineAt(p) ELSE Pic!NoIRQ
<1> DEFINE l == LineAt(p)
           waiting == pic[p].IRR \ pic[p].IMR
<1>1. l \in 0 .. 7 /\ l \in Nat
  BY DEF LineAt, Pic!Pics, Pic!Cascade, SMB_IRQ, Pic!Master, Pic!Slave
<1>2. Pic!Blocking(pic, p) = pic[p].ISR
  BY DEF Pic!Blocking, Plain
<1> HIDE DEF l
<1>3. waiting \in {{}, {l}} /\ pic[p].ISR \in {{}, {l}}
  BY DEF l
<1>4. Pic!GetPriority(pic[p], waiting) = IF waiting = {} THEN 8 ELSE l
  BY <1>1, <1>3, PriorityIs DEF Plain
<1>5. Pic!GetPriority(pic[p], pic[p].ISR) = IF pic[p].ISR = {} THEN 8 ELSE l
  BY <1>1, <1>3, PriorityIs DEF Plain
<1>6. Pic!Wrap(l + pic[p].PriorityAdd) = l
  BY <1>1 DEF Pic!Wrap, Plain
<1>7. Pic!GetIRQ(pic, p) =
        IF Pic!GetPriority(pic[p], waiting) < Pic!GetPriority(pic[p], pic[p].ISR)
        THEN Pic!Wrap(Pic!GetPriority(pic[p], waiting) + pic[p].PriorityAdd) ELSE Pic!NoIRQ
  BY <1>2 DEF Pic!GetIRQ
<1> HIDE DEF waiting
<1>8. waiting = {} <=> l \notin waiting
  BY <1>3
<1> QED BY <1>1, <1>3, <1>4, <1>5, <1>6, <1>7, <1>8 DEF l, waiting

Raised(c, i)  == Pic!SetIRQ(c, i, TRUE)
Lowered(c, i) == Pic!SetIRQ(c, i, FALSE)

\* The level of a line is remembered, and a rise of it is a request.
LEMMA LevelRaised ==
  ASSUME NEW c, Plain(c), NEW i \in 0 .. 7, NEW d, d = Raised(c, i)
  PROVE  /\ Plain(d)
         /\ d.PreviousIRR = c.PreviousIRR \cup {i}
         /\ i \notin c.PreviousIRR => d.IRR = c.IRR \cup {i}
         /\ i \in c.PreviousIRR => d.IRR = c.IRR
         /\ d.ISR = c.ISR /\ d.IMR = c.IMR /\ d.Base = c.Base
         /\ d.InterruptOutput = c.InterruptOutput
<1>1. i \in Pic!Lines
  BY LineIs
<1> QED BY <1>1 DEF Plain, Raised, Pic!SetIRQ, Pic!Registers

LEMMA LevelLowered ==
  ASSUME NEW c, Plain(c), NEW i \in 0 .. 7, NEW d, d = Lowered(c, i)
  PROVE  /\ Plain(d)
         /\ d.PreviousIRR = c.PreviousIRR \ {i}
         /\ d.IRR = c.IRR
         /\ d.ISR = c.ISR /\ d.IMR = c.IMR /\ d.Base = c.Base
         /\ d.InterruptOutput = c.InterruptOutput
<1>1. i \in Pic!Lines
  BY LineIs
<1> QED BY <1>1 DEF Plain, Lowered, Pic!SetIRQ, Pic!Registers

LEMMA Acknowledged ==
  ASSUME NEW c, Plain(c), NEW i \in 0 .. 7, NEW d, d = Pic!AcknowledgeIRQ(c, i)
  PROVE  /\ Plain(d)
         /\ d.IRR = c.IRR \ {i} /\ d.ISR = c.ISR \cup {i}
         /\ d.PreviousIRR = c.PreviousIRR /\ d.IMR = c.IMR /\ d.Base = c.Base
         /\ d.InterruptOutput = c.InterruptOutput
<1>1. i \in Pic!Lines
  BY LineIs
<1> QED BY <1>1 DEF Plain, Pic!AcknowledgeIRQ, Pic!Registers

LEMMA OutputSet ==
  ASSUME NEW c, Plain(c), NEW o \in BOOLEAN, NEW d, d = [c EXCEPT !.InterruptOutput = o]
  PROVE  /\ Plain(d) /\ d.InterruptOutput = o
         /\ d.IRR = c.IRR /\ d.ISR = c.ISR /\ d.PreviousIRR = c.PreviousIRR
         /\ d.IMR = c.IMR /\ d.Base = c.Base
BY DEF Plain, Pic!Registers

-----------------------------------------------------------------------------
(* The guest's accesses and the vectors.                                   *)

EndMaster == <<"EOI", "master">>
Enable    == <<"Enable", "bus">>

Writing(w) == access # <<>> /\ access[1] = w

SetupWrites == {Setup[k] : k \in 1 .. 9}
MaskWrites  == {<<op, p>> : op \in {"Mask", "Unmask"}, p \in Pic!Pics}
LaterWrites == HandlerWrites \cup {Enable} \cup MaskWrites

\* The guest still programs the devices.
Initialising == setup # <<>> \/ (access # <<>> /\ access[1] \in SetupWrites)

\* The guest has not programmed the base of the slave's vectors yet.
Unbased == Len(setup) > 3 \/ (Len(setup) = 3 /\ access # <<>>)

MasterCall == [pic |-> "master", irq |-> Pic!Cascade]
SlaveCall  == [pic |-> "slave", irq |-> Line]

BusVector      == SlaveBase + Line
SpuriousVector == SlaveBase + 7

VectorsOnTheWay == {<<>>, <<BusVector>>, <<SpuriousVector>>}

\* The request of the bus has left the slave, and its vector is not taken yet.
OnTheWay == calls = <<SlaveCall>> \/ pending = <<BusVector>> \/ injected = <<BusVector>>

\* A request of the slave, or its vector, has left the master.
Carried == calls # <<>> \/ pending # <<>> \/ injected # <<>>

-----------------------------------------------------------------------------
(* The inductive invariant.                                                *)

\* The guest makes the initial writes in their order, and the others after.
SetupInv ==
  /\ Len(setup) \in 0 .. 9
  /\ setup = [k \in 1 .. Len(setup) |-> Setup[9 - Len(setup) + k]]
  /\ access # <<>> /\ setup # <<>> =>
       Len(setup) < 9 /\ access[1] = Setup[9 - Len(setup)]
  /\ access # <<>> /\ setup = <<>> => access[1] \in {Setup[9]} \cup LaterWrites

PicInv ==
  /\ pic \in [Pic!Pics -> Pic!Registers]
  /\ \A p \in Pic!Pics :
       Plain(pic[p]) /\ pic[p].IRR \subseteq {LineAt(p)} /\ pic[p].ISR \subseteq {LineAt(p)}
  /\ Unbased \/ pic["slave"].Base = SlaveBase

CallInv ==
  /\ pc \in {"Rest", "UpdateMaster", "UpdateSlave", "GetCurrentIRQ"}
  /\ calls \in {<<>>, <<MasterCall>>, <<SlaveCall>>}
  /\ pc = "Rest" => calls = <<>>
  /\ pc = "GetCurrentIRQ" => calls # <<>>
  /\ calls = <<MasterCall>> => pc # "UpdateSlave"
  /\ access # <<>> => pc = "Rest"
  /\ access # <<>> \/ pc # "Rest" => at = "IO"
  /\ pending \in VectorsOnTheWay /\ injected \in VectorsOnTheWay
  /\ todo \subseteq HandlerWrites
  /\ requested \in BOOLEAN /\ line \in BOOLEAN

\* The service of the slave's line at the master lasts from the acknowledgement
\* to the end of interrupt, and is carried by one thing at a time.
HeldInv ==
  /\ Carried \/ EndMaster \in todo \/ Writing(EndMaster) =>
       Pic!Cascade \in pic["master"].ISR
  /\ calls # <<>> => pending = <<>> /\ injected = <<>>
  /\ pending # <<>> => injected = <<>>
  /\ Carried => EndMaster \notin todo /\ ~ Writing(EndMaster)
  /\ EndMaster \in todo => ~ Writing(EndMaster)

\* Nothing is requested before the guest has programmed the devices.
QuietInv ==
  Initialising =>
    /\ \A p \in Pic!Pics : pic[p].IRR = {} /\ pic[p].ISR = {}
    /\ ~ line /\ ~ pic["slave"].InterruptOutput
    /\ ~ requested /\ todo = {}

LevelInv ==
  /\ line <=> Line \in pic["slave"].PreviousIRR
  /\ pc # "UpdateSlave" =>
       (pic["slave"].InterruptOutput <=> Pic!Cascade \in pic["master"].PreviousIRR)

\* One transaction has one request, which waits at the slave, is on its way, or
\* is served.
RequestInv ==
  /\ Line \in pic["slave"].IRR => requested /\ ~ OnTheWay /\ ~ serving /\ line
  /\ OnTheWay => requested /\ line /\ Pic!Cascade \notin pic["master"].IRR
  /\ Carried => ~ serving
  /\ serving => requested /\ line
  /\ Pic!Cascade \in pic["master"].IRR => ~ serving
  /\ calls # <<>> => Pic!Cascade \notin pic["master"].IRR
  /\ Writing(Enable) => /\ requested /\ ~ OnTheWay /\ ~ serving
                        /\ Line \notin pic["slave"].IRR
  /\ Writing(ClearStatus) => line /\ ~ requested

Inv == SetupInv /\ PicInv /\ CallInv /\ HeldInv /\ QuietInv /\ LevelInv /\ RequestInv

-----------------------------------------------------------------------------
(* What an access can be.                                                  *)

LEMMA SetupIs ==
  /\ Len(Setup) = 9
  /\ Setup[1] = <<"ICW1", "master">> /\ Setup[2] = <<"ICW2", "master">>
  /\ Setup[3] = <<"ICW3", "master">> /\ Setup[4] = <<"ICW4", "master">>
  /\ Setup[5] = <<"ICW1", "slave">> /\ Setup[6] = <<"ICW2", "slave">>
  /\ Setup[7] = <<"ICW3", "slave">> /\ Setup[8] = <<"ICW4", "slave">>
  /\ Setup[9] = <<"Address", "bus">>
BY DEF Setup

\* The writes to a controller name it, and only those of the initialisation are
\* initialisation words.
LEMMA WriteIs ==
  ASSUME SetupInv, access # <<>>
  PROVE  \/ access[1] \in SetupWrites /\ Initialising
         \/ access[1] \in LaterWrites /\ setup = <<>>
<1>1. CASE setup # <<>>
  <2>1. 9 - Len(setup) \in 1 .. 9
    BY <1>1, SetupIs DEF SetupInv
  <2> QED BY <1>1, <2>1 DEF SetupInv, SetupWrites, Initialising
<1>2. CASE setup = <<>>
  BY <1>2 DEF SetupInv, SetupWrites, Initialising
<1> QED BY <1>1, <1>2

LEMMA SetupWritesAre ==
  SetupWrites = { <<"ICW1", "master">>, <<"ICW2", "master">>, <<"ICW3", "master">>,
                  <<"ICW4", "master">>, <<"ICW1", "slave">>, <<"ICW2", "slave">>,
                  <<"ICW3", "slave">>, <<"ICW4", "slave">>, <<"Address", "bus">> }
<1>1. 1 .. 9 = {1, 2, 3, 4, 5, 6, 7, 8, 9}
  OBVIOUS
<1> QED BY <1>1, SetupIs DEF SetupWrites

LEMMA LaterWritesAre ==
  LaterWrites = { <<"Status", "bus">>, <<"EOI", "master">>, <<"EOI", "slave">>,
                  <<"Enable", "bus">>, <<"Mask", "master">>, <<"Mask", "slave">>,
                  <<"Unmask", "master">>, <<"Unmask", "slave">> }
BY DEF LaterWrites, HandlerWrites, ClearStatus, Enable, MaskWrites, Pic!Pics, Pic!Master, Pic!Slave

\* What is left of the initialisation is empty when nothing is left.
LEMMA SetupLeft ==
  ASSUME SetupInv
  PROVE  /\ setup \in Seq(SetupWrites)
         /\ setup = <<>> <=> Len(setup) = 0
<1> DEFINE n == Len(setup)
<1>1. n \in 0 .. 9 /\ setup = [k \in 1 .. n |-> Setup[9 - n + k]]
  BY DEF SetupInv
<1> HIDE DEF n
<1>2. ASSUME NEW k \in 1 .. n PROVE Setup[9 - n + k] \in SetupWrites
  <2>1. 9 - n + k \in 1 .. 9
    BY <1>1
  <2> QED BY <2>1 DEF SetupWrites
<1>3. [k \in 1 .. n |-> Setup[9 - n + k]] \in [1 .. n -> SetupWrites]
  BY <1>2
<1>4. setup \in Seq(SetupWrites)
  <2>1. n \in Nat
    BY <1>1
  <2>2. setup = [k \in 1 .. n |-> Setup[9 - n + k]]
    BY <1>1
  <2>3. setup \in [1 .. n -> SetupWrites]
    BY <1>3, <2>2, Zenon
  <2> QED BY <2>1, <2>3
<1> QED BY <1>4, EmptySeq DEF n

\* A write of the initialisation that programs the slave comes at its place.
LEMMA BaseWrites ==
  ASSUME SetupInv, access # <<>>
  PROVE  /\ access[1] = <<"ICW1", "slave">> => Len(setup) = 4
         /\ Len(setup) = 3 => access[1] = <<"ICW2", "slave">>
<1>1. CASE setup = <<>>
  BY <1>1, SetupIs, LaterWritesAre DEF SetupInv
<1>2. CASE setup # <<>>
  <2> DEFINE n == Len(setup)
  <2>1. n \in 1 .. 8 /\ access[1] = Setup[9 - n]
    <3>1. n \in 0 .. 9 /\ n < 9 /\ n # 0 /\ access[1] = Setup[9 - n]
      BY <1>2, SetupLeft DEF SetupInv
    <3> HIDE DEF n
    <3> QED BY <3>1
  <2> HIDE DEF n
  <2>2. n \in {1, 2, 3, 4, 5, 6, 7, 8}
    BY <2>1
  <2>3. \/ n = 3 /\ access[1] = Setup[6]
        \/ n = 4 /\ access[1] = Setup[5]
        \/ n \notin {3, 4} /\ access[1] \in {Setup[8], Setup[7], Setup[4], Setup[3], Setup[2], Setup[1]}
    BY <2>1, <2>2
  <2>4. /\ access[1] = <<"ICW1", "slave">> => n = 4
        /\ n = 3 => access[1] = <<"ICW2", "slave">>
    BY <2>3, SetupIs
  <2> QED BY <2>4 DEF n
<1> QED BY <1>1, <1>2

-----------------------------------------------------------------------------
(* What an access changes.                                                 *)

LEMMA Updated ==
  ASSUME pic \in [Pic!Pics -> Pic!Registers], NEW p \in Pic!Pics,
         NEW d \in Pic!Registers, pic' = [pic EXCEPT ![p] = d]
  PROVE  /\ pic' \in [Pic!Pics -> Pic!Registers]
         /\ pic'[p] = d
         /\ \A q \in Pic!Pics : q # p => pic'[q] = pic[q]
OBVIOUS

LEMMA PicsAre == Pic!Pics = {"master", "slave"}
BY DEF Pic!Pics, Pic!Master, Pic!Slave

\* A write to a controller raises no request and changes no level.
Kept(p, d) ==
  /\ Plain(d)
  /\ d.IRR = pic[p].IRR /\ d.ISR \subseteq pic[p].ISR
  /\ LineAt(p) \in d.PreviousIRR <=> LineAt(p) \in pic[p].PreviousIRR
  /\ p = "slave" => d.InterruptOutput = pic[p].InterruptOutput

LEMMA InitialisationKept ==
  ASSUME Inv, access # <<>>, NEW op \in {"ICW1", "ICW2", "ICW3", "ICW4"},
         NEW p \in Pic!Pics, PicWrite(op, p), Initialising
  PROVE  \E d : /\ pic' = [pic EXCEPT ![p] = d] /\ Kept(p, d)
                /\ d.ISR = pic[p].ISR
                /\ op = "ICW2" => d.Base = VectorBase(p)
                /\ op \notin {"ICW1", "ICW2"} => d.Base = pic[p].Base
<1> DEFINE c == pic[p]
<1>1. c \in Pic!Registers /\ Plain(c) /\ c.IRR = {} /\ c.ISR = {}
  BY DEF Inv, PicInv, QuietInv
<1>2. LineAt(p) \notin c.PreviousIRR
  BY PicsAre DEF Inv, LevelInv, QuietInv, CallInv, LineAt, Line
<1>3. p = "slave" => ~ c.InterruptOutput
  BY DEF Inv, QuietInv
<1> HIDE DEF c
<1>4. CASE op = "ICW1"
  <2> DEFINE d == [Pic!ResetRegisters(c) EXCEPT !.InitState = 1, !.Is4ByteInit = TRUE]
  <2>1. pic' = [pic EXCEPT ![p] = d]
    BY <1>4 DEF PicWrite, Pic!ICW1, Pic!ThenUpdate, c
  <2>4. Pic!ResetRegisters(c) \in Pic!Registers
    BY <1>1, LineIs DEF Pic!ResetRegisters, Pic!Registers
  <2>5. 1 \in 0 .. 3
    OBVIOUS
  <2>6. d \in Pic!Registers
    BY <2>4, <2>5 DEF Pic!Registers
  <2>2. /\ d.ELCR = c.ELCR /\ d.PriorityAdd = 0 /\ d.SpecialMask = FALSE
        /\ d.AutoEOI = FALSE /\ d.SFNM = FALSE /\ d.IRR = {} /\ d.ISR = {}
        /\ d.PreviousIRR = {} /\ d.InterruptOutput = FALSE
    BY DEF Pic!ResetRegisters
  <2> HIDE DEF d
  <2>3. Kept(p, d) /\ d.ISR = c.ISR
    BY <1>1, <1>2, <1>3, <2>2, <2>6 DEF Kept, Plain, c
  <2> QED BY <1>4, <2>1, <2>3 DEF c
<1>5. CASE op = "ICW2"
  <2> DEFINE d == [c EXCEPT !.Base = VectorBase(p), !.InitState = 2]
  <2>1. pic' = [pic EXCEPT ![p] = d]
    BY <1>5 DEF PicWrite, Pic!ICW2, Pic!ThenReturn, c
  <2>2. VectorBase(p) \in Nat
    BY DEF VectorBase, SlaveBase, MasterBase
  <2> HIDE DEF VectorBase
  <2>4. 2 \in 0 .. 3
    OBVIOUS
  <2>5. d \in Pic!Registers
    BY <1>1, <2>2, <2>4 DEF Pic!Registers
  <2>6. /\ d.ELCR = c.ELCR /\ d.PriorityAdd = c.PriorityAdd /\ d.SpecialMask = c.SpecialMask
        /\ d.PreviousIRR = c.PreviousIRR /\ d.IRR = c.IRR /\ d.Base = VectorBase(p)
        /\ d.InterruptOutput = c.InterruptOutput
        /\ d.SFNM = c.SFNM /\ d.AutoEOI = c.AutoEOI /\ d.ISR = c.ISR
    BY <1>1 DEF Pic!Registers
  <2> HIDE DEF d
  <2>3. Kept(p, d) /\ d.ISR = c.ISR /\ d.Base = VectorBase(p)
    BY <1>1, <2>5, <2>6 DEF Kept, Plain, c
<2> QED BY <1>5, <2>1, <2>3 DEF c
<1>6. CASE op = "ICW3"
  <2> DEFINE d == [c EXCEPT !.InitState = IF c.Is4ByteInit THEN 3 ELSE 0]
  <2>1. pic' = [pic EXCEPT ![p] = d]
    BY <1>6 DEF PicWrite, Pic!ICW3, Pic!ThenReturn, c
  <2>4. (IF c.Is4ByteInit THEN 3 ELSE 0) \in 0 .. 3
    OBVIOUS
  <2>5. d \in Pic!Registers
    BY <1>1, <2>4 DEF Pic!Registers
  <2>6. /\ d.ELCR = c.ELCR /\ d.PriorityAdd = c.PriorityAdd /\ d.SpecialMask = c.SpecialMask
        /\ d.PreviousIRR = c.PreviousIRR /\ d.IRR = c.IRR /\ d.Base = c.Base
        /\ d.InterruptOutput = c.InterruptOutput
        /\ d.SFNM = c.SFNM /\ d.AutoEOI = c.AutoEOI /\ d.ISR = c.ISR
    BY <1>1 DEF Pic!Registers
  <2> HIDE DEF d
  <2>2. Kept(p, d) /\ d.ISR = c.ISR /\ d.Base = c.Base
    BY <1>1, <2>5, <2>6 DEF Kept, Plain, c
<2> QED BY <1>6, <2>1, <2>2 DEF c
<1>7. CASE op = "ICW4"
  <2> DEFINE d == [c EXCEPT !.SFNM = FALSE, !.AutoEOI = FALSE, !.InitState = 0]
  <2>1. pic' = [pic EXCEPT ![p] = d]
    BY <1>7 DEF PicWrite, Pic!ICW4, Pic!ThenReturn, c
  <2>4. 0 \in 0 .. 3
    OBVIOUS
  <2>5. d \in Pic!Registers
    BY <1>1, <2>4 DEF Pic!Registers
  <2>6. /\ d.ELCR = c.ELCR /\ d.PriorityAdd = c.PriorityAdd /\ d.SpecialMask = c.SpecialMask
        /\ d.PreviousIRR = c.PreviousIRR /\ d.IRR = c.IRR /\ d.Base = c.Base
        /\ d.InterruptOutput = c.InterruptOutput
        /\ d.SFNM = FALSE /\ d.AutoEOI = FALSE /\ d.ISR = c.ISR
    BY <1>1 DEF Pic!Registers
  <2> HIDE DEF d
  <2>2. Kept(p, d) /\ d.ISR = c.ISR /\ d.Base = c.Base
    BY <1>1, <2>5, <2>6 DEF Kept, Plain, c
<2> QED BY <1>7, <2>1, <2>2 DEF c
<1> QED BY <1>4, <1>5, <1>6, <1>7

LEMMA ServiceEnded ==
  ASSUME Inv, NEW p \in Pic!Pics, Pic!NonspecificEOI(p, 1)
  PROVE  \E d : pic' = [pic EXCEPT ![p] = d] /\ Kept(p, d) /\ d.Base = pic[p].Base
<1> DEFINE c == pic[p]
           l == LineAt(p)
           priority == Pic!GetPriority(c, c.ISR)
           irq == Pic!Wrap(priority + c.PriorityAdd)
           d == Pic!EndOfInterrupt(c, irq, 1 = 5)
<1>1. Plain(c) /\ c.ISR \in {{}, {l}}
  BY DEF Inv, PicInv
<1>2. pic' = [pic EXCEPT ![p] = c] \/ pic' = [pic EXCEPT ![p] = d]
  BY DEF Pic!NonspecificEOI, Pic!ThenUpdate, Pic!ThenReturn
<1>3. Kept(p, c) /\ c.Base = pic[p].Base
  BY <1>1 DEF Kept
<1>5. d \in Pic!Registers
  <2>1. d = [c EXCEPT !.ISR = c.ISR \ {irq}, !.PriorityAdd = c.PriorityAdd]
    BY DEF Pic!EndOfInterrupt
  <2> HIDE DEF irq, d, c
  <2>2. c \in Pic!Registers
    BY <1>1 DEF Plain
  <2> QED BY <2>1, <2>2 DEF Pic!Registers
<1>6. /\ d.ELCR = c.ELCR /\ d.PriorityAdd = c.PriorityAdd /\ d.SpecialMask = c.SpecialMask
      /\ d.PreviousIRR = c.PreviousIRR /\ d.IRR = c.IRR /\ d.Base = c.Base
      /\ d.InterruptOutput = c.InterruptOutput
      /\ d.SFNM = c.SFNM /\ d.AutoEOI = c.AutoEOI /\ d.ISR = c.ISR \ {irq}
  BY <1>1 DEF Plain, Pic!EndOfInterrupt, Pic!Registers
<1> HIDE DEF d
<1>4. Kept(p, d) /\ d.Base = pic[p].Base
  BY <1>1, <1>5, <1>6 DEF Kept, Plain
<1> QED BY <1>2, <1>3, <1>4 DEF d

LEMMA MaskKept ==
  ASSUME Inv, NEW p \in Pic!Pics, NEW mask \in SUBSET {LineAt(p)}, Pic!OCW1(p, mask)
  PROVE  \E d : /\ pic' = [pic EXCEPT ![p] = d] /\ Kept(p, d)
                /\ d.ISR = pic[p].ISR /\ d.Base = pic[p].Base
<1> DEFINE c == pic[p]
           d == [c EXCEPT !.IMR = mask]
<1>1. Plain(c)
  BY DEF Inv, PicInv
<1>2. pic' = [pic EXCEPT ![p] = d]
  BY DEF Pic!OCW1, Pic!ThenUpdate
<1>3. mask \subseteq Pic!Lines
  BY LineIs, PicsAre DEF LineAt, SMB_IRQ
<1>4. Kept(p, d) /\ d.ISR = c.ISR /\ d.Base = c.Base
  BY <1>1, <1>3 DEF Kept, Plain, Pic!Registers
<1> QED BY <1>2, <1>4

\* After a write the controller is updated, or the access returns.
LEMMA WriteReturns ==
  ASSUME NEW op \in {"ICW1", "ICW2", "ICW3", "ICW4", "EOI", "Mask", "Unmask"},
         NEW p \in Pic!Pics, PicWrite(op, p)
  PROVE  pc = "Rest" /\ pc' \in {"Rest", Pic!Updating(p)} /\ calls' = calls
BY DEF PicWrite, Pic!ICW1, Pic!ICW2, Pic!ICW3, Pic!ICW4, Pic!NonspecificEOI, Pic!OCW1,
       Pic!ThenUpdate, Pic!ThenReturn

-----------------------------------------------------------------------------
(* The host's steps keep the invariant.                                    *)

PicsKept ==
  /\ pic' \in [Pic!Pics -> Pic!Registers]
  /\ \A p \in Pic!Pics :
       Plain(pic'[p]) /\ pic'[p].IRR = pic[p].IRR /\ pic'[p].ISR \subseteq pic[p].ISR
  /\ Line \in pic'["slave"].PreviousIRR <=> Line \in pic["slave"].PreviousIRR
  /\ Pic!Cascade \in pic'["master"].PreviousIRR <=> Pic!Cascade \in pic["master"].PreviousIRR
  /\ pic'["slave"].InterruptOutput = pic["slave"].InterruptOutput

LEMMA KeptAtOne ==
  ASSUME Inv, NEW p \in Pic!Pics, NEW d, Kept(p, d), pic' = [pic EXCEPT ![p] = d]
  PROVE  PicsKept /\ pic'[p] = d /\ \A q \in Pic!Pics : q # p => pic'[q] = pic[q]
<1>1. pic \in [Pic!Pics -> Pic!Registers] /\ \A q \in Pic!Pics : Plain(pic[q])
  BY DEF Inv, PicInv
<1>2. d \in Pic!Registers
  BY DEF Kept, Plain
<1>3. /\ pic' \in [Pic!Pics -> Pic!Registers] /\ pic'[p] = d
      /\ \A q \in Pic!Pics : q # p => pic'[q] = pic[q]
  BY <1>1, <1>2, Updated
<1>4. LineAt("slave") = Line /\ LineAt("master") = Pic!Cascade
  BY DEF Line, LineAt
<1>5. CASE p = "slave"
  BY <1>1, <1>3, <1>4, <1>5, PicsAre DEF PicsKept, Kept
<1>6. CASE p = "master"
  BY <1>1, <1>3, <1>4, <1>6, PicsAre DEF PicsKept, Kept
<1> QED BY <1>3, <1>5, <1>6, PicsAre

LEMMA PicWriteIs ==
  ASSUME Inv, access # <<>>, NEW op, NEW p, access[1] = <<op, p>>, p # "bus",
         PicWrite(op, p), access' = <<>>, setup' = setup
  PROVE  /\ PicsKept
         /\ ~ Writing(EndMaster) => pic'["master"].ISR = pic["master"].ISR
         /\ Unbased' \/ pic'["slave"].Base = SlaveBase
         /\ pc' \in {"Rest", "UpdateMaster", "UpdateSlave"} /\ calls' = <<>>
<1>1. SetupInv
  BY DEF Inv
<1>2. \/ /\ op \in {"ICW1", "ICW2", "ICW3", "ICW4"} /\ p \in Pic!Pics /\ Initialising
      \/ /\ op \in {"EOI", "Mask", "Unmask"} /\ p \in Pic!Pics /\ setup = <<>>
  BY <1>1, WriteIs, SetupWritesAre, LaterWritesAre, PicsAre
<1>3. pc = "Rest" /\ calls' = calls /\ pc' \in {"Rest", Pic!Updating(p)}
  BY <1>2, WriteReturns
<1>4. pc' \in {"Rest", "UpdateMaster", "UpdateSlave"} /\ calls' = <<>>
  BY <1>3 DEF Pic!Updating, Inv, CallInv
<1>5. Unbased \/ pic["slave"].Base = SlaveBase
  BY DEF Inv, PicInv
<1>6. Unbased => Unbased' \/ access[1] = <<"ICW2", "slave">>
  BY <1>1, BaseWrites DEF Unbased
<1>7. access[1] = <<"ICW1", "slave">> => Unbased'
  <2>1. access[1] = <<"ICW1", "slave">> => Len(setup') = 4
    BY <1>1, BaseWrites
  <2> QED BY <2>1 DEF Unbased
<1>8. CASE /\ op \in {"ICW1", "ICW2", "ICW3", "ICW4"} /\ p \in Pic!Pics /\ Initialising
  <2>1. PICK d : /\ pic' = [pic EXCEPT ![p] = d] /\ Kept(p, d)
                 /\ d.ISR = pic[p].ISR
                 /\ op = "ICW2" => d.Base = VectorBase(p)
                 /\ op \notin {"ICW1", "ICW2"} => d.Base = pic[p].Base
    BY <1>8, InitialisationKept
  <2>2. PicsKept /\ pic'[p] = d /\ \A q \in Pic!Pics : q # p => pic'[q] = pic[q]
    BY <1>8, <2>1, KeptAtOne
  <2>3. pic'["master"].ISR = pic["master"].ISR
    BY <1>8, <2>1, <2>2, PicsAre
  <2>4. CASE p = "master"
    <3>1. pic'["slave"] = pic["slave"] /\ access[1] # <<"ICW2", "slave">>
      BY <2>2, <2>4, PicsAre
    <3> QED BY <1>4, <1>5, <1>6, <2>2, <2>3, <3>1
  <2>5. CASE p = "slave"
    <3>1. op = "ICW2" => pic'["slave"].Base = SlaveBase
      BY <2>1, <2>2, <2>5 DEF VectorBase
    <3>2. op \in {"ICW3", "ICW4"} => pic'["slave"].Base = pic["slave"].Base
      BY <2>1, <2>2, <2>5
    <3>3. op # "ICW2" => access[1] # <<"ICW2", "slave">>
      OBVIOUS
    <3>4. op = "ICW1" => Unbased'
      BY <1>7, <2>5
    <3>5. Unbased' \/ pic'["slave"].Base = SlaveBase
      BY <1>5, <1>6, <1>8, <3>1, <3>2, <3>3, <3>4
    <3> QED BY <1>4, <2>2, <2>3, <3>5
  <2> QED BY <1>8, <2>4, <2>5, PicsAre
<1>9. CASE /\ op \in {"EOI", "Mask", "Unmask"} /\ p \in Pic!Pics /\ setup = <<>>
  <2>1. PICK d : /\ pic' = [pic EXCEPT ![p] = d] /\ Kept(p, d)
                 /\ op # "EOI" => d.ISR = pic[p].ISR
                 /\ d.Base = pic[p].Base
    <3>1. CASE op = "EOI"
      BY <1>9, <3>1, ServiceEnded DEF PicWrite
    <3>2. CASE op = "Mask"
      <4>1. Pic!OCW1(p, {LineAt(p)})
        BY <3>2 DEF PicWrite
      <4> QED BY <1>9, <4>1, MaskKept
    <3>3. CASE op = "Unmask"
      <4>1. Pic!OCW1(p, {})
        BY <3>3 DEF PicWrite
      <4> QED BY <1>9, <4>1, MaskKept
    <3> QED BY <1>9, <3>1, <3>2, <3>3
  <2>2. PicsKept /\ pic'[p] = d /\ \A q \in Pic!Pics : q # p => pic'[q] = pic[q]
    BY <1>9, <2>1, KeptAtOne
  <2>3. pic'["slave"].Base = pic["slave"].Base
    BY <1>9, <2>1, <2>2, PicsAre
  <2>4. access[1] # <<"ICW2", "slave">>
    BY <1>9
  <2>5. ~ Writing(EndMaster) => pic'["master"].ISR = pic["master"].ISR
    <3>1. CASE p = "slave"
      BY <2>2, <3>1, PicsAre
    <3>2. CASE p = "master" /\ op # "EOI"
      BY <2>1, <2>2, <3>2
    <3>3. CASE p = "master" /\ op = "EOI"
      BY <3>3 DEF Writing, EndMaster
    <3> QED BY <1>9, <3>1, <3>2, <3>3, PicsAre
  <2> QED BY <1>4, <1>5, <1>6, <2>2, <2>3, <2>4, <2>5
<1> QED BY <1>2, <1>8, <1>9

\* The writes tell each other apart.
LEMMA Accesses ==
  ASSUME SetupInv, access # <<>>
  PROVE  /\ Writing(Enable) \/ Writing(ClearStatus) \/ Writing(EndMaster) =>
              access[1] \in LaterWrites /\ ~ Initialising
         /\ ~ Writing(Enable) \/ ~ Writing(ClearStatus)
         /\ ~ Writing(EndMaster) \/ ~ Writing(Enable)
         /\ ~ Writing(EndMaster) \/ ~ Writing(ClearStatus)
<1>1. /\ Enable \in LaterWrites /\ ClearStatus \in LaterWrites /\ EndMaster \in LaterWrites
      /\ Enable \notin SetupWrites /\ ClearStatus \notin SetupWrites
      /\ EndMaster \notin SetupWrites
      /\ Enable # ClearStatus /\ EndMaster # Enable /\ EndMaster # ClearStatus
  BY LaterWritesAre, SetupWritesAre DEF Enable, ClearStatus, EndMaster
<1>2. access[1] \in SetupWrites \/ (access[1] \in LaterWrites /\ setup = <<>>)
  BY WriteIs
<1> QED BY <1>1, <1>2 DEF Writing, Initialising

LEMMA SetupKept ==
  ASSUME SetupInv, setup' = setup, access' = <<>>
  PROVE  /\ SetupInv'
         /\ Initialising' => Initialising
         /\ \A w : ~ Writing(w)'
BY DEF SetupInv, Initialising, Writing

LEMMA PicWriteKeepsInv ==
  ASSUME Inv, access # <<>>, NEW op, NEW p, access[1] = <<op, p>>, p # "bus",
         PicWrite(op, p), UNCHANGED busVars, access' = <<>>,
         UNCHANGED <<vpVars, setup, todo, requested, anyTime>>
  PROVE  Inv'
<1>1. /\ PicsKept
      /\ ~ Writing(EndMaster) => pic'["master"].ISR = pic["master"].ISR
      /\ Unbased' \/ pic'["slave"].Base = SlaveBase
      /\ pc' \in {"Rest", "UpdateMaster", "UpdateSlave"} /\ calls' = <<>>
  BY PicWriteIs
<1>2. /\ SetupInv' /\ (Initialising' => Initialising) /\ \A w : ~ Writing(w)'
  BY SetupKept DEF Inv
<1>3. /\ pending' = pending /\ injected' = injected /\ at' = at /\ todo' = todo
      /\ requested' = requested /\ line' = line
  BY DEF vpVars, busVars
<1>4. pc = "Rest" /\ calls = <<>> /\ at = "IO"
  BY DEF Inv, CallInv
<1>5. PicInv'
  BY <1>1 DEF Inv, PicInv, PicsKept
<1>6. CallInv'
  BY <1>1, <1>3, <1>4, OneElement DEF Inv, CallInv
<1>7. HeldInv'
  <2>1. Carried' <=> Carried
    BY <1>1, <1>3, <1>4 DEF Carried
  <2>2. Writing(EndMaster) => ~ Carried /\ EndMaster \notin todo
    BY DEF Inv, HeldInv
  <2> QED BY <1>1, <1>2, <1>3, <1>4, <2>1, <2>2 DEF Inv, HeldInv
<1>8. QuietInv'
  <2>1. Initialising => \A p_1 \in Pic!Pics : pic'[p_1].IRR = {} /\ pic'[p_1].ISR = {}
    BY <1>1 DEF Inv, QuietInv, PicsKept
  <2>2. Initialising => /\ ~ line /\ ~ pic["slave"].InterruptOutput
                        /\ ~ requested /\ todo = {}
    BY DEF Inv, QuietInv
  <2>3. pic'["slave"].InterruptOutput = pic["slave"].InterruptOutput
    BY <1>1 DEF PicsKept
  <2> QED BY <1>2, <1>3, <2>1, <2>2, <2>3 DEF QuietInv
<1>9. LevelInv'
  BY <1>1, <1>3, <1>4 DEF Inv, LevelInv, PicsKept
<1>10. RequestInv'
  <2>1. /\ Carried' <=> Carried
        /\ OnTheWay' <=> OnTheWay
        /\ serving' <=> serving
    BY <1>1, <1>3, <1>4 DEF Carried, OnTheWay, serving
  <2>2. pic'["slave"].IRR = pic["slave"].IRR /\ pic'["master"].IRR = pic["master"].IRR
    BY <1>1, PicsAre DEF PicsKept
  <2> HIDE DEF serving
  <2> QED BY <1>1, <1>2, <1>3, <2>1, <2>2 DEF Inv, RequestInv
<1> QED BY <1>2, <1>5, <1>6, <1>7, <1>8, <1>9, <1>10 DEF Inv

\* The bus drives line 3 of the slave, which is updated.
LEMMA LineDriven ==
  ASSUME Inv, NEW asserted \in BOOLEAN,
         IF asserted THEN Pic!RaiseIRQ(SMB_IRQ) ELSE Pic!LowerIRQ(SMB_IRQ)
  PROVE  /\ pic' \in [Pic!Pics -> Pic!Registers]
         /\ \A p \in Pic!Pics : Plain(pic'[p])
         /\ pic'["master"] = pic["master"]
         /\ Line \in pic'["slave"].PreviousIRR <=> asserted
         /\ pic'["slave"].IRR = IF asserted /\ ~ line THEN pic["slave"].IRR \cup {Line}
                                ELSE pic["slave"].IRR
         /\ pic'["slave"].ISR = pic["slave"].ISR
         /\ pic'["slave"].Base = pic["slave"].Base
         /\ pic'["slave"].InterruptOutput = pic["slave"].InterruptOutput
         /\ pc' = "UpdateSlave" /\ calls' = calls
<1> DEFINE c == pic["slave"]
           d == Pic!SetIRQ(c, Line, asserted)
<1>1. /\ pic \in [Pic!Pics -> Pic!Registers]
      /\ \A q \in Pic!Pics : Plain(pic[q])
      /\ line <=> Line \in c.PreviousIRR
  BY DEF Inv, PicInv, LevelInv
<1>2. Pic!PicOf(SMB_IRQ) = "slave" /\ Pic!LineOf(SMB_IRQ) = Line
  BY LineIs DEF Pic!PicOf, Pic!LineOf, SMB_IRQ, Pic!Slave
<1>3. pic' = [pic EXCEPT !["slave"] = d] /\ pc' = "UpdateSlave" /\ calls' = calls
  BY <1>2 DEF Pic!RaiseIRQ, Pic!LowerIRQ, Pic!ThenUpdate, Pic!Updating, Pic!Master
<1>4. Plain(c) /\ Line \in 0 .. 7
  BY <1>1, PicsAre, LineIs
<1> HIDE DEF d, c
<1>5. /\ Plain(d)
      /\ d.PreviousIRR = IF asserted THEN c.PreviousIRR \cup {Line} ELSE c.PreviousIRR \ {Line}
      /\ d.IRR = IF asserted /\ Line \notin c.PreviousIRR THEN c.IRR \cup {Line} ELSE c.IRR
      /\ d.ISR = c.ISR /\ d.Base = c.Base /\ d.InterruptOutput = c.InterruptOutput
  <2>1. d = Pic!SetIRQ(c, Line, asserted)
    BY DEF d
  <2>2. CASE asserted = TRUE
    <3>1. d = Raised(c, Line)
      BY <2>1, <2>2 DEF Raised
    <3>2. /\ Plain(d)
          /\ d.PreviousIRR = c.PreviousIRR \cup {Line}
          /\ Line \notin c.PreviousIRR => d.IRR = c.IRR \cup {Line}
          /\ Line \in c.PreviousIRR => d.IRR = c.IRR
          /\ d.ISR = c.ISR /\ d.Base = c.Base /\ d.InterruptOutput = c.InterruptOutput
      BY <1>4, <3>1, LevelRaised
    <3> QED BY <2>2, <3>2
  <2>3. CASE asserted = FALSE
    <3>1. d = Lowered(c, Line)
      BY <2>1, <2>3 DEF Lowered
    <3> QED BY <1>4, <2>3, <3>1, LevelLowered
  <2> QED BY <2>2, <2>3
<1>6. d \in Pic!Registers
  BY <1>5 DEF Plain
<1>7. /\ pic' \in [Pic!Pics -> Pic!Registers] /\ pic'["slave"] = d
      /\ pic'["master"] = pic["master"]
  BY <1>1, <1>3, <1>6, PicsAre, Updated
<1> QED BY <1>1, <1>3, <1>5, <1>7, PicsAre DEF c

\* What a write to the bus makes of its line.
LEMMA BusDrives ==
  ASSUME NEW op \in {"Address", "Enable", "Status"}, BusWrite(op), DriveLine
  PROVE  \/ op = "Address" /\ line' = line /\ UNCHANGED picVars
         \/ /\ op # "Address" /\ line' = TRUE /\ Pic!RaiseIRQ(SMB_IRQ)
         \/ /\ op = "Status" /\ line' = FALSE /\ Pic!LowerIRQ(SMB_IRQ)
<1>1. CASE op = "Address"
  <2>1. line' = line /\ signal' = "none"
    BY <1>1 DEF BusWrite, Bus!WriteAddress, Bus!Quiet
  <2> QED BY <1>1, <2>1 DEF DriveLine
<1>2. CASE op = "Enable"
  <2>1. Bus!WriteEnable(Start) /\ Start.start /\ Start.irqEnabled
    BY <1>2 DEF BusWrite, Start
  <2>2. Bus!Outcome(Address, Start.protocol) \in Status'
    BY <2>1 DEF Bus!WriteEnable
  <2>3. line' = TRUE /\ signal' = "RaiseIRQ"
    BY <2>1, <2>2 DEF Bus!WriteEnable, Bus!Raise
  <2> QED BY <1>2, <2>3 DEF DriveLine
<1>3. CASE op = "Status"
  <2>1. \/ line' = TRUE /\ signal' = "RaiseIRQ"
        \/ line' = FALSE /\ signal' = "LowerIRQ"
    BY <1>3 DEF BusWrite, Bus!WriteStatus, Bus!Raise, Bus!Lower
  <2> QED BY <1>3, <2>1 DEF DriveLine
<1> QED BY <1>1, <1>2, <1>3

LEMMA BusWriteKeepsInv ==
  ASSUME Inv, access # <<>>, NEW op, access[1] = <<op, "bus">>,
         BusWrite(op), DriveLine, access' = <<>>,
         UNCHANGED <<vpVars, setup, todo, requested, anyTime>>
  PROVE  Inv'
<1>1. SetupInv /\ Inv
  BY DEF Inv
<1>2. op \in {"Address", "Enable", "Status"}
  BY <1>1, WriteIs, SetupWritesAre, LaterWritesAre
<1>3. /\ SetupInv' /\ (Initialising' => Initialising) /\ \A w : ~ Writing(w)'
  BY <1>1, SetupKept
<1>4. /\ pending' = pending /\ injected' = injected /\ at' = at /\ todo' = todo
      /\ requested' = requested
  BY DEF vpVars
<1>5. pc = "Rest" /\ calls = <<>> /\ at = "IO"
  BY <1>1 DEF CallInv, Inv
<1>6. serving' <=> serving
  BY <1>4 DEF serving
<1>7. Unbased => Unbased'
  <2>1. Len(setup) # 3
    BY <1>1, BaseWrites
  <2> QED BY <2>1 DEF Unbased
<1> HIDE DEF serving
<1>8. ~ Writing(EndMaster)
  BY DEF Writing, EndMaster
<1>9. CASE op = "Address" /\ line' = line /\ UNCHANGED picVars
  <2>1. pic' = pic /\ pc' = pc /\ calls' = calls
    BY <1>9 DEF picVars
  <2>2. PicInv'
    BY <1>1, <1>7, <2>1 DEF PicInv, Inv
  <2>3. CallInv'
    BY <1>1, <1>4, <1>5, <1>9, <2>1 DEF CallInv, Inv
  <2>4. HeldInv'
    BY <1>1, <1>3, <1>4, <2>1 DEF HeldInv, Inv, Carried
  <2>5. QuietInv'
    BY <1>1, <1>3, <1>4, <1>9, <2>1 DEF QuietInv, Inv
  <2>6. LevelInv'
    BY <1>1, <1>9, <2>1 DEF LevelInv, Inv
  <2>7. RequestInv'
    BY <1>1, <1>3, <1>4, <1>6, <1>9, <2>1 DEF RequestInv, Inv, Carried, OnTheWay
  <2> QED BY <1>3, <2>2, <2>3, <2>4, <2>5, <2>6, <2>7 DEF Inv
<1>10. CASE op # "Address" /\ line' \in BOOLEAN
            /\ (IF line' THEN Pic!RaiseIRQ(SMB_IRQ) ELSE Pic!LowerIRQ(SMB_IRQ))
            /\ (op = "Enable" => line')
  <2>1. /\ pic' \in [Pic!Pics -> Pic!Registers]
        /\ \A p \in Pic!Pics : Plain(pic'[p])
        /\ pic'["master"] = pic["master"]
        /\ Line \in pic'["slave"].PreviousIRR <=> line'
        /\ pic'["slave"].IRR = IF line' /\ ~ line THEN pic["slave"].IRR \cup {Line}
                               ELSE pic["slave"].IRR
        /\ pic'["slave"].ISR = pic["slave"].ISR
        /\ pic'["slave"].Base = pic["slave"].Base
        /\ pic'["slave"].InterruptOutput = pic["slave"].InterruptOutput
        /\ pc' = "UpdateSlave" /\ calls' = calls
    BY <1>1, <1>10, LineDriven
  <2>2. access[1] \in LaterWrites /\ ~ Initialising
    <3>1. Writing(Enable) \/ Writing(ClearStatus)
      BY <1>2, <1>10 DEF Writing, Enable, ClearStatus
    <3> QED BY <1>1, <3>1, Accesses
  <2>3. PicInv'
    <3>1. pic'["slave"].IRR \subseteq {LineAt("slave")}
      BY <1>1, <2>1, PicsAre DEF PicInv, Inv, Line
    <3>2. /\ pic'["slave"].ISR \subseteq {LineAt("slave")}
          /\ pic'["master"].IRR \subseteq {LineAt("master")}
          /\ pic'["master"].ISR \subseteq {LineAt("master")}
      BY <1>1, <2>1, PicsAre DEF PicInv, Inv
    <3> QED BY <1>1, <1>7, <2>1, <3>1, <3>2, PicsAre DEF PicInv, Inv
  <2>4. CallInv'
    BY <1>1, <1>4, <1>5, <1>10, <2>1, OneElement DEF CallInv, Inv
  <2>5. HeldInv'
    BY <1>1, <1>3, <1>4, <2>1 DEF HeldInv, Inv, Carried
  <2>6. QuietInv'
    BY <1>3, <2>2 DEF QuietInv
  <2>7. LevelInv'
    BY <2>1 DEF LevelInv
  <2>8. RequestInv'
    <3>1. /\ Carried' <=> Carried
          /\ OnTheWay' <=> OnTheWay
      BY <1>4, <2>1 DEF Carried, OnTheWay
    <3>2. CASE op = "Enable"
      <4>1. Writing(Enable) /\ line'
        BY <1>10, <3>2 DEF Writing, Enable
      <4> QED BY <1>1, <1>3, <1>4, <1>6, <2>1, <3>1, <4>1 DEF RequestInv, Inv
    <3>3. CASE op = "Status"
      <4>1. Writing(ClearStatus)
        BY <3>3 DEF Writing, ClearStatus
      <4>2. line /\ ~ requested
        BY <1>1, <4>1 DEF RequestInv, Inv
      <4>3. pic'["slave"].IRR = pic["slave"].IRR
        BY <2>1, <4>2
      <4> QED BY <1>1, <1>3, <1>4, <1>6, <2>1, <3>1, <4>2, <4>3 DEF RequestInv, Inv
    <3> QED BY <1>2, <1>10, <3>2, <3>3
  <2> QED BY <1>3, <2>3, <2>4, <2>5, <2>6, <2>7, <2>8 DEF Inv
<1> QED BY <1>2, <1>9, <1>10, BusDrives

LEMMA IOWriteKeepsInv ==
  ASSUME Inv, IOWrite
  PROVE  Inv'
<1>1. access # <<>> /\ access' = <<>> /\ UNCHANGED <<vpVars, setup, todo, requested, anyTime>>
  BY DEF IOWrite
<1>2. access[1] = <<access[1][1], access[1][2]>>
  <2>1. access[1] \in SetupWrites \cup LaterWrites
    BY <1>1, WriteIs DEF Inv
  <2> QED BY <2>1, SetupWritesAre, LaterWritesAre
<1>3. CASE access[1][2] = "bus"
  <2>1. BusWrite(access[1][1]) /\ DriveLine
    BY <1>3 DEF IOWrite
  <2> QED BY <1>1, <1>2, <1>3, <2>1, BusWriteKeepsInv
<1>4. CASE access[1][2] # "bus"
  <2>1. PicWrite(access[1][1], access[1][2]) /\ UNCHANGED busVars
    BY <1>4 DEF IOWrite
  <2> QED BY <1>1, <1>2, <1>4, <2>1, PicWriteKeepsInv
<1> QED BY <1>3, <1>4

\* The requests the two controllers see.
LEMMA RequestsAre ==
  ASSUME Inv
  PROVE  /\ Pic!GetIRQ(pic, "slave") \in {Line, -1}
         /\ Pic!GetIRQ(pic, "slave") = Line => Line \in pic["slave"].IRR
         /\ Pic!GetIRQ(pic, "master") \in {Pic!Cascade, -1}
         /\ Pic!GetIRQ(pic, "master") = Pic!Cascade =>
              Pic!Cascade \in pic["master"].IRR /\ Pic!Cascade \notin pic["master"].ISR
<1>1. \A p \in Pic!Pics :
        Pic!GetIRQ(pic, p) =
          IF LineAt(p) \in pic[p].IRR \ pic[p].IMR /\ LineAt(p) \notin pic[p].ISR
          THEN LineAt(p) ELSE Pic!NoIRQ
  BY RequestIs DEF Inv, PicInv
<1>2. LineAt("slave") = Line /\ LineAt("master") = Pic!Cascade
  BY DEF Line, LineAt
<1>3. Pic!GetIRQ(pic, "slave") =
        IF Line \in pic["slave"].IRR \ pic["slave"].IMR /\ Line \notin pic["slave"].ISR
        THEN Line ELSE -1
  BY <1>1, <1>2, PicsAre, LineIs
<1>4. Pic!GetIRQ(pic, "master") =
        IF Pic!Cascade \in pic["master"].IRR \ pic["master"].IMR
             /\ Pic!Cascade \notin pic["master"].ISR
        THEN Pic!Cascade ELSE -1
  BY <1>1, <1>2, PicsAre, LineIs
<1> QED BY <1>3, <1>4, LineIs

\* The output of the slave follows its request, and the master's line follows
\* the output.
LEMMA SlaveCascades ==
  ASSUME Inv, Pic!UpdateSlave
  PROVE  \E output \in BOOLEAN :
           /\ output => Line \in pic["slave"].IRR
           /\ pic' \in [Pic!Pics -> Pic!Registers]
           /\ \A p \in Pic!Pics : Plain(pic'[p])
           /\ pic'["slave"].InterruptOutput = output
           /\ pic'["slave"].IRR = pic["slave"].IRR /\ pic'["slave"].ISR = pic["slave"].ISR
           /\ pic'["slave"].Base = pic["slave"].Base
           /\ pic'["slave"].PreviousIRR = pic["slave"].PreviousIRR
           /\ Pic!Cascade \in pic'["master"].PreviousIRR <=> output
           /\ pic'["master"].ISR = pic["master"].ISR
           /\ pic'["master"].IRR \subseteq pic["master"].IRR \cup {Pic!Cascade}
           /\ ~ output => pic'["master"].IRR = pic["master"].IRR
<1> DEFINE output == Pic!GetIRQ(pic, "slave") # -1
           c == [pic["slave"] EXCEPT !.InterruptOutput = output]
           m == pic["master"]
           d == Pic!SetIRQ(m, Pic!Cascade, output)
<1>1. pic \in [Pic!Pics -> Pic!Registers] /\ Plain(m) /\ Plain(pic["slave"])
  BY PicsAre DEF Inv, PicInv
<1>2. output \in BOOLEAN /\ (output => Line \in pic["slave"].IRR)
  BY RequestsAre
<1>3. pic' = [pic EXCEPT !["slave"].InterruptOutput = output, !["master"] = d]
  BY LineIs DEF Pic!UpdateSlave, Pic!Slave, Pic!Master
<1> HIDE DEF output
<1>4. /\ Plain(c) /\ c.InterruptOutput = output
      /\ c.IRR = pic["slave"].IRR /\ c.ISR = pic["slave"].ISR
      /\ c.PreviousIRR = pic["slave"].PreviousIRR /\ c.Base = pic["slave"].Base
  BY <1>1, <1>2, OutputSet
<1>5. Pic!Cascade \in 0 .. 7
  BY LineIs
<1> HIDE DEF m, d
<1>6. /\ Plain(d) /\ d.ISR = m.ISR
      /\ Pic!Cascade \in d.PreviousIRR <=> output
      /\ d.IRR \subseteq m.IRR \cup {Pic!Cascade}
      /\ ~ output => d.IRR = m.IRR
  <2>1. d = Pic!SetIRQ(m, Pic!Cascade, output)
    BY DEF d
  <2>2. CASE output = TRUE
    <3>1. d = Raised(m, Pic!Cascade)
      BY <2>1, <2>2 DEF Raised
    <3>2. /\ Plain(d) /\ d.ISR = m.ISR
          /\ d.PreviousIRR = m.PreviousIRR \cup {Pic!Cascade}
          /\ Pic!Cascade \notin m.PreviousIRR => d.IRR = m.IRR \cup {Pic!Cascade}
          /\ Pic!Cascade \in m.PreviousIRR => d.IRR = m.IRR
      BY <1>1, <1>5, <3>1, LevelRaised
    <3> QED BY <2>2, <3>2
  <2>3. CASE output = FALSE
    <3>1. d = Lowered(m, Pic!Cascade)
      BY <2>1, <2>3 DEF Lowered
    <3>2. /\ Plain(d) /\ d.ISR = m.ISR
          /\ d.PreviousIRR = m.PreviousIRR \ {Pic!Cascade} /\ d.IRR = m.IRR
      BY <1>1, <1>5, <3>1, LevelLowered
    <3> QED BY <2>3, <3>2
  <2> QED BY <1>2, <2>2, <2>3
<1>7. c \in Pic!Registers /\ d \in Pic!Registers
  BY <1>4, <1>6 DEF Plain
<1>8. /\ pic' \in [Pic!Pics -> Pic!Registers]
      /\ pic'["slave"] = c /\ pic'["master"] = d
  <2>1. pic' = [pic EXCEPT !["slave"] = c, !["master"] = d]
    BY <1>3 DEF c
  <2> HIDE DEF c
  <2> QED BY <1>1, <1>7, <2>1, PicsAre
<1>9. \A p \in Pic!Pics : Plain(pic'[p])
  BY <1>4, <1>6, <1>8, PicsAre
<1> HIDE DEF c
<1> QED BY <1>2, <1>4, <1>6, <1>8, <1>9 DEF m

LEMMA UpdateSlaveKeepsInv ==
  ASSUME Inv, Pic!UpdateSlave, UNCHANGED vpVars,
         UNCHANGED <<busVars, access, setup, todo, requested, anyTime>>
  PROVE  Inv'
<1>1. PICK output \in BOOLEAN :
           /\ output => Line \in pic["slave"].IRR
           /\ pic' \in [Pic!Pics -> Pic!Registers]
           /\ \A p \in Pic!Pics : Plain(pic'[p])
           /\ pic'["slave"].InterruptOutput = output
           /\ pic'["slave"].IRR = pic["slave"].IRR /\ pic'["slave"].ISR = pic["slave"].ISR
           /\ pic'["slave"].Base = pic["slave"].Base
           /\ pic'["slave"].PreviousIRR = pic["slave"].PreviousIRR
           /\ Pic!Cascade \in pic'["master"].PreviousIRR <=> output
           /\ pic'["master"].ISR = pic["master"].ISR
           /\ pic'["master"].IRR \subseteq pic["master"].IRR \cup {Pic!Cascade}
           /\ ~ output => pic'["master"].IRR = pic["master"].IRR
  BY SlaveCascades
<1>2. pc = "UpdateSlave" /\ pc' = "UpdateMaster" /\ calls' = calls
  BY DEF Pic!UpdateSlave
<1>3. /\ pending' = pending /\ injected' = injected /\ at' = at /\ todo' = todo
      /\ requested' = requested /\ line' = line /\ access' = access /\ setup' = setup
  BY DEF vpVars, busVars
<1>4. access = <<>> /\ calls # <<MasterCall>>
  BY <1>2 DEF Inv, CallInv
<1>5. SetupInv' /\ (Unbased' <=> Unbased) /\ (Initialising' <=> Initialising)
      /\ (\A w : ~ Writing(w)') /\ (serving' <=> serving)
      /\ (Carried' <=> Carried) /\ (OnTheWay' <=> OnTheWay)
  BY <1>2, <1>3, <1>4
     DEF Inv, SetupInv, Unbased, Initialising, Writing, serving, Carried, OnTheWay
<1> HIDE DEF serving
<1>6. output => requested /\ ~ OnTheWay /\ ~ serving /\ ~ Initialising /\ calls = <<>>
  <2>1. output => requested /\ ~ OnTheWay /\ ~ serving
    BY <1>1 DEF Inv, RequestInv
  <2>2. output => ~ Initialising
    BY <1>1, PicsAre DEF Inv, QuietInv
  <2>3. calls # <<>> => OnTheWay
    BY <1>4 DEF Inv, CallInv, OnTheWay
  <2> QED BY <2>1, <2>2, <2>3
<1>7. PicInv'
  <2>1. /\ pic'["slave"].IRR \subseteq {LineAt("slave")}
        /\ pic'["slave"].ISR \subseteq {LineAt("slave")}
        /\ pic'["master"].ISR \subseteq {LineAt("master")}
    BY <1>1, PicsAre DEF Inv, PicInv
  <2>2. pic'["master"].IRR \subseteq {LineAt("master")}
    BY <1>1, PicsAre DEF Inv, PicInv, LineAt
  <2> QED BY <1>1, <1>5, <2>1, <2>2, PicsAre DEF Inv, PicInv
<1>8. CallInv'
  BY <1>2, <1>3, <1>4 DEF Inv, CallInv
<1>9. HeldInv'
  BY <1>1, <1>2, <1>3, <1>5 DEF Inv, HeldInv
<1>10. QuietInv'
  BY <1>1, <1>3, <1>5, <1>6, PicsAre DEF Inv, QuietInv
<1>11. LevelInv'
  BY <1>1, <1>3 DEF Inv, LevelInv
<1>12. RequestInv'
  BY <1>1, <1>2, <1>3, <1>5, <1>6 DEF Inv, RequestInv
<1> QED BY <1>5, <1>7, <1>8, <1>9, <1>10, <1>11, <1>12 DEF Inv

LEMMA UpdateMasterIdleKeepsInv ==
  ASSUME Inv, Pic!UpdateMasterIdle, UNCHANGED vpVars,
         UNCHANGED <<busVars, access, setup, todo, requested, anyTime>>
  PROVE  Inv'
<1> DEFINE d == [pic["master"] EXCEPT !.InterruptOutput = FALSE]
<1>1. pic \in [Pic!Pics -> Pic!Registers] /\ Plain(pic["master"])
  BY PicsAre DEF Inv, PicInv
<1>2. /\ pc = "UpdateMaster" /\ calls' = calls
      /\ pc' = IF calls = <<>> THEN "Rest" ELSE "GetCurrentIRQ"
      /\ pic' = [pic EXCEPT !["master"] = d]
  BY DEF Pic!UpdateMasterIdle, Pic!Master
<1> HIDE DEF d
<1>3. /\ Plain(d) /\ d.IRR = pic["master"].IRR /\ d.ISR = pic["master"].ISR
      /\ d.PreviousIRR = pic["master"].PreviousIRR
  BY <1>1 DEF d, Plain, Pic!Registers
<1>4. /\ pic' \in [Pic!Pics -> Pic!Registers]
      /\ pic'["master"] = d /\ pic'["slave"] = pic["slave"]
  BY <1>1, <1>2, <1>3, PicsAre, Updated DEF Plain
<1>5. /\ pending' = pending /\ injected' = injected /\ at' = at /\ todo' = todo
      /\ requested' = requested /\ line' = line /\ access' = access /\ setup' = setup
  BY DEF vpVars, busVars
<1>6. access = <<>>
  BY <1>2 DEF Inv, CallInv
<1>7. SetupInv' /\ (Unbased' <=> Unbased) /\ (Initialising' <=> Initialising)
      /\ (\A w : ~ Writing(w)') /\ (serving' <=> serving)
      /\ (Carried' <=> Carried) /\ (OnTheWay' <=> OnTheWay)
  BY <1>2, <1>5, <1>6
     DEF Inv, SetupInv, Unbased, Initialising, Writing, serving, Carried, OnTheWay
<1> HIDE DEF serving
<1>8. PicInv'
  BY <1>3, <1>4, <1>7, PicsAre DEF Inv, PicInv
<1>9. CallInv'
  BY <1>2, <1>5, <1>6 DEF Inv, CallInv
<1>10. HeldInv'
  BY <1>2, <1>3, <1>4, <1>5, <1>7 DEF Inv, HeldInv
<1>11. QuietInv'
  BY <1>3, <1>4, <1>5, <1>7, PicsAre DEF Inv, QuietInv
<1>12. LevelInv'
  BY <1>2, <1>3, <1>4, <1>5 DEF Inv, LevelInv
<1>13. RequestInv'
  BY <1>2, <1>3, <1>4, <1>5, <1>7 DEF Inv, RequestInv
<1> QED BY <1>7, <1>8, <1>9, <1>10, <1>11, <1>12, <1>13 DEF Inv

\* The master acknowledges the slave's line only when nothing carries its
\* service.
LEMMA UpdateMasterPendingKeepsInv ==
  ASSUME Inv, Pic!UpdateMasterPending, UNCHANGED vpVars,
         UNCHANGED <<busVars, access, setup, todo, requested, anyTime>>
  PROVE  Inv'
<1> DEFINE c == [pic["master"] EXCEPT !.InterruptOutput = TRUE]
           d == Pic!AcknowledgeIRQ(c, Pic!Cascade)
<1>1. pic \in [Pic!Pics -> Pic!Registers] /\ Plain(pic["master"])
  BY PicsAre DEF Inv, PicInv
<1>2. /\ Pic!GetIRQ(pic, "master") = Pic!Cascade
      /\ Pic!Cascade \in pic["master"].IRR /\ Pic!Cascade \notin pic["master"].ISR
  BY RequestsAre, LineIs DEF Pic!UpdateMasterPending, Pic!Master
<1>3. /\ pc = "UpdateMaster" /\ pc' = pc
      /\ calls' = Append(calls, MasterCall)
      /\ pic' = [pic EXCEPT !["master"] = d]
  BY <1>2 DEF Pic!UpdateMasterPending, Pic!Master, MasterCall
<1> HIDE DEF c, d
<1>4. /\ Plain(c) /\ c.IRR = pic["master"].IRR /\ c.ISR = pic["master"].ISR
      /\ c.PreviousIRR = pic["master"].PreviousIRR
  BY <1>1 DEF c, Plain, Pic!Registers
<1>5. /\ Plain(d) /\ d.IRR = pic["master"].IRR \ {Pic!Cascade}
      /\ d.ISR = pic["master"].ISR \cup {Pic!Cascade}
      /\ d.PreviousIRR = pic["master"].PreviousIRR
  <2>1. Pic!Cascade \in 0 .. 7
    BY LineIs
  <2>2. d = Pic!AcknowledgeIRQ(c, Pic!Cascade)
    BY DEF d
  <2>3. /\ Plain(d) /\ d.IRR = c.IRR \ {Pic!Cascade} /\ d.ISR = c.ISR \cup {Pic!Cascade}
        /\ d.PreviousIRR = c.PreviousIRR
    BY <1>4, <2>1, <2>2, Acknowledged
  <2> QED BY <1>4, <2>3
<1>6. /\ pic' \in [Pic!Pics -> Pic!Registers]
      /\ pic'["master"] = d /\ pic'["slave"] = pic["slave"]
  BY <1>1, <1>3, <1>5, PicsAre, Updated DEF Plain
<1>7. /\ pending' = pending /\ injected' = injected /\ at' = at /\ todo' = todo
      /\ requested' = requested /\ line' = line /\ access' = access /\ setup' = setup
  BY DEF vpVars, busVars
<1>8. access = <<>> /\ ~ Carried /\ EndMaster \notin todo /\ ~ Initialising
  BY <1>2, <1>3, PicsAre DEF Inv, CallInv, HeldInv, QuietInv
<1>9. calls = <<>> /\ pending = <<>> /\ injected = <<>>
  BY <1>8 DEF Carried
<1>10. calls' = <<MasterCall>> /\ calls' # <<>> /\ calls' # <<SlaveCall>>
  <2>1. MasterCall # SlaveCall
    BY DEF MasterCall, SlaveCall
  <2>2. <<MasterCall>>[1] = MasterCall /\ <<SlaveCall>>[1] = SlaveCall
    BY OneElement
  <2> HIDE DEF MasterCall, SlaveCall
  <2> QED BY <1>3, <1>9, <2>1, <2>2, OneElement
<1>11. ~ OnTheWay /\ ~ OnTheWay'
  BY <1>7, <1>9, <1>10, OneElement DEF OnTheWay
<1>12. SetupInv' /\ (Unbased' <=> Unbased) /\ (Initialising' <=> Initialising)
      /\ (\A w : ~ Writing(w)') /\ (serving' <=> serving)
  BY <1>7, <1>8 DEF Inv, SetupInv, Unbased, Initialising, Writing, serving
<1>13. ~ serving
  BY <1>2 DEF Inv, RequestInv
<1> HIDE DEF serving
<1>14. PicInv'
  <2>1. LineAt("master") = Pic!Cascade
    BY DEF LineAt
  <2> QED BY <1>5, <1>6, <1>12, <2>1, PicsAre DEF Inv, PicInv
<1>15. CallInv'
  BY <1>3, <1>7, <1>8, <1>10 DEF Inv, CallInv
<1>16. HeldInv'
  BY <1>5, <1>6, <1>7, <1>8, <1>9, <1>12 DEF Inv, HeldInv
<1>17. QuietInv'
  BY <1>8, <1>12 DEF QuietInv
<1>18. LevelInv'
  BY <1>3, <1>5, <1>6, <1>7 DEF Inv, LevelInv
<1>19. RequestInv'
  BY <1>5, <1>6, <1>7, <1>11, <1>12, <1>13 DEF Inv, RequestInv
<1> QED BY <1>12, <1>14, <1>15, <1>16, <1>17, <1>18, <1>19 DEF Inv

LEMMA CallsAre ==
  /\ MasterCall # SlaveCall
  /\ <<MasterCall>> # <<SlaveCall>> /\ <<MasterCall>> # <<>> /\ <<SlaveCall>> # <<>>
  /\ <<BusVector>> # <<SpuriousVector>> /\ <<BusVector>> # <<>> /\ <<SpuriousVector>> # <<>>
<1>1. MasterCall # SlaveCall
  BY DEF MasterCall, SlaveCall
<1>2. <<MasterCall>>[1] = MasterCall /\ <<SlaveCall>>[1] = SlaveCall
  BY OneElement
<1>3. BusVector = 43 /\ SpuriousVector = 47
  BY LineIs DEF BusVector, SpuriousVector, SlaveBase
<1>4. <<BusVector>>[1] = BusVector /\ <<SpuriousVector>>[1] = SpuriousVector
  BY OneElement
<1> HIDE DEF MasterCall, SlaveCall
<1> QED BY <1>1, <1>2, <1>3, <1>4, OneElement

LEMMA AcknowledgeSlaveKeepsInv ==
  ASSUME Inv, Pic!AcknowledgeSlave, UNCHANGED vpVars,
         UNCHANGED <<busVars, access, setup, todo, requested, anyTime>>
  PROVE  Inv'
<1> DEFINE d == Pic!AcknowledgeIRQ(pic["slave"], Line)
<1>1. pic \in [Pic!Pics -> Pic!Registers] /\ Plain(pic["slave"])
  BY PicsAre DEF Inv, PicInv
<1>2. Pic!GetIRQ(pic, "slave") = Line /\ Line \in pic["slave"].IRR
  BY RequestsAre, LineIs DEF Pic!AcknowledgeSlave, Pic!Slave
<1>3. /\ pc = "GetCurrentIRQ" /\ pc' = "UpdateSlave"
      /\ Pic!Top = MasterCall
      /\ calls' = Append(Pic!Callers, SlaveCall)
      /\ pic' = [pic EXCEPT !["slave"] = d]
  BY <1>2 DEF Pic!AcknowledgeSlave, Pic!Slave, Pic!Master, MasterCall, SlaveCall
<1> HIDE DEF d
<1>4. /\ Plain(d) /\ d.IRR = pic["slave"].IRR \ {Line}
      /\ d.ISR = pic["slave"].ISR \cup {Line}
      /\ d.PreviousIRR = pic["slave"].PreviousIRR /\ d.Base = pic["slave"].Base
      /\ d.InterruptOutput = pic["slave"].InterruptOutput
  <2>1. Line \in 0 .. 7
    BY LineIs
  <2>2. d = Pic!AcknowledgeIRQ(pic["slave"], Line)
    BY DEF d
  <2> QED BY <1>1, <2>1, <2>2, Acknowledged
<1>5. /\ pic' \in [Pic!Pics -> Pic!Registers]
      /\ pic'["slave"] = d /\ pic'["master"] = pic["master"]
  BY <1>1, <1>3, <1>4, PicsAre, Updated DEF Plain
<1>6. /\ pending' = pending /\ injected' = injected /\ at' = at /\ todo' = todo
      /\ requested' = requested /\ line' = line /\ access' = access /\ setup' = setup
  BY DEF vpVars, busVars
<1>7. calls # <<>> /\ access = <<>>
  BY <1>3 DEF Inv, CallInv
<1>8. calls = <<MasterCall>>
  <2>1. CASE calls = <<SlaveCall>>
    <3>1. Pic!Top = SlaveCall
      BY <2>1, OneElement DEF Pic!Top
    <3> QED BY <1>3, <3>1, CallsAre
  <2> QED BY <1>7, <2>1 DEF Inv, CallInv
<1>9. calls' = <<SlaveCall>>
  <2>1. Pic!Callers = <<>>
    BY <1>8, OneElement DEF Pic!Callers
  <2> QED BY <1>3, <2>1, OneElement
<1>10. pending = <<>> /\ injected = <<>> /\ EndMaster \notin todo
       /\ Pic!Cascade \in pic["master"].ISR /\ ~ Initialising
  BY <1>2, <1>7, PicsAre DEF Inv, HeldInv, QuietInv, Carried
<1>11. requested /\ line /\ ~ serving /\ Pic!Cascade \notin pic["master"].IRR
  BY <1>2, <1>7 DEF Inv, RequestInv
<1>12. SetupInv' /\ (Unbased' <=> Unbased) /\ (Initialising' <=> Initialising)
      /\ (\A w : ~ Writing(w)') /\ (serving' <=> serving)
  BY <1>6, <1>7 DEF Inv, SetupInv, Unbased, Initialising, Writing, serving
<1> HIDE DEF serving
<1>13. PicInv'
  <2>1. LineAt("slave") = Line
    BY DEF LineAt, Line
  <2> QED BY <1>4, <1>5, <1>12, <2>1, PicsAre DEF Inv, PicInv
<1>14. CallInv'
  BY <1>3, <1>6, <1>7, <1>9, CallsAre DEF Inv, CallInv
<1>15. HeldInv'
  BY <1>5, <1>6, <1>9, <1>10, <1>12, CallsAre DEF HeldInv, Carried
<1>16. QuietInv'
  BY <1>10, <1>12 DEF QuietInv
<1>17. LevelInv'
  BY <1>3, <1>4, <1>5, <1>6 DEF Inv, LevelInv
<1>18. RequestInv'
  BY <1>4, <1>5, <1>6, <1>11, <1>12 DEF RequestInv
<1> QED BY <1>12, <1>13, <1>14, <1>15, <1>16, <1>17, <1>18 DEF Inv

\* The vector names the line of the bus if its request was acknowledged.
LEMMA VectorIs ==
  ASSUME Inv, Pic!Interrupt
  PROVE  /\ calls # <<>> /\ calls' = <<>> /\ pc' = "Rest" /\ pic' = pic
         /\ Pic!Vector = IF calls = <<SlaveCall>> THEN BusVector ELSE SpuriousVector
<1>1. calls = <<MasterCall>> \/ calls = <<SlaveCall>>
  BY DEF Inv, CallInv, Pic!Interrupt
<1>2. Len(calls) = 1 /\ Pic!Callers = <<>>
  BY <1>1, OneElement DEF Pic!Callers
<1>3. ~ Initialising
  BY <1>1, CallsAre, PicsAre DEF Inv, HeldInv, Carried, QuietInv
<1>4. pic["slave"].Base = SlaveBase
  <2>1. Len(setup) = 0
    BY <1>3 DEF Initialising
  <2> QED BY <2>1 DEF Inv, PicInv, Unbased
<1>5. CASE calls = <<MasterCall>>
  <2>1. Pic!Top = MasterCall
    BY <1>5, OneElement DEF Pic!Top
  <2>2. Pic!Vector = SlaveBase + 8 - 1
    BY <1>4, <2>1 DEF Pic!Vector, MasterCall, Pic!Master, Pic!Slave
  <2>3. Pic!Vector = SpuriousVector
    BY <2>2 DEF SpuriousVector, SlaveBase
  <2> QED BY <1>2, <1>5, <2>3, CallsAre DEF Pic!Interrupt
<1>6. CASE calls = <<SlaveCall>>
  <2>1. Pic!Top = SlaveCall
    BY <1>6, OneElement DEF Pic!Top
  <2>2. Pic!Top # [pic |-> Pic!Master, irq |-> Pic!Cascade]
    BY <2>1, CallsAre DEF MasterCall, Pic!Master
  <2>3. Pic!Top.pic = "slave" /\ Pic!Top.irq = Line
    BY <2>1 DEF SlaveCall
  <2>4. Pic!Vector = BusVector
    BY <1>4, <2>2, <2>3 DEF Pic!Vector, BusVector
  <2> QED BY <1>2, <1>6, <2>4, CallsAre DEF Pic!Interrupt
<1> QED BY <1>1, <1>5, <1>6

LEMMA InterruptKeepsInv ==
  ASSUME Inv, Interrupt,
         UNCHANGED <<busVars, access, setup, todo, requested, anyTime>>
  PROVE  Inv'
<1>1. /\ calls # <<>> /\ calls' = <<>> /\ pc' = "Rest" /\ pic' = pic
      /\ Pic!Vector = IF calls = <<SlaveCall>> THEN BusVector ELSE SpuriousVector
      /\ pc = "GetCurrentIRQ"
  BY VectorIs DEF Interrupt, Pic!Interrupt
<1>2. /\ at' = at /\ injected' = injected /\ todo' = todo
      /\ requested' = requested /\ line' = line /\ access' = access /\ setup' = setup
      /\ pending' = Append(pending, Pic!Vector)
  BY DEF Interrupt, Vp!EnqueueInterrupt, busVars
<1>3. pending = <<>> /\ injected = <<>> /\ Carried /\ access = <<>>
  BY <1>1 DEF Inv, HeldInv, Carried, CallInv
<1>4. pending' = IF calls = <<SlaveCall>> THEN <<BusVector>> ELSE <<SpuriousVector>>
  BY <1>1, <1>2, <1>3, OneElement
<1>5. Carried' /\ (OnTheWay' <=> OnTheWay)
  BY <1>1, <1>2, <1>3, <1>4, CallsAre DEF Carried, OnTheWay
<1>6. SetupInv' /\ (Unbased' <=> Unbased) /\ (Initialising' <=> Initialising)
      /\ (\A w : ~ Writing(w)') /\ (serving' <=> serving)
  BY <1>2, <1>3 DEF Inv, SetupInv, Unbased, Initialising, Writing, serving
<1> HIDE DEF serving
<1>7. PicInv'
  BY <1>1, <1>6 DEF Inv, PicInv
<1>8. CallInv'
  BY <1>1, <1>2, <1>3, <1>4, CallsAre DEF Inv, CallInv, VectorsOnTheWay
<1>9. HeldInv'
  BY <1>1, <1>2, <1>3, <1>5, <1>6 DEF Inv, HeldInv
<1>10. QuietInv'
  BY <1>1, <1>2, <1>6 DEF Inv, QuietInv
<1>11. LevelInv'
  BY <1>1, <1>2 DEF Inv, LevelInv
<1>12. RequestInv'
  BY <1>1, <1>2, <1>3, <1>5, <1>6 DEF Inv, RequestInv
<1> QED BY <1>6, <1>7, <1>8, <1>9, <1>10, <1>11, <1>12 DEF Inv

LEMMA UpdateIRQKeepsInv ==
  ASSUME Inv, UpdateIRQ
  PROVE  Inv'
BY InterruptKeepsInv, UpdateSlaveKeepsInv, UpdateMasterIdleKeepsInv,
   UpdateMasterPendingKeepsInv, AcknowledgeSlaveKeepsInv DEF UpdateIRQ

\* Run hands the vector on: it stays with one holder.
LEMMA RunFrameKeepsInv ==
  ASSUME Inv, RunFrame
  PROVE  Inv'
<1>1. /\ pic' = pic /\ pc' = pc /\ calls' = calls /\ line' = line /\ access' = access
      /\ setup' = setup /\ todo' = todo /\ requested' = requested
  BY DEF RunFrame, picVars, busVars
<1>2. access = <<>> /\ pc = "Rest"
  BY DEF Inv, CallInv, RunFrame, Vp!ReturnFromIO, Vp!RunIdle, Vp!RunInject, Vp!RunRequestWindow
<1>3. \/ pending' = pending /\ injected' = injected
      \/ pending # <<>> /\ injected' = <<Head(pending)>> /\ pending' = Tail(pending)
  BY DEF RunFrame, Vp!ReturnFromIO, Vp!RunIdle, Vp!RunInject, Vp!RunRequestWindow
<1>4. \/ pending' = pending /\ injected' = injected
      \/ pending # <<>> /\ injected = <<>> /\ injected' = pending /\ pending' = <<>>
  <2>1. pending \in VectorsOnTheWay /\ (pending # <<>> => injected = <<>>)
    BY DEF Inv, CallInv, HeldInv
  <2>2. pending # <<>> => <<Head(pending)>> = pending /\ Tail(pending) = <<>>
    <3>1. CASE pending = <<BusVector>>
      BY <3>1, OneElement
    <3>2. CASE pending = <<SpuriousVector>>
      BY <3>2, OneElement
    <3> QED BY <2>1, <3>1, <3>2 DEF VectorsOnTheWay
  <2> QED BY <1>3, <2>1, <2>2
<1>5. (Carried' <=> Carried) /\ (OnTheWay' <=> OnTheWay)
  BY <1>1, <1>4, CallsAre DEF Carried, OnTheWay
<1>6. SetupInv' /\ (Unbased' <=> Unbased) /\ (Initialising' <=> Initialising)
      /\ (\A w : ~ Writing(w)') /\ (serving' <=> serving)
  BY <1>1, <1>2 DEF Inv, SetupInv, Unbased, Initialising, Writing, serving
<1> HIDE DEF serving
<1>7. PicInv'
  BY <1>1, <1>6 DEF Inv, PicInv
<1>8. CallInv'
  BY <1>1, <1>2, <1>4 DEF Inv, CallInv, VectorsOnTheWay
<1>9. HeldInv'
  BY <1>1, <1>4, <1>5, <1>6 DEF Inv, HeldInv
<1>10. QuietInv'
  BY <1>1, <1>6 DEF Inv, QuietInv
<1>11. LevelInv'
  BY <1>1 DEF Inv, LevelInv
<1>12. RequestInv'
  BY <1>1, <1>5, <1>6 DEF Inv, RequestInv
<1> QED BY <1>6, <1>7, <1>8, <1>9, <1>10, <1>11, <1>12 DEF Inv

-----------------------------------------------------------------------------
(* The guest's steps keep the invariant.                                   *)

LEMMA OutIs ==
  ASSUME Inv, NEW w, Out(w)
  PROVE  /\ pic' = pic /\ pc' = pc /\ calls' = calls /\ line' = line
         /\ pending' = pending /\ injected' = injected /\ at' = "IO"
         /\ access' = <<w>> /\ access' # <<>> /\ access'[1] = w
         /\ access = <<>> /\ pc = "Rest" /\ calls = <<>> /\ injected = <<>>
         /\ \A v : Writing(v)' <=> v = w
         /\ \A v : ~ Writing(v)
<1>1. /\ pic' = pic /\ pc' = pc /\ calls' = calls /\ line' = line
      /\ pending' = pending /\ injected' = injected /\ at' = "IO" /\ at = "Guest"
      /\ access' = <<w>> /\ injected = <<>>
  BY DEF Out, Vp!ExitIO, Vp!Exit, picVars, busVars
<1>2. access = <<>> /\ pc = "Rest" /\ calls = <<>>
  BY <1>1 DEF Inv, CallInv
<1>3. access' # <<>> /\ access'[1] = w
  BY <1>1, OneElement
<1> QED BY <1>1, <1>2, <1>3 DEF Writing

\* A write that neither requests nor completes a transaction, nor ends the
\* service of the master.
LEMMA OutKeepsInv ==
  ASSUME Inv, NEW w, Out(w), SetupInv', Unbased' => Unbased, Unbased => Unbased',
         Initialising' => Initialising, todo' = todo, requested' = requested,
         w \notin {Enable, ClearStatus, EndMaster}
  PROVE  Inv'
<1>1. /\ pic' = pic /\ pc' = pc /\ calls' = calls /\ line' = line
      /\ pending' = pending /\ injected' = injected /\ at' = "IO"
      /\ pc = "Rest" /\ \A v : Writing(v)' <=> v = w
  BY OutIs
<1>2. (Carried' <=> Carried) /\ (OnTheWay' <=> OnTheWay) /\ (serving' <=> serving)
  BY <1>1 DEF Carried, OnTheWay, serving
<1>3. ~ Writing(Enable)' /\ ~ Writing(ClearStatus)' /\ ~ Writing(EndMaster)'
  BY <1>1
<1> HIDE DEF serving
<1>4. PicInv'
  BY <1>1 DEF Inv, PicInv
<1>5. CallInv'
  BY <1>1 DEF Inv, CallInv
<1>6. HeldInv'
  BY <1>1, <1>2, <1>3 DEF Inv, HeldInv
<1>7. QuietInv'
  BY <1>1 DEF Inv, QuietInv
<1>8. LevelInv'
  BY <1>1 DEF Inv, LevelInv
<1>9. RequestInv'
  BY <1>1, <1>2, <1>3 DEF Inv, RequestInv
<1> QED BY <1>4, <1>5, <1>6, <1>7, <1>8, <1>9 DEF Inv

LEMMA ProgramKeepsInv ==
  ASSUME Inv, Program
  PROVE  Inv'
<1> DEFINE n == Len(setup)
           w == Head(setup)
<1>1. SetupInv /\ setup # <<>> /\ Out(w) /\ setup' = Tail(setup)
      /\ todo' = todo /\ requested' = requested
  BY DEF Inv, Program
<1>2. setup \in Seq(SetupWrites) /\ n \in 1 .. 9
      /\ setup = [k \in 1 .. n |-> Setup[9 - n + k]]
  <2>1. n # 0
    BY <1>1, SetupLeft
  <2>2. n \in 0 .. 9 /\ setup = [k \in 1 .. n |-> Setup[9 - n + k]]
    BY <1>1 DEF SetupInv
  <2>3. setup \in Seq(SetupWrites)
    BY <1>1, SetupLeft
  <2> HIDE DEF n
  <2> QED BY <2>1, <2>2, <2>3
<1>3. w \in SetupWrites /\ w = Setup[9 - (n - 1)]
  <2>1. w = setup[1] /\ w \in SetupWrites
    BY <1>1, <1>2, HeadTailProperties
  <2> HIDE DEF n, w
  <2>2. 1 \in 1 .. n /\ 9 - n + 1 = 9 - (n - 1)
    BY <1>2
  <2> QED BY <1>2, <2>1, <2>2
<1>4. Len(setup') = n - 1 /\ \A k \in 1 .. n - 1 : setup'[k] = setup[k + 1]
  BY <1>1, <1>2, HeadTailProperties
<1>5. access' # <<>> /\ access'[1] = w /\ access = <<>>
  BY <1>1, OutIs
<1>6. setup' = [k \in 1 .. n - 1 |-> Setup[9 - (n - 1) + k]]
  <2>1. setup' \in Seq(SetupWrites)
    BY <1>1, <1>2, HeadTailProperties
  <2>2. setup' \in [1 .. Len(setup') -> SetupWrites]
    BY <2>1, LenProperties
  <2> HIDE DEF n
  <2>3. \A k \in 1 .. n - 1 : k + 1 \in 1 .. n /\ 9 - n + (k + 1) = 9 - (n - 1) + k
    BY <1>2
  <2>4. \A k \in 1 .. n - 1 : setup'[k] = Setup[9 - (n - 1) + k]
    BY <1>2, <1>4, <2>3
  <2> QED BY <1>4, <2>2, <2>4
<1> HIDE DEF w
<1>7. SetupInv'
  <2> DEFINE m == n - 1
  <2>1. m \in 0 .. 9 /\ m < 9
    <3> HIDE DEF n
    <3> QED BY <1>2
  <2>2. Len(setup') = m /\ setup' = [k \in 1 .. m |-> Setup[9 - m + k]] /\ w = Setup[9 - m]
    BY <1>3, <1>4, <1>6
  <2>3. setup' = <<>> => access'[1] = Setup[9]
    <3>1. setup' = <<>> => m = 0
      BY <2>2
    <3> HIDE DEF m
    <3> QED BY <1>5, <2>2, <3>1
  <2> HIDE DEF m
  <2> QED BY <1>5, <2>1, <2>2, <2>3 DEF SetupInv
<1>8. Unbased' <=> Unbased
  <2>1. Len(setup') = Len(setup) - 1 /\ Len(setup) \in 1 .. 9
    BY <1>2, <1>4
  <2>2. PICK l \in 1 .. 9 : Len(setup) = l /\ Len(setup') = l - 1
    BY <2>1
  <2>3. (l > 3 <=> l - 1 > 3 \/ l - 1 = 3) /\ (l > 3 => l - 1 >= 3)
    BY <2>2
  <2> QED BY <1>5, <2>2, <2>3 DEF Unbased
<1>9. w \notin {Enable, ClearStatus, EndMaster}
  BY <1>3, SetupWritesAre DEF Enable, ClearStatus, EndMaster
<1>10. Initialising
  BY <1>1 DEF Initialising
<1> QED BY <1>1, <1>7, <1>8, <1>9, <1>10, OutKeepsInv

\* Once the initialisation is made it is not undone.
LEMMA LaterOut ==
  ASSUME Inv, NEW w \in LaterWrites, Out(w), setup = <<>>, setup' = setup
  PROVE  SetupInv' /\ ~ Initialising' /\ ~ Unbased /\ ~ Unbased'
<1>1. access' # <<>> /\ access'[1] = w
  BY OutIs
<1>2. Len(setup) = 0
  OBVIOUS
<1>3. w \notin SetupWrites
  BY SetupWritesAre, LaterWritesAre
<1>4. Len(setup') = 0 /\ setup' = <<>>
  BY <1>2
<1> QED BY <1>1, <1>2, <1>3, <1>4 DEF Inv, SetupInv, Initialising, Unbased

LEMMA RequestKeepsInv ==
  ASSUME Inv, RequestTransaction
  PROVE  Inv'
<1>1. Out(Enable) /\ setup = <<>> /\ setup' = setup /\ todo' = todo
      /\ ~ requested /\ requested' = TRUE
  BY DEF RequestTransaction, Enable
<1>2. Enable \in LaterWrites /\ Enable # ClearStatus /\ Enable # EndMaster
  BY LaterWritesAre DEF Enable, ClearStatus, EndMaster
<1>3. SetupInv' /\ ~ Initialising' /\ ~ Unbased /\ ~ Unbased'
  BY <1>1, <1>2, LaterOut
<1>4. /\ pic' = pic /\ pc' = pc /\ calls' = calls /\ line' = line
      /\ pending' = pending /\ injected' = injected /\ at' = "IO"
      /\ pc = "Rest" /\ (\A v : Writing(v)' <=> v = Enable)
  BY <1>1, OutIs
<1>5. (Carried' <=> Carried) /\ (OnTheWay' <=> OnTheWay) /\ (serving' <=> serving)
  BY <1>1, <1>4 DEF Carried, OnTheWay, serving
<1>6. ~ Writing(ClearStatus)' /\ ~ Writing(EndMaster)'
  BY <1>2, <1>4
<1> HIDE DEF serving
<1>7. PicInv'
  BY <1>3, <1>4 DEF Inv, PicInv
<1>8. CallInv'
  BY <1>1, <1>4 DEF Inv, CallInv
<1>9. HeldInv'
  BY <1>1, <1>4, <1>5, <1>6 DEF Inv, HeldInv
<1>10. QuietInv'
  BY <1>3 DEF QuietInv
<1>11. LevelInv'
  BY <1>4 DEF Inv, LevelInv
<1>12. RequestInv'
  BY <1>1, <1>4, <1>5, <1>6 DEF Inv, RequestInv
<1> QED BY <1>3, <1>7, <1>8, <1>9, <1>10, <1>11, <1>12 DEF Inv

LEMMA MaskKeepsInv ==
  ASSUME Inv, NEW p \in Pic!Pics, Mask(p) \/ Unmask(p)
  PROVE  Inv'
<1>1. PICK w \in {<<"Mask", p>>, <<"Unmask", p>>} : Out(w)
  BY DEF Mask, Unmask
<1>2. setup = <<>> /\ setup' = setup /\ todo' = todo /\ requested' = requested
  BY DEF Mask, Unmask
<1>3. w \in LaterWrites /\ w \notin {Enable, ClearStatus, EndMaster}
  BY PicsAre, LaterWritesAre DEF Enable, ClearStatus, EndMaster
<1>4. SetupInv' /\ ~ Initialising' /\ ~ Unbased /\ ~ Unbased'
  BY <1>1, <1>2, <1>3, LaterOut
<1> QED BY <1>1, <1>2, <1>3, <1>4, OutKeepsInv

\* The handler serves the vector the guest took.
LEMMA EnterHandlerIs ==
  ASSUME Inv, EnterHandler
  PROVE  /\ pic' = pic /\ pc' = pc /\ calls' = calls /\ line' = line
         /\ access' = access /\ setup' = setup /\ requested' = requested
         /\ pending' = pending /\ injected' = <<>> /\ at' = at
         /\ access = <<>> /\ pc = "Rest" /\ calls = <<>> /\ pending = <<>>
         /\ injected \in {<<BusVector>>, <<SpuriousVector>>}
         /\ EndMaster \in todo' /\ todo' \subseteq HandlerWrites
         /\ serving' <=> injected = <<BusVector>>
<1>1. /\ pic' = pic /\ pc' = pc /\ calls' = calls /\ line' = line
      /\ access' = access /\ setup' = setup /\ requested' = requested
      /\ pending' = pending /\ injected' = <<>> /\ at' = at
      /\ at = "Guest" /\ injected # <<>> /\ taken' = injected
      /\ todo' = IF injected = <<BusVector>> THEN HandlerWrites ELSE {EndMaster}
  BY DEF EnterHandler, Vp!TakeInterrupt, picVars, busVars, BusVector, Line, EndMaster
<1>2. /\ access = <<>> /\ pc = "Rest" /\ calls = <<>> /\ pending = <<>>
      /\ injected \in {<<BusVector>>, <<SpuriousVector>>}
  BY <1>1 DEF Inv, CallInv, HeldInv, VectorsOnTheWay
<1>3. EndMaster \in HandlerWrites /\ ClearStatus \in HandlerWrites /\ ClearStatus # EndMaster
  BY DEF HandlerWrites, ClearStatus, EndMaster
<1> QED BY <1>1, <1>2, <1>3 DEF serving

LEMMA EnterHandlerKeepsInv ==
  ASSUME Inv, EnterHandler
  PROVE  Inv'
<1>1. /\ pic' = pic /\ pc' = pc /\ calls' = calls /\ line' = line
      /\ access' = access /\ setup' = setup /\ requested' = requested
      /\ pending' = pending /\ injected' = <<>> /\ at' = at
      /\ access = <<>> /\ pc = "Rest" /\ calls = <<>> /\ pending = <<>>
      /\ injected \in {<<BusVector>>, <<SpuriousVector>>}
      /\ EndMaster \in todo' /\ todo' \subseteq HandlerWrites
      /\ serving' <=> injected = <<BusVector>>
  BY EnterHandlerIs
<1>2. Carried /\ ~ Carried' /\ ~ OnTheWay' /\ (injected = <<BusVector>> => OnTheWay)
  BY <1>1, CallsAre DEF Carried, OnTheWay
<1>3. SetupInv' /\ (Unbased' <=> Unbased) /\ (Initialising' <=> Initialising)
      /\ (\A w : ~ Writing(w)')
  BY <1>1 DEF Inv, SetupInv, Unbased, Initialising, Writing
<1>4. Pic!Cascade \in pic["master"].ISR /\ ~ Initialising
  BY <1>2, PicsAre DEF Inv, HeldInv, QuietInv
<1> HIDE DEF serving
<1>5. PicInv'
  BY <1>1, <1>3 DEF Inv, PicInv
<1>6. CallInv'
  BY <1>1 DEF Inv, CallInv, VectorsOnTheWay
<1>7. HeldInv'
  BY <1>1, <1>2, <1>3, <1>4 DEF HeldInv
<1>8. QuietInv'
  BY <1>3, <1>4 DEF QuietInv
<1>9. LevelInv'
  BY <1>1 DEF Inv, LevelInv
<1>10. RequestInv'
  BY <1>1, <1>2, <1>3 DEF Inv, RequestInv
<1> QED BY <1>3, <1>5, <1>6, <1>7, <1>8, <1>9, <1>10 DEF Inv

LEMMA HandlerWriteKeepsInv ==
  ASSUME Inv, HandlerWrite
  PROVE  Inv'
<1>1. PICK w \in todo : /\ Out(w) /\ todo' = todo \ {w}
                        /\ requested' = (requested /\ w # ClearStatus)
                        /\ setup' = setup
  BY DEF HandlerWrite
<1>2. /\ w \in HandlerWrites /\ w \in LaterWrites /\ w # Enable /\ ClearStatus # EndMaster
  BY <1>1, LaterWritesAre DEF Inv, CallInv, HandlerWrites, ClearStatus, EndMaster, Enable
<1>3. setup = <<>>
  BY <1>1 DEF Inv, QuietInv, Initialising
<1>4. SetupInv' /\ ~ Initialising' /\ ~ Unbased /\ ~ Unbased'
  BY <1>1, <1>2, <1>3, LaterOut
<1>5. /\ pic' = pic /\ pc' = pc /\ calls' = calls /\ line' = line
      /\ pending' = pending /\ injected' = injected /\ at' = "IO"
      /\ pc = "Rest" /\ (\A v : Writing(v)' <=> v = w) /\ \A v : ~ Writing(v)
  BY <1>1, OutIs
<1>6. (Carried' <=> Carried) /\ (OnTheWay' <=> OnTheWay)
  BY <1>5 DEF Carried, OnTheWay
<1>7. serving' <=> (serving /\ w # ClearStatus)
  BY <1>1 DEF serving
<1>8. w = ClearStatus => serving
  BY <1>1 DEF serving
<1> HIDE DEF serving
<1>9. PicInv'
  BY <1>4, <1>5 DEF Inv, PicInv
<1>10. CallInv'
  BY <1>1, <1>5 DEF Inv, CallInv
<1>11. HeldInv'
  BY <1>1, <1>5, <1>6 DEF Inv, HeldInv
<1>12. QuietInv'
  BY <1>4 DEF QuietInv
<1>13. LevelInv'
  BY <1>5 DEF Inv, LevelInv
<1>14. RequestInv'
  <2>1. ~ Writing(Enable)' /\ (Writing(ClearStatus)' <=> w = ClearStatus)
    BY <1>2, <1>5
  <2>2. requested' <=> (requested /\ w # ClearStatus)
    BY <1>1
  <2>3. CASE w # ClearStatus
    BY <1>5, <1>6, <1>7, <2>1, <2>2, <2>3 DEF Inv, RequestInv
  <2>4. CASE w = ClearStatus
    <3>1. /\ line /\ Line \notin pic["slave"].IRR /\ ~ Carried
          /\ Pic!Cascade \notin pic["master"].IRR
      BY <1>8, <2>4 DEF Inv, RequestInv
    <3>2. calls = <<>> /\ ~ OnTheWay
      BY <3>1, CallsAre DEF Carried, OnTheWay
    <3> QED BY <1>5, <1>6, <1>7, <2>1, <2>2, <2>4, <3>1, <3>2 DEF RequestInv
  <2> QED BY <2>3, <2>4
<1> QED BY <1>4, <1>9, <1>10, <1>11, <1>12, <1>13, <1>14 DEF Inv

\* The other steps of the guest, and steps that change nothing the invariant
\* speaks of but where the thread is.
LEMMA OtherKeepsInv ==
  ASSUME Inv, UNCHANGED <<picVars, busVars, access, setup, todo, requested>>,
         pending' = pending, injected' = injected,
         at' = at \/ (access = <<>> /\ pc = "Rest")
  PROVE  Inv'
<1>1. /\ pic' = pic /\ pc' = pc /\ calls' = calls /\ line' = line /\ access' = access
      /\ setup' = setup /\ todo' = todo /\ requested' = requested
  BY DEF picVars, busVars
<1>2. (Carried' <=> Carried) /\ (OnTheWay' <=> OnTheWay) /\ (serving' <=> serving)
      /\ (Unbased' <=> Unbased) /\ (Initialising' <=> Initialising)
      /\ (\A w : Writing(w)' <=> Writing(w))
  BY <1>1 DEF Carried, OnTheWay, serving, Unbased, Initialising, Writing
<1> HIDE DEF serving
<1>3. SetupInv' /\ PicInv' /\ LevelInv'
  BY <1>1, <1>2 DEF Inv, SetupInv, PicInv, LevelInv
<1>4. CallInv'
  BY <1>1 DEF Inv, CallInv
<1>5. HeldInv' /\ QuietInv' /\ RequestInv'
  BY <1>1, <1>2 DEF Inv, HeldInv, QuietInv, RequestInv
<1> QED BY <1>3, <1>4, <1>5 DEF Inv

LEMMA GuestKeepsInv ==
  ASSUME Inv, Guest
  PROVE  Inv'
<1>1. CASE SetInterruptFlag \/ ExitWindow \/ ExitOther
  <2>1. /\ UNCHANGED <<picVars, busVars, access, setup, todo, requested>>
        /\ pending' = pending /\ injected' = injected /\ at = "Guest"
    BY <1>1 DEF SetInterruptFlag, ExitWindow, ExitOther, Vp!SetInterruptFlag,
                Vp!ExitWindow, Vp!ExitOther, Vp!Exit
  <2>2. access = <<>> /\ pc = "Rest"
    BY <2>1 DEF Inv, CallInv
  <2> QED BY <2>1, <2>2, OtherKeepsInv
<1> QED BY <1>1, ProgramKeepsInv, RequestKeepsInv, MaskKeepsInv, EnterHandlerKeepsInv,
           HandlerWriteKeepsInv DEF Guest

LEMMA InvHolds ==
  Spec => []Inv
<1>1. Init => Inv
  <2> SUFFICES ASSUME Init PROVE Inv
    OBVIOUS
  <2>1. /\ pc = "Rest" /\ calls = <<>> /\ access = <<>> /\ pending = <<>> /\ injected = <<>>
        /\ line = FALSE /\ requested = FALSE /\ todo = {} /\ setup = Setup
        /\ pic = [p \in Pic!Pics |-> Pic!ResetRegisters([ELCR |-> {}])]
    BY DEF Init, Pic!Init, Bus!Init, Vp!Init
  <2> DEFINE d == Pic!ResetRegisters([ELCR |-> {}])
  <2>2. Plain(d) /\ d.IRR = {} /\ d.ISR = {} /\ d.PreviousIRR = {} /\ d.InterruptOutput = FALSE
    <3>1. d \in Pic!Registers
      BY LineIs DEF Pic!ResetRegisters, Pic!Registers
    <3>2. /\ d.ELCR = {} /\ d.PriorityAdd = 0 /\ d.SpecialMask = FALSE
          /\ d.AutoEOI = FALSE /\ d.SFNM = FALSE /\ d.IRR = {} /\ d.ISR = {}
          /\ d.PreviousIRR = {} /\ d.InterruptOutput = FALSE
      BY DEF Pic!ResetRegisters
    <3> HIDE DEF d
    <3> QED BY <3>1, <3>2 DEF Plain
  <2>3. \A p \in Pic!Pics : pic[p] = d
    BY <2>1
  <2> HIDE DEF d
  <2>4. pic["slave"] = d /\ pic["master"] = d
    BY <2>3, PicsAre
  <2>5. SetupInv /\ Unbased
    <3>1. Len(setup) = 9 /\ setup = Setup /\ setup # <<>>
      BY <2>1, SetupIs
    <3>2. Setup = [k \in 1 .. 9 |-> Setup[9 - 9 + k]]
      <4>1. Setup \in [1 .. 9 -> SetupWrites]
        <5>1. Setup \in Seq(SetupWrites)
          BY SetupWritesAre DEF Setup
        <5> QED BY <5>1, SetupIs, LenProperties
      <4>2. \A k \in 1 .. 9 : 9 - 9 + k = k
        OBVIOUS
      <4> QED BY <4>1, <4>2
    <3> QED BY <2>1, <3>1, <3>2 DEF SetupInv, Unbased
  <2>6. PicInv
    <3>1. pic \in [Pic!Pics -> Pic!Registers]
      BY <2>1, <2>2 DEF Plain, d
    <3> QED BY <2>2, <2>3, <2>5, <3>1 DEF PicInv
  <2>7. ~ Carried /\ ~ OnTheWay /\ ~ serving /\ \A w : ~ Writing(w)
    BY <2>1, CallsAre DEF Carried, OnTheWay, serving, Writing
  <2>8. CallInv
    BY <2>1 DEF CallInv, VectorsOnTheWay
  <2>9. HeldInv /\ QuietInv /\ LevelInv /\ RequestInv
    BY <2>1, <2>2, <2>3, <2>4, <2>7 DEF HeldInv, QuietInv, LevelInv, RequestInv
  <2> QED BY <2>5, <2>6, <2>8, <2>9 DEF Inv
<1>2. Inv /\ [Next]_vars => Inv'
  <2> SUFFICES ASSUME Inv, [Next]_vars PROVE Inv'
    OBVIOUS
  <2>1. CASE Host
    BY <2>1, IOWriteKeepsInv, UpdateIRQKeepsInv, RunFrameKeepsInv DEF Host
  <2>2. CASE Guest
    BY <2>2, GuestKeepsInv
  <2>3. CASE UNCHANGED vars
    BY <2>3, OtherKeepsInv DEF vars, vpVars
  <2> QED BY <2>1, <2>2, <2>3 DEF Next
<1> QED BY <1>1, <1>2, PTL DEF Spec

-----------------------------------------------------------------------------
(* What follows.                                                           *)

\* At most one vector is on its way to the guest, so that the request for an
\* interrupt window InjectInterrupt withdraws is never needed again: the service
\* of the slave's line at the master has one holder.
THEOREM OneInFlight == Spec => []OneVectorInFlight
<1>1. Inv => OneVectorInFlight
  <2> SUFFICES ASSUME Inv PROVE OneVectorInFlight
    OBVIOUS
  <2>1. /\ pending \in VectorsOnTheWay /\ injected \in VectorsOnTheWay
        /\ pending # <<>> => injected = <<>>
    BY DEF Inv, CallInv, HeldInv
  <2>2. Len(<<>>) = 0 /\ Len(<<BusVector>>) = 1 /\ Len(<<SpuriousVector>>) = 1
    BY OneElement
  <2> DEFINE m == Len(pending)
             n == Len(injected)
  <2>3. (m = 0 /\ n = 0) \/ (m = 0 /\ n = 1) \/ (m = 1 /\ n = 0)
    BY <2>1, <2>2 DEF VectorsOnTheWay
  <2>4. m + n <= 1
    <3> HIDE DEF m, n
    <3> QED BY <2>3
  <2> QED BY <2>4 DEF OneVectorInFlight
<1> QED BY <1>1, InvHolds, PTL

\* The level the bus drives is the level the slave controller saw last, and the
\* slave's output is the level the master saw last, whatever the guest masks and
\* acknowledges: no edge of the two lines is lost between accesses.
THEOREM LinesAlwaysAgree == Spec => []LinesAgree
<1>1. Inv => LinesAgree
  BY LineIs DEF Inv, LevelInv, LinesAgree, SMB_IRQ
<1> QED BY <1>1, InvHolds, PTL

\* A step of the composition is a step of the abstract service of the bus, or
\* none: entering the handler with the bus's vector serves the transaction, and
\* clearing the status completes it.
LEMMA ServiceStep ==
  ASSUME Inv, Next
  PROVE  [Service!Next]_(Service!vars)
<1>1. CASE Host
  <2>1. todo' = todo /\ requested' = requested
    BY <1>1 DEF Host, IOWrite, UpdateIRQ, RunFrame
  <2> QED BY <2>1 DEF Service!vars, serving
<1>2. CASE Program \/ SetInterruptFlag \/ ExitWindow \/ ExitOther
           \/ \E p \in Pic!Pics : Mask(p) \/ Unmask(p)
  <2>1. todo' = todo /\ requested' = requested
    BY <1>2 DEF Program, SetInterruptFlag, ExitWindow, ExitOther, Mask, Unmask
  <2> QED BY <2>1 DEF Service!vars, serving
<1>3. CASE RequestTransaction
  <2>1. todo' = todo /\ ~ requested /\ requested' = TRUE
    BY <1>3 DEF RequestTransaction
  <2>2. serving' = serving
    BY <2>1 DEF serving
  <2> QED BY <2>1, <2>2 DEF Service!Next, Service!Request
<1>4. CASE EnterHandler
  <2>1. /\ requested' = requested /\ injected \in {<<BusVector>>, <<SpuriousVector>>}
        /\ serving' <=> injected = <<BusVector>>
    BY <1>4, EnterHandlerIs
  <2>2. Carried /\ (injected = <<BusVector>> => OnTheWay)
    BY <2>1, CallsAre DEF Carried, OnTheWay
  <2>3. ~ serving /\ (injected = <<BusVector>> => requested = TRUE)
    <3>1. requested \in BOOLEAN
      BY DEF Inv, CallInv
    <3> HIDE DEF serving
    <3> QED BY <2>2, <3>1 DEF Inv, RequestInv
  <2>4. serving' \in BOOLEAN /\ serving \in BOOLEAN
    BY DEF serving
  <2> HIDE DEF serving
  <2>5. CASE injected = <<BusVector>>
    BY <2>1, <2>3, <2>4, <2>5 DEF Service!Next, Service!Serve
  <2>6. CASE injected # <<BusVector>>
    BY <2>1, <2>3, <2>4, <2>6 DEF Service!vars
  <2> QED BY <2>5, <2>6
<1>5. CASE HandlerWrite
  <2>1. PICK w \in todo : /\ todo' = todo \ {w}
                          /\ requested' = (requested /\ w # ClearStatus)
    BY <1>5 DEF HandlerWrite
  <2>2. requested \in BOOLEAN
    BY DEF Inv, CallInv
  <2>3. CASE w = ClearStatus
    <3>1. serving /\ ~ serving' /\ serving' \in BOOLEAN
      BY <2>1, <2>3 DEF serving
    <3>2. requested' = FALSE
      BY <2>1, <2>3
    <3> HIDE DEF serving
    <3> QED BY <3>1, <3>2 DEF Service!Next, Service!Complete
  <2>4. CASE w # ClearStatus
    <3>1. serving' = serving /\ requested' = requested
      BY <2>1, <2>2, <2>4 DEF serving
    <3> QED BY <3>1 DEF Service!vars
  <2> QED BY <2>3, <2>4
<1> QED BY <1>1, <1>2, <1>3, <1>4, <1>5 DEF Next, Guest

\* No transaction of the bus is served twice and no handler runs unasked: the
\* controllers, the bus, the processor's queue and the guest together take only
\* steps of the abstract service, however exactly the handler acknowledges,
\* whether or not it prefetches, and whenever the guest masks.
THEOREM ServedOnce == Spec => ServiceOnce
<1>1. Init => Service!Init
  BY DEF Init, Service!Init, serving
<1>2. Inv /\ [Next]_vars => [Service!Next]_(Service!vars)
  <2> SUFFICES ASSUME Inv, [Next]_vars PROVE [Service!Next]_(Service!vars)
    OBVIOUS
  <2>1. CASE Next
    BY <2>1, ServiceStep
  <2>2. CASE UNCHANGED vars
    BY <2>2 DEF vars, Service!vars, serving
  <2> QED BY <2>1, <2>2
<1> QED BY <1>1, <1>2, InvHolds, PTL DEF Spec, ServiceOnce
=============================================================================
