--------------------------- MODULE InterruptPath ---------------------------
(***************************************************************************)
(* The path of an interrupt through the Xbox: the guest's port writes exit *)
(* to HandleIO, which calls the interrupt controllers or the management    *)
(* bus; the bus drives line 11; the controllers pass vectors to            *)
(* Xbox::Interrupt, which enqueues them at the virtual processor; the loop *)
(* of RunFrame injects them, and the guest's handler acknowledges them by  *)
(* further port writes.  All of it runs on one thread.                     *)
(*                                                                         *)
(* The guest is external: it programs the controllers, then requests one   *)
(* transaction of the bus at a time and ends each in its handler.          *)
(***************************************************************************)
EXTENDS Naturals, Sequences

CONSTANTS
  ExactAck,     \* the handler clears the status bits it found set, no others
  Prefetch,     \* the handler may request the next transaction itself
  Maskings      \* the kinds of guest: whether it may mask the line of the bus
                \* while a transaction is requested

VARIABLES
  pic, pc, calls, raised,                                        \* I8259
  Status, Control, Address, Index, line, signal,                 \* SMBus
  pending, ready, window, at, interruptFlag, injected, taken,    \* processor
  access,     \* the port write being emulated: a sequence of at most one
  setup,      \* the guest's initialisation still to come
  todo,       \* the port writes the guest's handler still has to make
  requested,  \* the guest requested a transaction and has not ended it
  anyTime     \* the guest is one that masks while a transaction is requested

picVars == <<pic, pc, calls, raised>>
busVars == <<Status, Control, Address, Index, line, signal>>
vpVars  == <<pending, ready, window, at, interruptFlag, injected, taken>>
vars    == <<picVars, busVars, vpVars, access, setup, todo, requested, anyTime>>

SMB_IRQ    == 11
MasterBase == 32
SlaveBase  == 40
SMCRead    == 33      \* the address register: device 0x10, read

\* The enable register: a byte-data transaction with an interrupt.
Start == [protocol |-> 2, start |-> TRUE, irqEnabled |-> TRUE, abort |-> FALSE]

Pic == INSTANCE I8259 WITH
  LineCount <- 8, DeviceIRQs <- {SMB_IRQ},
  ElcrMask <- [p \in {"master", "slave"} |-> {}],
  Bases <- {MasterBase, SlaveBase}, Modes <- {}, Masks <- {},
  Commands <- {1}, OCW3Words <- {}

Bus == INSTANCE SMBus WITH
  Addresses <- {SMCRead}, Devices <- {SMCRead \div 2}, Controls <- {Start},
  BlockLength <- 32

Vp == INSTANCE VirtualProcessor WITH Vectors <- 0 .. 255, MaxPending <- 3

\* The port writes of the guest: what is written, and to which device.
Setup ==
  << <<"ICW1", "master">>, <<"ICW2", "master">>, <<"ICW3", "master">>,
     <<"ICW4", "master">>, <<"ICW1", "slave">>, <<"ICW2", "slave">>,
     <<"ICW3", "slave">>, <<"ICW4", "slave">>, <<"Address", "bus">> >>

ClearStatus   == <<"Status", "bus">>
HandlerWrites == {ClearStatus, <<"EOI", "master">>, <<"EOI", "slave">>}

\* The slave's line is 3 of the slave, which drives line 2 of the master.
LineAt(p) == IF p = "slave" THEN SMB_IRQ - 8 ELSE Pic!Cascade

VectorBase(p) == IF p = "slave" THEN SlaveBase ELSE MasterBase

-----------------------------------------------------------------------------
(* The host: emulation of a port write and the loop of RunFrame.           *)

PicWrite(op, p) ==
  CASE op = "ICW1"   -> Pic!ICW1(p, TRUE)
    [] op = "ICW2"   -> Pic!ICW2(p, VectorBase(p))
    [] op = "ICW3"   -> Pic!ICW3(p)
    [] op = "ICW4"   -> Pic!ICW4(p, [SFNM |-> FALSE, AutoEOI |-> FALSE])
    [] op = "EOI"    -> Pic!NonspecificEOI(p, 1)
    [] op = "Mask"   -> Pic!OCW1(p, {LineAt(p)})
    [] op = "Unmask" -> Pic!OCW1(p, {})

BusWrite(op) ==
  CASE op = "Address" -> Bus!WriteAddress(SMCRead)
    [] op = "Enable"  -> Bus!WriteEnable(Start)
    [] op = "Status"  -> Bus!WriteStatus(IF ExactAck THEN Status ELSE Bus!Flags)

\* The bus calls the interrupt controllers within its access.
DriveLine ==
  CASE signal' = "RaiseIRQ" -> Pic!RaiseIRQ(SMB_IRQ)
    [] signal' = "LowerIRQ" -> Pic!LowerIRQ(SMB_IRQ)
    [] signal' = "none"     -> UNCHANGED picVars

\* Xbox::IOWrite dispatches the access to its device.
IOWrite ==
  /\ access # <<>>
  /\ LET op     == access[1][1]
         device == access[1][2]
     IN  IF device = "bus" THEN BusWrite(op) /\ DriveLine
         ELSE PicWrite(op, device) /\ UNCHANGED busVars
  /\ access' = <<>>
  /\ UNCHANGED <<vpVars, setup, todo, requested, anyTime>>

\* Xbox::Interrupt enqueues the vector of GetCurrentIRQ.
Interrupt == Pic!Interrupt /\ Vp!EnqueueInterrupt(Pic!Vector)

UpdateIRQ ==
  /\ \/ Interrupt
     \/ /\ \/ Pic!UpdateSlave
           \/ Pic!UpdateMasterIdle
           \/ Pic!UpdateMasterPending
           \/ Pic!AcknowledgeSlave
        /\ UNCHANGED vpVars
  /\ UNCHANGED <<busVars, access, setup, todo, requested, anyTime>>

RunFrame ==
  /\ \/ access = <<>> /\ pc = "Rest" /\ Vp!ReturnFromIO
     \/ Vp!RunIdle
     \/ Vp!RunInject
     \/ Vp!RunRequestWindow
  /\ UNCHANGED <<picVars, busVars, access, setup, todo, requested, anyTime>>

-----------------------------------------------------------------------------
(* The guest.                                                              *)

Out(write) ==
  /\ Vp!ExitIO
  /\ access' = <<write>>
  /\ UNCHANGED <<picVars, busVars>>

Program ==
  /\ setup # <<>>
  /\ Out(Head(setup))
  /\ setup' = Tail(setup)
  /\ UNCHANGED <<todo, requested, anyTime>>

RequestTransaction ==
  /\ setup = <<>>
  /\ ~requested
  /\ todo = {} \/ Prefetch
  /\ Out(<<"Enable", "bus">>)
  /\ requested' = TRUE
  /\ UNCHANGED <<setup, todo, anyTime>>

\* The guest masks or unmasks the line of the bus at one of the controllers.
Mask(p) ==
  /\ setup = <<>>
  /\ todo = {}
  /\ LineAt(p) \notin pic[p].IMR
  /\ anyTime \/ ~requested
  /\ Out(<<"Mask", p>>)
  /\ UNCHANGED <<setup, todo, requested, anyTime>>

Unmask(p) ==
  /\ setup = <<>>
  /\ todo = {}
  /\ LineAt(p) \in pic[p].IMR
  /\ Out(<<"Unmask", p>>)
  /\ UNCHANGED <<setup, todo, requested, anyTime>>

\* The vector of the bus, or the spurious one of a slave without a request,
\* whose handler ends the service at the master only.
EnterHandler ==
  /\ Vp!TakeInterrupt
  /\ todo' = IF taken' = <<SlaveBase + LineAt("slave")>> THEN HandlerWrites
             ELSE {<<"EOI", "master">>}
  /\ UNCHANGED <<picVars, busVars, access, setup, requested, anyTime>>

\* The handler clears the status and ends the service at both controllers, in
\* any order.
HandlerWrite == \E write \in todo :
  /\ Out(write)
  /\ todo' = todo \ {write}
  /\ requested' = (requested /\ write # ClearStatus)
  /\ UNCHANGED <<setup, anyTime>>

\* The guest returns from its handler, or disables or enables interrupts.
SetInterruptFlag ==
  /\ setup = <<>>
  /\ todo = {}
  /\ Vp!SetInterruptFlag
  /\ UNCHANGED <<picVars, busVars, access, setup, todo, requested, anyTime>>

ExitWindow ==
  /\ Vp!ExitWindow
  /\ UNCHANGED <<picVars, busVars, access, setup, todo, requested, anyTime>>

ExitOther ==
  /\ Vp!ExitOther
  /\ UNCHANGED <<picVars, busVars, access, setup, todo, requested, anyTime>>

-----------------------------------------------------------------------------
Init ==
  /\ Pic!Init
  /\ Bus!Init /\ Index = 0
  /\ Vp!Init
  /\ access = <<>>
  /\ setup = Setup
  /\ todo = {}
  /\ requested = FALSE
  /\ anyTime \in Maskings

Host == IOWrite \/ UpdateIRQ \/ RunFrame

Guest ==
  \/ Program \/ RequestTransaction
  \/ \E p \in Pic!Pics : Mask(p) \/ Unmask(p)
  \/ EnterHandler \/ HandlerWrite
  \/ SetInterruptFlag \/ ExitWindow \/ ExitOther

Next == Host \/ Guest

\* The host's thread runs.  However often the guest exits, it gets on with its
\* initialisation and its handler, takes an injected interrupt, does not leave
\* interrupts disabled or masked for ever, and exits when the requested window
\* opens.
Fairness ==
  /\ WF_vars(Host)
  /\ SF_vars(Program)
  /\ SF_vars(HandlerWrite)
  /\ SF_vars(EnterHandler)
  /\ \A p \in Pic!Pics : SF_vars(Unmask(p))
  /\ SF_vars(~interruptFlag /\ SetInterruptFlag)
  /\ SF_vars(ExitWindow)

Spec == Init /\ [][Next]_vars /\ Fairness

-----------------------------------------------------------------------------
(* Properties.                                                             *)

\* At most one vector is on its way to the guest: InjectInterrupt withdraws the
\* request for an interrupt window, and a second vector would stay in the queue
\* until an unrelated exit.
OneVectorInFlight == Len(pending) + Len(injected) <= 1

\* The lines and the buses agree: the level the bus drives is the one the
\* slave controller saw last, and the slave's output is the level the master
\* saw last, once the controllers are initialised and between accesses.
LinesAgree ==
  setup = <<>> /\ access = <<>> /\ pc = "Rest" =>
    /\ line <=> SMB_IRQ - 8 \in pic["slave"].PreviousIRR
    /\ pic["slave"].InterruptOutput <=> Pic!Cascade \in pic["master"].PreviousIRR

serving == ClearStatus \in todo
Service == INSTANCE BusService

\* No transaction is served twice and no handler runs unasked: the composition
\* takes only steps of the abstract service.
ServiceOnce ==
  Service!Init /\ [][Service!Next]_Service!vars

\* Every transaction is served and ends, with the fairness of the abstract
\* service, if the guest leaves the line alone while it waits.
ServiceEnds ==
  ~anyTime => Service!Fairness

=============================================================================
