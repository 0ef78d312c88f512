----------------------- MODULE VirtualProcessorProofs -----------------------
(***************************************************************************)
(* The virtual processor's queue together with KVM's slot is the FIFO that *)
(* EnqueueInterrupt promises, for every set of vectors and every bound.    *)
(***************************************************************************)
EXTENDS VirtualProcessor, TLAPS

\* What the host knows of the guest between an exit and the next run.
ReadyIsFresh == at # "Guest" /\ ready => interruptFlag /\ injected = <<>>

IInv == TypeOK /\ InjectedIntoReadyGuest /\ ReadyIsFresh

Waiting == injected \o pending

-----------------------------------------------------------------------------
(* Sequences.                                                              *)

\* Nothing precedes an empty slot.
LEMMA EmptySlot ==
  ASSUME NEW S, NEW s \in Seq(S)
  PROVE  <<>> \o s = s
  OBVIOUS

\* Moving the head of the queue into the slot keeps their order.
LEMMA HeadToSlot ==
  ASSUME NEW S, NEW s \in Seq(S), s # <<>>
  PROVE  /\ Head(s) \in S
         /\ Tail(s) \in Seq(S)
         /\ <<Head(s)>> \o Tail(s) = s
  OBVIOUS

\* The slot is the head of the whole.
LEMMA SlotIsHead ==
  ASSUME NEW S, NEW v \in S, NEW s \in Seq(S)
  PROVE  /\ <<v>> \o s # <<>>
         /\ Head(<<v>> \o s) = v
         /\ Tail(<<v>> \o s) = s
<1>1. Len(<<v>> \o s) = 1 + Len(s)
  OBVIOUS
<1>2. <<v>> \o s # <<>> /\ Head(<<v>> \o s) = v
  BY <1>1
<1>3. Tail(<<v>> \o s) = s
  OBVIOUS
<1> QED BY <1>2, <1>3

\* A vector enqueued behind the queue is behind the slot and the queue.
LEMMA AppendBehind ==
  ASSUME NEW S, NEW s \in Seq(S), NEW t \in Seq(S), NEW v \in S
  PROVE  s \o Append(t, v) = Append(s \o t, v)
  OBVIOUS

-----------------------------------------------------------------------------
LEMMA Initially == Init => IInv
<1> SUFFICES ASSUME Init PROVE IInv
  OBVIOUS
<1>1. <<>> \in Seq(Vectors)
  OBVIOUS
<1>2. <<>> \in {<<>>} \cup {<<v>> : v \in Vectors}
  BY Zenon
<1>3. TypeOK
  BY <1>1, <1>2 DEF Init, TypeOK
<1>4. InjectedIntoReadyGuest /\ ReadyIsFresh
  BY DEF Init, InjectedIntoReadyGuest, ReadyIsFresh
<1> QED BY <1>3, <1>4 DEF IInv

LEMMA Inductive == IInv /\ [Next]_vars => IInv'
<1> SUFFICES ASSUME IInv, [Next]_vars PROVE IInv'
  OBVIOUS
<1> USE DEF IInv, TypeOK, InjectedIntoReadyGuest, ReadyIsFresh
<1>1. CASE RunIdle
  BY <1>1 DEF RunIdle
<1>2. CASE RunInject
  <2>1. Head(pending) \in Vectors /\ Tail(pending) \in Seq(Vectors)
    BY <1>2, HeadToSlot DEF RunInject
  <2> QED BY <1>2, <2>1 DEF RunInject
<1>3. CASE RunRequestWindow
  BY <1>3 DEF RunRequestWindow
<1>4. CASE ReturnFromIO
  BY <1>4 DEF ReturnFromIO
<1>5. CASE TakeInterrupt
  BY <1>5 DEF TakeInterrupt
<1>6. CASE SetInterruptFlag
  BY <1>6 DEF SetInterruptFlag
<1>7. CASE ExitIO \/ ExitWindow \/ ExitOther
  BY <1>7 DEF ExitIO, ExitWindow, ExitOther, Exit
<1>8. CASE \E vector \in Vectors : EnqueueInterrupt(vector)
  BY <1>8 DEF EnqueueInterrupt
<1>9. CASE UNCHANGED vars
  BY <1>9 DEF vars
<1> QED BY <1>1, <1>2, <1>3, <1>4, <1>5, <1>6, <1>7, <1>8, <1>9
        DEF Next, Host, Guest

LEMMA Invariance == Spec => []IInv
  BY Initially, Inductive, PTL DEF Spec

\* An interrupt is injected only into a guest whose interrupt flag is set.
THEOREM InjectedReady == Spec => []InjectedIntoReadyGuest
<1>1. IInv => InjectedIntoReadyGuest
  BY DEF IInv
<1> QED BY <1>1, Invariance, PTL

-----------------------------------------------------------------------------
(* Every step is a step of the FIFO or leaves it unchanged.                *)

LEMMA StepSimulation ==
  IInv /\ [Next]_vars => [Fifo!Next]_<<Waiting, taken>>
<1> SUFFICES ASSUME IInv, [Next]_vars
             PROVE  Fifo!Next \/ UNCHANGED <<Waiting, taken>>
  BY DEF Waiting, Fifo!Next
<1>0. pending \in Seq(Vectors)
  BY DEF IInv, TypeOK
<1>a. injected = <<>> \/ \E v \in Vectors : injected = <<v>>
  BY DEF IInv, TypeOK
<1>b. injected \in Seq(Vectors)
  <2>1. <<>> \in Seq(Vectors)
    OBVIOUS
  <2>2. ASSUME NEW v \in Vectors PROVE <<v>> \in Seq(Vectors)
    OBVIOUS
  <2> QED BY <1>a, <2>1, <2>2
<1>1. CASE RunInject
  <2>1. injected = <<>> /\ pending # <<>>
    BY <1>1 DEF RunInject, IInv, ReadyIsFresh
  <2>2. injected' = <<Head(pending)>> /\ pending' = Tail(pending) /\ taken' = taken
    BY <1>1 DEF RunInject
  <2>3. Waiting = pending
    BY <1>0, <2>1, EmptySlot DEF Waiting
  <2>4. Waiting' = pending
    BY <1>0, <2>1, <2>2, HeadToSlot DEF Waiting
  <2> QED BY <2>2, <2>3, <2>4
<1>2. CASE TakeInterrupt
  <2>1. PICK v \in Vectors : injected = <<v>>
    BY <1>a, <1>2 DEF TakeInterrupt
  <2>2. taken' = <<v>> /\ injected' = <<>> /\ pending' = pending
    BY <1>2, <2>1 DEF TakeInterrupt
  <2>3. Waiting # <<>> /\ Head(Waiting) = v /\ Tail(Waiting) = pending
    BY <1>0, <2>1, SlotIsHead DEF Waiting
  <2>4. Waiting' = pending
    BY <1>0, <2>2, EmptySlot DEF Waiting
  <2> QED BY <2>2, <2>3, <2>4 DEF Fifo!Next, Fifo!Take, Waiting
<1>3. ASSUME NEW vector \in Vectors, EnqueueInterrupt(vector)
      PROVE  Fifo!Next
  <2>1. /\ pending' = Append(pending, vector)
        /\ injected' = injected /\ taken' = taken
    BY <1>3 DEF EnqueueInterrupt
  <2>2. Waiting' = Append(Waiting, vector)
    BY <1>0, <1>b, <2>1, AppendBehind DEF Waiting
  <2> QED BY <2>1, <2>2 DEF Fifo!Next, Fifo!Enqueue, Waiting
<1>4. CASE UNCHANGED <<injected, pending, taken>>
  BY <1>4 DEF Waiting
<1>5. \/ RunInject \/ TakeInterrupt
      \/ \E vector \in Vectors : EnqueueInterrupt(vector)
      \/ UNCHANGED <<injected, pending, taken>>
  BY DEF Next, Host, Guest, RunIdle, RunRequestWindow, ReturnFromIO,
         SetInterruptFlag, ExitIO, ExitWindow, ExitOther, Exit, vars
<1> QED BY <1>1, <1>2, <1>3, <1>4, <1>5

\* The virtual processor implements the FIFO of InterruptFifo: no vector is
\* lost, repeated or overtaken between EnqueueInterrupt and the guest.
THEOREM ImplementsFifo == Spec => FifoSpec
<1>1. Init => Fifo!Init
  BY EmptySlot DEF Init, Fifo!Init
<1>2. IInv /\ [Next]_vars => [Fifo!Next]_<<injected \o pending, taken>>
  BY StepSimulation DEF Waiting
<1> QED BY <1>1, <1>2, Invariance, PTL DEF Spec, FifoSpec, Fifo!Spec
=============================================================================
