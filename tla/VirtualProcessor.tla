-------------------------- MODULE VirtualProcessor --------------------------
(***************************************************************************)
(* The virtual processor's interrupt queue (core/src/vp/vp.cpp of virt86)  *)
(* over KVM (kvm/src/kvm_vp.cpp), in the loop of Xbox::RunFrame: Run       *)
(* handles the queue, the guest runs until an exit, and an I/O exit calls  *)
(* the devices, which may enqueue interrupts.                              *)
(*                                                                         *)
(* The guest and KVM are external: the guest's interrupt flag, the one     *)
(* interrupt KVM holds for it, and the exits.                              *)
(***************************************************************************)
EXTENDS Naturals, Sequences

CONSTANTS
  Vectors,      \* the vectors devices enqueue
  MaxPending    \* bound on m_pendingInterrupts

ASSUME VirtualProcessorAssumption == MaxPending \in Nat

VARIABLES
  pending,        \* m_pendingInterrupts
  ready,          \* kvm_run.ready_for_interrupt_injection, set by the last exit
  window,         \* kvm_run.request_interrupt_window
  at,             \* where the thread that runs the processor is
  interruptFlag,  \* RFLAGS.IF of the guest
  injected,       \* the interrupt KVM holds: a sequence of at most one vector
  taken           \* the last vector the guest took

vars == <<pending, ready, window, at, interruptFlag, injected, taken>>

-----------------------------------------------------------------------------
(* The host.                                                               *)

\* EnqueueInterrupt, from a device called by HandleIO or HandleMMIO.  KVM's
\* PrepareInterrupt does nothing.
EnqueueInterrupt(vector) ==
  /\ at = "IO"
  /\ pending' = Append(pending, vector)
  /\ UNCHANGED <<ready, window, at, interruptFlag, injected, taken>>

\* HandleIO returns, and the loop of RunFrame calls Run again.
ReturnFromIO ==
  /\ at = "IO"
  /\ at' = "Run"
  /\ UNCHANGED <<pending, ready, window, interruptFlag, injected, taken>>

\* HandleInterruptQueue with an empty queue.
RunIdle ==
  /\ at = "Run"
  /\ pending = <<>>
  /\ at' = "Guest"
  /\ UNCHANGED <<pending, ready, window, interruptFlag, injected, taken>>

\* Mistake: the vector is injected without asking whether KVM can take it.
RunInject_Always ==
  /\ at = "Run"
  /\ pending # <<>>
  /\ injected' = <<Head(pending)>>
  /\ pending' = Tail(pending)
  /\ window' = FALSE
  /\ at' = "Guest"
  /\ UNCHANGED <<ready, interruptFlag, taken>>

\* Mistake: the injected vector is not removed from the queue.
RunInject_NoPop ==
  /\ at = "Run"
  /\ pending # <<>>
  /\ ready
  /\ injected' = <<Head(pending)>>
  /\ window' = FALSE
  /\ at' = "Guest"
  /\ UNCHANGED <<pending, ready, interruptFlag, taken>>

\* HandleInterruptQueue injects the oldest vector, which withdraws the request
\* for an interrupt window even if more vectors are pending.  The ioctl does not
\* fail here, for the virtual machine has no interrupt controllers of KVM's.  If
\* it did, the vector would be lost, for it has left the queue by then and
\* InjectPendingInterrupt does not look at the result; that is not modelled.
RunInject ==
  /\ at = "Run"
  /\ pending # <<>>
  /\ ready
  /\ injected' = <<Head(pending)>>
  /\ pending' = Tail(pending)
  /\ window' = FALSE
  /\ at' = "Guest"
  /\ UNCHANGED <<ready, interruptFlag, taken>>

\* HandleInterruptQueue asks for an interrupt window.
RunRequestWindow ==
  /\ at = "Run"
  /\ pending # <<>>
  /\ ~ready
  /\ window' = TRUE
  /\ at' = "Guest"
  /\ UNCHANGED <<pending, ready, interruptFlag, injected, taken>>

-----------------------------------------------------------------------------
(* The guest in KVM_RUN.                                                   *)

\* The guest takes the injected interrupt, which disables further ones.
TakeInterrupt ==
  /\ at = "Guest"
  /\ injected # <<>>
  /\ interruptFlag
  /\ taken' = injected
  /\ injected' = <<>>
  /\ interruptFlag' = FALSE
  /\ UNCHANGED <<pending, ready, window, at>>

\* The guest disables or enables interrupts.  KVM delivers an injected
\* interrupt before the guest executes an instruction.
SetInterruptFlag ==
  /\ at = "Guest"
  /\ injected = <<>>
  /\ interruptFlag' = ~interruptFlag
  /\ UNCHANGED <<pending, ready, window, at, injected, taken>>

\* KVM_RUN returns and tells whether the guest can take an interrupt; `to` is
\* what the thread does next.
Exit(to) ==
  /\ at = "Guest"
  /\ ready' = (interruptFlag /\ injected = <<>>)
  /\ at' = to
  /\ UNCHANGED <<pending, window, interruptFlag, injected, taken>>

\* KVM_EXIT_IO and KVM_EXIT_MMIO: HandleIO and HandleMMIO call the devices.
ExitIO == injected = <<>> /\ Exit("IO")

\* KVM_EXIT_IRQ_WINDOW_OPEN: the guest can take an interrupt.
ExitWindow == window /\ interruptFlag /\ injected = <<>> /\ Exit("Run")

\* Any other exit, or a signal, which may come before an injected interrupt is
\* taken: this frame, or the next one, runs the processor again.
ExitOther == Exit("Run")

-----------------------------------------------------------------------------
Init ==
  /\ pending = <<>>
  /\ ready = FALSE
  /\ window = FALSE
  /\ at = "Run"
  /\ interruptFlag = FALSE
  /\ injected = <<>>
  /\ taken = <<>>

Host  == RunIdle \/ RunInject \/ RunRequestWindow \/ ReturnFromIO
Guest == TakeInterrupt \/ SetInterruptFlag \/ ExitIO \/ ExitWindow \/ ExitOther

Next ==
  \/ Host
  \/ Guest
  \/ \E vector \in Vectors :
       Len(pending) < MaxPending /\ EnqueueInterrupt(vector)

Spec == Init /\ [][Next]_vars

-----------------------------------------------------------------------------
(* Properties.                                                             *)

\* The queue, the flags and the interrupt KVM holds are well formed.
TypeOK ==
  /\ pending \in Seq(Vectors)
  /\ ready \in BOOLEAN
  /\ window \in BOOLEAN
  /\ at \in {"Run", "Guest", "IO"}
  /\ interruptFlag \in BOOLEAN
  /\ injected \in {<<>>} \cup {<<v>> : v \in Vectors}
  /\ taken \in {<<>>} \cup {<<v>> : v \in Vectors}

\* An interrupt is injected only into a guest that can take it: `ready` is
\* the state of the last exit, and nothing changes the flag until Run uses it.
InjectedIntoReadyGuest == injected # <<>> => interruptFlag

\* The queue and KVM's slot together are the promised FIFO.
Fifo == INSTANCE InterruptFifo WITH waiting <- injected \o pending

FifoSpec == Fifo!Spec

=============================================================================
