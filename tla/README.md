# A verification of the DirectXbox core

DirectXbox is a libretro core that runs an Xbox on a hypervisor: the guest's
code executes on a virtual processor, and the port and memory accesses that
reach no RAM exit to the host, which emulates the devices. This directory
holds TLA+ modules of the core's own logic, the configurations that
model-check them and proofs of their most important properties. Paths below
are relative to the repository; the emulator is under `src/`, the vendored
hypervisor library under `deps/virt86/`.

## The system

| Component | State | Operations | Interacts with |
|---|---|---|---|
| `I8259` (`src/devices/i8259.cpp`) | per controller: requests (IRR), services (ISR), mask, last line levels, ELCR, vector base, rotation, modes, output | `RaiseIRQ`, `LowerIRQ`, the port accesses ICW1-4, OCW1-3, ELCR, poll | called by the management bus and by `Xbox::IOWrite`; calls `Xbox::Interrupt` |
| `SMBus` (`src/devices/smbus.cpp`) | status, control, address, command, data and index registers | register accesses; a transaction runs within the write that starts it | is a PCI device; drives line 11; calls the devices behind it |
| SMC, EEPROM, TV encoder (`src/devices/smc.cpp`, `eeprom.cpp`, `video/tv/conexant.cpp`) | the SMC's registers and version index; the EEPROM's image | byte, word and block transfers | called by `SMBus` |
| Virtual processor (`deps/virt86`) | queue of pending vectors, readiness and window flags of the last exit | `EnqueueInterrupt`, `Run`, the exits | run by `RunFrame`, which the exits call back into |
| `Xbox` (`src/xbox.cpp`) | the machine: VM, RAM, flash, devices | `Init`, `LoadBootRoms`, `RunFrame`, `Shutdown`, access dispatch | called by the libretro entry points and, through callbacks, by the virtual processor |
| Entry points (`src/libretro/libretro.cpp`, `libretro_core_options.h`) | the global `xbox`, static references, callbacks; the memory of the options while they are set | `retro_set_environment`, `retro_init`, `retro_load_game`, `retro_run`, ... | called by the frontend, and call it back |
| PCI bus, devices and bridges (`src/devices/pci`) | configuration space of each function, one configuration address | configuration accesses, routing by BAR | called by `Xbox::IORead` and its siblings |
| NV2A (`src/devices/video/nv2a`) | registers of PFIFO, USER, PCRTC, PRMCIO, PRAMIN, the CRTC index | register accesses | `retro_run` reads the display mode from it |
| I8254, ATA, audio | none that changes | accesses that change nothing | - |

Everything runs on one thread: the frontend's `retro_run` calls
`Xbox::RunFrame`, which runs the virtual processor until it exits, handles the
exit, and runs it again until 16 ms have passed. What makes the system hard is
not parallelism of the host but the order of small steps: calls that call each
other again before they have finished (`UpdateIRQ`), edges that are seen once,
a guest that runs between any two accesses, whose handlers preempt its drivers
in the middle of a pair of index and data accesses, readiness that is known
only from the last exit, registers that move while others are in use, a
frontend that looks at the display whenever 16 ms are over, allocations that
fail half way, and resources kept across calls of the frontend.

What makes each component correct:

* the controllers leave no deliverable request behind, lose none of the slave's
  requests, deliver one vector per access unless a mode says otherwise, and
  return;
* the bus' line tells of a status, and only of a status; a driver that polls the
  status learns whether its own transaction has been done;
* the queue delivers each vector once, in order, to a guest that is ready;
* together they serve each transaction of the bus once, and eventually;
* an access to an assigned range reaches the BAR it was assigned to;
* a configuration write changes what was meant and nothing else, although all
  programs of the guest share one address register;
* a frame shows a state of the display the guest has made, whole;
* no call of the frontend uses what an earlier one has freed, a deleted machine
  holds nothing, a loaded machine has its BIOS where the guest starts, and the
  options reach the frontend whole and leave nothing behind.

## Modules

### I8259, MCI8259, I8259Proofs

`I8259` models the pair of controllers. A register is the set of lines whose
bit is set. `GetPriority`, `GetIRQ`, `SetIRQ` and `AcknowledgeIRQ` carry the
names of the code; a handler is its action (`RaiseIRQ`, `ICW1`, ..., `PollRead`)
followed by the steps of the `UpdateIRQ` it calls. `UpdateIRQ` of the master
calls `GetCurrentIRQ`, whose `AcknowledgeIRQ` calls `UpdateIRQ` again *before*
the vector is handed over. The model keeps this recursion: `pc` is the running
call, `calls` the stack of suspended `GetCurrentIRQ` calls, each with the
request it acknowledged last. `raised` lists the vectors the handler has
handed over.

`MCI8259` defines the words the guest writes; four lines per controller
suffice for a line above and below the cascade and for two lines of the slave.

| Run | Question | Bounds |
|---|---|---|
| `I8259_nested` | Fully nested service with every OCW2 command: `MasterDrained`, `CascadeNotLost`, `OneVectorPerHandler` | 3 device lines, 2 masks, reset modes |
| `I8259_modes` | Initialisation at any time with every ICW4 mode: `CascadeNotLost`, `RecursionBounded` | 2 device lines, 2 masks |
| `I8259_words` | Poll and special mask mode: `OneVectorPerHandler`, `HandlerReturns` | 2 device lines, 2 masks |

`HandlerReturns` assumes weak fairness of the steps of a call: the thread that
entered a handler runs. `CascadeNotLost` excludes automatic end of interrupt at
the slave, and has to: there `UpdateIRQ` cascades a second request of the slave
(`i8259.cpp:380`) although line 2 of the master has not fallen since the first
one, and the request waits for the next access. `m_ELCRMask` stays 0 because
`I8259::Reset`, which would set it, is never called; no line can become level
triggered, and the recursion that would then not end with automatic end of
interrupt is out of reach. What the code does not promise is not claimed either:
a change of the special mask is followed by no update (`i8259.cpp:187`), a master
initialised alone forgets a cascade until the slave's next update, and a
controller has base 0 between ICW1 and ICW2.

*Proved* in `I8259Proofs`, for every number of lines, set of devices and word
the guest may write:

* `TypeCorrect` (`TypeOK`) and `NothingLeftBehind` (`MasterDrained`). The second
  needs the strengthening that whenever a call is about to return (`pc` is
  `GetCurrentIRQ` or `Rest`) the master has just been found without a deliverable
  request or nothing it depends on has changed since (`Settled`).
* `OneVector` (`OneVectorPerHandler`), from `SingleInv`: the request acknowledged
  first is in service and blocks the others until the guest ends it.
* `CascadeKept` (`CascadeNotLost`) for a guest whose OCW3 words neither poll
  (`NoPolls`) nor change the special mask (`Steady`), as in the runs that check
  it. `CascadeInv`: while the slave asserts its output, the master has its
  request, in IRR or in a suspended call, or gets it when the update of the slave
  that is under way has ended. A poll acknowledges the request at the master and
  leaves the slave's to another poll; a change of the special mask lets requests
  through without an update.
* `RecursionAtMostLines` (`RecursionBounded`) under `Steady` and `EdgeOnly`, the
  program's own state since `Reset` is never called. `DepthInv`: the suspended
  calls and the master's requests together are never more than its lines, for
  each call has taken its request and an update of the slave on the way never
  raises the cascade line again.
* `RecursionAtMostOneMore`: under `EdgeOnly` alone the recursion is at most one
  call deeper. The special mask lets an update raise the cascade line once more,
  after which the line is high.

### SMBus, SMBusDevices, SMBusDriver, MCSMBusDriver, SMBusProofs

`SMBus` is the control part: `WriteStatus`, `WriteEnable`, `WriteAddress` and
`BlockData` are the register accesses; `Outcome` is the status
`ExecuteTransaction` sets. `line` is the level of line 11, `signal` what the
access asks of the controllers. `ExactAck` says whether the guest clears only
bits it found set. The constructor leaves the index as it is in memory: `Unset`
stands for an index outside the block buffer.

`SMBusDevices` extends each access by what it does to the data: the command and
data registers and the three devices. `Received` is what the device addressed
answers to a byte, word or block read, `SMCAfterRead` and `SMCWriteByte` what the
SMC does to its registers and its version index. Two history variables, `heard`
and `acknowledged`, record what a driver has been told. The block buffer is left
out: no device fills or reads it.

`SMBusDriver` adds a driver of the guest that uses no interrupts: it writes the
registers, clears the status (the flags it found set, or without `ExactAck` all of
them), starts, looks at
the status and tries again after an error. Between its requests other code does
what it likes with the bus, and at any time it writes the enable register to abort
or to switch the interrupt. The status is the sum of all transactions since it
was cleared (`smbus.cpp:111`), clearing nothing sets the completion bit
(`smbus.cpp:188`), an abort stops no transaction (`smbus.cpp:197`): the property is
that the driver still learns the truth about its own transfer.

| Run | Question | Bounds |
|---|---|---|
| `SMBus_requests` | `InterruptMeansStatus`: the line is high only while a status is set; `VersionWhole`: the SMC's version is heard whole, whatever comes between its bytes; `WritesKept`: an acknowledged write stays; `AnsweredOnce`: an answered request has been served once, with that answer, a refused one not at all; `RequestEnds`: every request is answered or refused | 4 requests (a read and a write of the version register, one without a device, one by an unknown protocol), 2 attempts; 4 addresses, 2 commands, 5 control words, a block buffer of 2 bytes; a guest that clears only what it found set |

The SMC's version register tells transfers apart: each read moves its index on, each
write resets it. Two attempts have a retry. `RequestEnds` assumes weak fairness of
the driver's accesses: its code goes on after whatever interrupts it.

*Proved* in `SMBusProofs`, for all devices, addresses, images and protocols:

* `TypeCorrect`, and `LineMeansStatus` under `ExactAck`; that invariant is
  inductive as it stands. Without `ExactAck` it is false: see the finding below.
* `DevicesImplementBus`: every access with its data is an access of `SMBus` or
  leaves it alone, so that `DevicesLineMeansStatus` follows.
* `VersionHeardWhole`: what has been heard is a prefix of the version and the
  SMC's index is its length (`Hears`), as the index moves only when the byte it
  names has been received.
* `WrittenBytesKept` (`WritesKept`), access by access.
* `RequestsServedOnce` (`AnsweredOnce`): from the clearing on, an error among the
  flags means that the driver's transfer has failed, and the data register is the
  byte of its transfer until it has been read (`DriverInv`).
* `DriverUsesBus`: the driver and the other code take steps of `SMBusDevices` only,
  so that the theorems about any guest hold among them, within the run's
  composition too.

### VirtualProcessor, InterruptFifo, MCVirtualProcessor, VirtualProcessorProofs

`pending` is the queue of virt86, `injected` KVM's slot, `ready` and `window` the
flags shared with KVM, `at` where the loop of `RunFrame` is. Exits may report the
guest ready or not; between exits it changes its interrupt flag as it likes.
`VirtualProcessor_fifo` (two vectors, up to three pending) shows that an injected
vector finds the guest ready and that queue and slot implement `InterruptFifo`,
which delivers each vector once and in order. Both are proved for every set of
vectors (`InjectedReady`, `ImplementsFifo`): readiness at the host is the guest's
interrupt flag of the last exit, and the guest does not run between that exit and
the injection. KVM itself is external and modelled from how `kvm_vp.cpp` uses it.
Injecting a vector withdraws the request for a window (`kvm_vp.cpp:361`) although
more vectors may wait; in the core as it is at most one is on its way
(`OneVectorInFlight` of the next section), so that none waits. `KVM_INTERRUPT` does
not fail in the configuration used, a virtual machine without KVM's own interrupt
controllers; if it did, `InjectPendingInterrupt` would drop the vector it has
already taken from the queue (`kvm_vp.cpp:358`, `vp.cpp:829`). That path is not
modelled.

### InterruptPath, BusService, InterruptPathProofs

`InterruptPath` composes the three with the dispatch of `Xbox::IOWrite`, with
`Xbox::Interrupt` and with a guest that programs both controllers, requests
transactions and ends each in its handler by three writes in any order. The
abstract `BusService` knows only *idle*, *requested* and *served*.

`InterruptPath_service` shows that the composition implements `BusService`: no
transaction is served twice and no handler runs unasked (`ServiceOnce`); each is
served eventually, even if the handler requests the next one before its ends of
interrupt (`ServiceEnds`); at most one vector is on its way (`OneVectorInFlight`)
and the levels two components remember agree (`LinesAgree`). In one half of the
behaviours (`anyTime`) the guest masks and unmasks the line at either controller
at any time; in the other it leaves it alone while a transaction is requested.

The constants are the real ones (eight lines, line 11, vector bases 32 and 40);
one transaction at a time keeps the state space finite. Fairness: the host's
thread runs (weak); the guest, however often it exits, gets on with its
initialisation and its handler, takes an injected interrupt, unmasks and enables
interrupts again, and exits when the window it was asked for opens (strong, since
each is disabled again and again by exits). `ServiceEnds` is claimed without
masking at any time: a guest that masks the slave's line after each cascade gets
one spurious vector after another and may never be served, which the code does
not exclude.

*Proved* in `InterruptPathProofs`, for every guest: `ServedOnce` (`ServiceOnce`, the
safety refinement: every step of the composition is a step of `BusService` or
none), `OneInFlight` (`OneVectorInFlight`) and `LinesAlwaysAgree` (`LinesAgree`). They
hold whether or not the guest acknowledges exactly, requests the next transaction
in its handler, or masks the line at any time. The invariant has seven parts:

| Part | Says |
|---|---|
| `SetupInv` | the guest's initialisation writes are still to come in their order, and the slave's vectors have their base once it is set |
| `PicInv` | both controllers are edge triggered and without special modes, and only the bus' line at the slave and the cascade at the master are ever requested or served |
| `CallInv` | at most one call is suspended, and only within an access or a call of the bus |
| `HeldInv` | a suspended call, the queue, KVM's slot, the handler's end of interrupt still to come and the write of it exclude each other, and while there is one of them the master serves the cascade and acknowledges no other request |
| `QuietInv` | nothing is requested or on its way before the controllers are initialised |
| `LevelInv` | the levels remembered by the bus, the slave and the master agree, except within the update that carries one to the next |
| `RequestInv` | a transaction that is requested waits at the slave, is on its way or is served, and never two of them; without a transaction the vector on its way is spurious |

`HeldInv` is what keeps a second vector from being queued; `RequestInv` is the
refinement mapping's correctness.

### PCIBus, MCPCIBus, PCIBusProofs

`Claims` is `GetIOBar`/`GetMMIOBar`, `Route` the search of `PCIBus::IORead` and its
siblings behind the fixed ports. BARs are decoded whatever the enable bits say.
A firmware sizes, assigns and moves BARs one at a time. `PCIBus_routing` checks
`RoutedToOwner` and `SizesRight` on 64 addresses and five BARs. The pool of
addresses must exclude those BARs have after reset (0, and the host bridge's
aperture) and the last address: the end of a BAR there wraps to 0 and it claims
nothing. `PoolAssumption` states both, so that neither the wrap nor a BAR shadowed by
one that has not been assigned yet is covered by `RoutedToOwner`.

*Proved* in `PCIBusProofs`, for any number of BARs whose sizes divide the address
space: `AccessesReachTheirBAR` and `SizesAreRight`. The inductive invariant says that
a BAR in use has the base it was given in a range of the pool it shares with no
other, and that any other BAR is parked, at its address after reset or at the
one that writing all ones leaves, from where it claims nothing of the pool. The
arithmetic is three facts about remainders, proved first.

### PCIConfig, PCIGuests, MCPCIGuests, PCIProofs

`PCIConfig` is the configuration space of the eight functions of the machine,
all 256 bytes of each: `Identity` and `Bars` tell them apart, `WriteMask` and
`Write1ToClearMask` are the masks the constructors and `RegisterBAR` build,
`PowerOn` what the constructors, `Init` and the bridges' `Reset` leave in it. A byte
is the set of its bits that are one. `WriteConfig` changes byte by byte what the
masks allow, whatever the size of the access.

In `PCIGuests` a driver writes an address, then data, reads the data back the
same way and tries again until it reads what it wrote. A handler preempts it
between any two accesses, acknowledges its own function's status and puts back
the address it has read. That address is always 0, for `PCIBus::IORead` finds no
device for port 0xCF8 (`IOReadConfigAddress`): the driver's next access goes to
the host bridge's identification.

| Run | Question | Bounds |
|---|---|---|
| `PCIConfig_guests` | `IdentityKept`: no access changes a protected bit; `StrayWritesHarmless`: a write whose address was lost changes nothing; `CompletedIsHeld`: what the driver read back is there and stays; `DriverSucceeds` | all functions, 6 requests of 1, 2 and 4 bytes, 3 preemptions |

Three preemptions hit one request between each pair of its accesses. Fairness is
weak for handler and driver: a handler ends, and then the code it has interrupted
goes on; there are finitely many interrupts.

*Proved* in `PCIProofs`, for every set of functions, requests and number of
preemptions: `IdentityIsKept` (inductive over bytes: a write takes and gives bits of
the masks only) and `StrayWritesAreHarmless`. The second rests on the invariant
that the address register names the running program's target or the host
bridge's first double word, whose write masks are empty (`PowerOn` and the masks
are constants; the lemma about them is proved from their definitions). From the
same invariant, `AddressInv`, follows `CompletedIsKept` (`CompletedIsHeld`) for
requests that are `Distinguishable`: each aims at bytes no other and no handler
aims at, and at another value than the identification read when its address was
lost, so that what is read back was read at its own place. TLC evaluates
`Distinguishable` for the run's requests.

### Nv2a, MachineIO, Nv2aGuests, MCNv2aGuests, Nv2aProofs

`Nv2a` has the map from BAR 0 to the units (`m_MemoryRegions` in the order of the
constructor; the region of PGRAPH leads to PSTRAPS, as in the code), the registers
of the units that keep any, and the RAM behind BAR 1. The cases of
`Nv2aUser::Write` fall through, so that a put pointer becomes the get pointer and
the reference as well (`Forwarded`). Nothing initialises the registers but the
CRTC index: `Garbage` is what they may hold. `MachineIO` dispatches ports and adds
the devices that answer constants.

`Nv2aGuests` composes them with a driver that waits for the audio FIFO and for
PFIFO, sets a mode register by register through the VGA ports or their alias in
BAR 0, draws, selects its channel, submits work through USER and waits for it; a
handler that preempts it anywhere, uses the same index register and the same
channel selection, and puts back what it read; other code that writes anywhere
else; and the end of `retro_run`, which presents the display whenever 16 ms are over.

| Run | Question | Bounds |
|---|---|---|
| `Nv2a_display` | `FrameOfPrefix`: a frame is the display as it was after some number of the driver's accesses; `ModeShown`: once the mode is set, a frame has it; `SubmissionKept`: a submission stays in the pointers although a handler uses another channel; `WaitsEnd` | the 6 settings of 640 by 480 by 32, 2 patterns of garbage, 4 addresses of RAM, 13 other accesses |

Words stay below 2^27 (TLC's integers have 32 bits; no mask of the code reaches
further than bit 11) and the guest keeps the CRTC index below the number of
registers. Only the driver's channel is in DMA mode; what two such channels make of
PFIFO's mode word is not checked. Fairness: handlers end (weak) and the code they interrupt runs again
and again (strong, for interrupts may come for ever).

*Proved* in `Nv2aProofs`, for every mode, every pattern of garbage and every set of
other accesses that `GuestsAssumption` admits (`Unrelated`: they write no place of
the display or of the two channels): `TypeCorrect`; `PitchIsTheLine`
(`PitchIsStride`, an identity of the registers in every pixel format, of which the
run would reach one only); `SubmissionIsKept` (`SubmissionKept`); `FramesShowPrefixes`
(`FrameOfPrefix`); and, for every driver whose settings make a mode of 640 by 480
pixels of 4 bytes (`Sets640by480`; the run's driver is one, or its run would
violate `ModeShown`), `ModeIsShown` (`ModeShown`).

* `ChannelInv`, for the submission: the channel the driver sees when it runs
  (PFIFO's own, or the one the handler has saved) is the driver's from the access
  that selected it on, and while the handler's is current the handler writes only
  that channel's area, which is dead: PFIFO's mode word names the driver's alone.
* `DisplayInv`, for the frames: what is expected after each access still to come
  equals what those accesses make of the *present* display, and the index the
  driver sees is the one it picked, so that its data goes to the register it meant.
  `FrameInv` is the property itself. With the mode set and drawn, the registers of
  the picture are the driver's last settings of each, and `ModeIsShown` follows.

### Lifecycle

The entry points, `Xbox::Init` with the stages where it may give up,
`LoadBootRoms` with its loop, `RunFrame`'s and `retro_run`'s static references, and
`Shutdown`, which frees one resource per step in the order of the code (`Closing`),
before the machine is deleted. A machine is a record of the states of its
resources. A failed allocation of the flash region goes unnoticed in `Init`
(`xbox.cpp:45`), which goes on with a null region. A call that follows a null or
freed pointer sets `error`, and nothing is claimed after it.
The frontend unloads the library after `retro_deinit`, as `libretro.h` frontends
do with dynamic cores; one that keeps it would have `RunFrame` run a freed virtual
machine. Allocation is that of the code's Windows branch; elsewhere the arguments
of `aligned_alloc` are swapped (`xbox.cpp:43`).

`Core_games`, below, checks what holds of the life cycle; `Lifecycle_ignored` shows
that a load may report success for an incomplete machine. The model also shows
what no property of the project claims, for the code does not give it: an empty
BIOS file, whose size passes the check, keeps `LoadBootRoms` in its loop
(`xbox.cpp:176`); one whose size does not divide 16 MiB is copied past the end of the
region (`xbox.cpp:177`); a second game is run by the machine of the first, to which
the static references stay bound, and shown from its own RAM (`xbox.cpp:230`,
`libretro.cpp:167`); a flash region that could not be allocated is mapped and then
copied to (`xbox.cpp:45`); `retro_deinit` follows a null pointer when no game has been
loaded (`libretro.cpp:72`).

*Proved* in `CoreProofs`, for every number of loads, outcome of `Init` and BIOS
size: `TypeCorrect`, `NothingFreedIsUsed`, `MemoryOutlivesVM`, `DeletionFreesAll` and
`RegionIsMirrored` (`LoadedMirrored`). Only `retro_deinit` frees, and from its start
to the reset of the pointers with the library no other entry point runs; so while
one may run, the global pointer and both static references are null or point to a
machine that is still whole (`Inv`). While `retro_deinit` runs, what its earlier steps
have freed is not live any more (`ClosedUpTo`): the virtual machine when RAM and
flash go, all of them when the object goes. `MirrorInv` is about the loop of `LoadBootRoms`: it
starts each copy where the last has ended, so that a BIOS whose size divides the
region's fills it without a gap and ends where it ends.

### CoreOptions, Core, MCCore, CoreProofs

`CoreOptions` is `libretro_set_core_options`. A frontend of version 1 of the
interface gets the table, with the translation of its language if there is one;
another gets variables, whose texts are built in memory that any allocation may
fail to deliver. `heap` is what is allocated, `handed` what the frontend got. A
string is a name with a length and a text the sequence of the strings put
together, so that the length of a buffer can be compared with what is written.

`Core` composes it with `Lifecycle` and the callbacks: a frontend that sets the
environment first and the other callbacks before the first `retro_run`, with and
without a log interface.

| Run | Question | Bounds |
|---|---|---|
| `Core_games` | `NoUseAfterFree`, `GuestMemoryLive` (memory outlives the VM that maps it, at every step of `retro_deinit`), `NothingLeaked`, `LoadedMirrored` (a load that returns true of a BIOS whose size divides the region leaves it mirrored to the top with the MCPX ROM at its end), `NoNullCall`, `NothingKept`, `TextFits`, `OptionsComplete`; `LoadReturns` (a load of a BIOS that is not empty returns) | 2 loads, every failure of `Init`, BIOS files of 0, 1, 2, 3, 8 and 9 units for a region of 8, the core's own table, versions 0 to 2, every language and one of a later `libretro.h` |

Two loads suffice for a machine that is replaced while static references to it
remain. Fairness is weak for the steps of a load: the call that has begun goes on.

*Proved* in `CoreProofs`, for every table of options, every language and every
allocation that fails:

* `AllIsGivenBack` (`NothingKept`): what is allocated is what the arrays hold
  (`HeapInv`).
* `AllOptionsHanded` (`OptionsComplete`) and `TextsFit` (`TextFits`), from `TextInv`: the
  texts are written in the order of the table, each of an option's strings with
  its default first, to a buffer of the size computed for it. That moving the
  default to the front leaves the sum of the lengths as it is, and that the sum
  is the buffer's size, are facts about sums defined by recursive functions,
  proved by the smallest index at which they would fail.
* `CoreImplementsLifecycle` and `CoreImplementsOptions`: a step of the core is a step
  of the life cycle of its machines, or of its options, or leaves them alone. By
  them `CoreIsSafe`, `CoreIsMirrored`, `CoreGivesBack` and `CoreHandsAll`, the
  properties above for the whole core.
* `NoNullIsCalled` (`NoNullCall`): the callbacks a call uses were set before it.

## Findings

* `InterruptPath_clearall` (`smbus.cpp:173`): a guest that clears all status bits
  raises line 11 again without a status; the next completion makes no edge and
  is never served.
* `Lifecycle_ignored` (`libretro.cpp:197`): `retro_load_game` ignores the result of
  `Init` and returns true for a machine without memory and devices.

## Assumptions of the proofs

Each module names what it assumes of its constants: `LineCount` and the lines and
words of the guest (`I8259`), addresses and devices (`SMBus`, `SMBusDevices`),
byte transfers and at least one attempt (`SMBusDriver`), a set
of vectors (`VirtualProcessor`), the functions a subset of the machine's and
requests that stay in one double word (`PCIConfig`, `PCIGuests`), sizes that divide
the address space and a pool clear of parked BARs (`PCIBus`), a mode of words for
indexes that fit their register, two channels and other code that writes
elsewhere (`Nv2aGuests`), a table whose strings have lengths (`CoreOptions`), the
numbers of games and units (`Lifecycle`). TLC evaluates them in the runs. The
proofs use no bound of the runs.

Some theorems hold for part of the guests only and name them as hypotheses:

| Hypothesis | Guests | Theorems |
|---|---|---|
| `ExactAck` | clear only status bits they found set | `LineMeansStatus`, `DevicesLineMeansStatus` |
| `Steady`, `NoPolls` | leave the special mask alone; do not poll | `CascadeKept`, `RecursionAtMostLines` (`Steady` only) |
| `EdgeOnly` | all (no code makes a line level triggered) | `RecursionAtMostLines`, `RecursionAtMostOneMore` |
| `Sets640by480` | drivers that set such a mode | `ModeIsShown` |
| `Distinguishable` | drivers with separate registers, and values unlike the host bridge's identification | `CompletedIsKept` |

## Only model-checked

Liveness: `HandlerReturns`, `RequestEnds`, `ServiceEnds`, `DriverSucceeds`, `WaitsEnd`
and `LoadReturns` rest on fairness, and the provers here cannot reason about `ENABLED`,
which fairness is defined by. What TLC shows of them holds within the runs'
bounds. Every other property of a passing run is stated by a theorem.

## Not modelled

* The title database (a table nothing uses) and the rest of virt86, which is
  vendored: memory regions, paging, registers, the back ends for other hosts.
* The interval timer's thread, which is never started (`i8254.cpp:38`).
* `I8259::CommandRead`, which tests the address of an array and so returns the
  services for every read (`i8259.cpp:168`); no interrupt depends on it.
* Configuration accesses that run past the 256 bytes of a space (`pci.cpp:247`), and
  CRTC indexes past the registers of PRMCIO: what lies behind is memory of the
  program.
* The ranges of a frame: width and height are not compared with the maxima
  `retro_get_system_av_info` promises.
* `retro_reset`, which does nothing, and the entry points that return constants.

## Plan

1. The progress the liveness properties rest on, as safety: a measure for
   `HandlerReturns` and for the loop of `LoadBootRoms` that each step of the call
   decreases. What then remains to the model checker is the use of fairness.
2. The masked guest of `InterruptPath`: that a spurious vector ends without a
   service of the slave, as an action property of the composition.
