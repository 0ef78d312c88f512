------------------------------ MODULE Lifecycle ------------------------------
(***************************************************************************)
(* The life of the machines the libretro core creates: the entry points    *)
(* retro_init ... retro_deinit (libretro/libretro.cpp), Xbox::Init,        *)
(* LoadBootRoms, RunFrame and Shutdown (xbox.cpp), and the references the  *)
(* functions retro_run and RunFrame keep in static variables from their    *)
(* first call on.                                                          *)
(*                                                                         *)
(* Every retro_load_game creates a machine; its number stands for the Xbox *)
(* object, its virtual machine and its memory.  A call that follows a null *)
(* or freed pointer sets `error`, after which nothing is said.  The flash  *)
(* region is counted in units of 64 KiB and holds, per unit, the unit of   *)
(* the BIOS copied there; the units behind it belong to other memory.      *)
(***************************************************************************)
EXTENDS Integers

CONSTANTS
  MaxGames,      \* bound on the calls of retro_load_game
  InitOutcomes,  \* where Xbox::Init may give up, or be done
  BiosSizes,     \* sizes of the BIOS file, in units
  FlashUnits     \* units of the flash region: 256

Stages == {"CreateVM", "AllocateRam", "MapRam", "MapFlash", "Done"}

\* The steps of retro_deinit, in their order: those of Shutdown and `delete xbox`.
Closing == {"FreeVM", "FreeRam", "FreeFlash", "FreeRom", "Delete"}

ASSUME LifecycleAssumption ==
  /\ MaxGames \in Nat /\ FlashUnits \in Nat \ {0}
  /\ InitOutcomes \subseteq Stages
  /\ BiosSizes \subseteq Nat

Machines == 1 .. MaxGames
Null     == 0                \* no machine: a null pointer or an unbound reference
Unset    == -1               \* no content, no file
Behind   == -2               \* memory that is not the region's

\* The units the largest BIOS can touch.
Units == 0 .. FlashUnits - 1
Reach == Units \cup {u + size : u \in Units, size \in BiosSizes}

VARIABLES
  phase,     \* where the frontend is: "unloaded", "initialised", "loaded", ...
  created,   \* machines created so far
  machine,   \* the resources of every machine
  xbox,      \* the global pointer
  hv,        \* the static references of Xbox::RunFrame
  nv2a,      \* the static reference of retro_run
  load,      \* the mirroring loop of LoadBootRoms and the BIOS it copies
  flash,     \* the flash region of the machine being loaded, and behind it
  overlaid,  \* its last 512 bytes are the MCPX ROM
  error      \* a null or freed pointer was followed

vars == <<phase, created, machine, xbox, hv, nv2a, load, flash, overlaid, error>>

NoMachine == [object |-> "none", vm |-> "none", ram |-> "none",
              region |-> "none", rom |-> "none", complete |-> FALSE]

Idle == ~ load.running

-----------------------------------------------------------------------------
(* Xbox.                                                                   *)

\* Init, up to the stage where it gives up.  A failed allocation of the flash
\* region goes unnoticed, for the code tests m_pRam again, and a null region is
\* mapped like any other, with or without success.
Initialised(stage, allocated) ==
  [object   |-> "live",
   vm       |-> IF stage = "CreateVM" THEN "none" ELSE "live",
   ram      |-> IF stage \in {"CreateVM", "AllocateRam"} THEN "none" ELSE "live",
   region   |-> IF allocated /\ stage \in {"MapRam", "MapFlash", "Done"}
                THEN "live" ELSE "none",
   rom      |-> "none",
   complete |-> stage = "Done"]

Freed(resource) == IF resource = "live" THEN "freed" ELSE resource

\* One step of retro_deinit, which frees a resource if there is one.
Frees(at, resource, next) ==
  /\ phase = at
  /\ machine' = [machine EXCEPT ![xbox][resource] = Freed(@)]
  /\ phase' = next

\* Mistake: memory is freed before the virtual machine it is mapped into.
Shutdown_MemoryFirst ==
  /\ \/ Frees("FreeVM", "ram", "FreeRam")
     \/ Frees("FreeRam", "region", "FreeFlash")
     \/ Frees("FreeFlash", "rom", "FreeRom")
     \/ Frees("FreeRom", "vm", "Delete")
     \/ Frees("Delete", "object", "deinitialised")
  /\ UNCHANGED <<created, xbox, hv, nv2a, load, flash, overlaid, error>>

\* Mistake: the copy of the BIOS file is forgotten.
Shutdown_KeepsRom ==
  /\ \/ Frees("FreeVM", "vm", "FreeRam")
     \/ Frees("FreeRam", "ram", "FreeFlash")
     \/ Frees("FreeFlash", "region", "Delete")
     \/ Frees("Delete", "object", "deinitialised")
  /\ UNCHANGED <<created, xbox, hv, nv2a, load, flash, overlaid, error>>

\* Shutdown of the machine of the global pointer, and its deletion; the pointer
\* stays.
Shutdown ==
  /\ \/ Frees("FreeVM", "vm", "FreeRam")
     \/ Frees("FreeRam", "ram", "FreeFlash")
     \/ Frees("FreeFlash", "region", "FreeRom")
     \/ Frees("FreeRom", "rom", "Delete")
     \/ Frees("Delete", "object", "deinitialised")
  /\ UNCHANGED <<created, xbox, hv, nv2a, load, flash, overlaid, error>>

\* memcpy of the whole BIOS to the region, from unit `at` on.
Copied(at, size) ==
  [u \in Reach |-> IF u \in at .. at + size - 1 THEN u - at ELSE flash[u]]

\* The last unit of the region is rewritten, and with it the MCPX ROM.
CoversTop(at, size) == FlashUnits - 1 \in at .. at + size - 1

\* LoadBootRoms up to its first copy, with the size of the file, or Unset if
\* the file is missing, its size not a multiple of 64 KiB, or malloc fails.
StartBootRoms(x, size, m) ==
  IF size = Unset
  THEN /\ phase' = "failed"
       /\ machine' = [machine EXCEPT ![x] = m]
       /\ UNCHANGED <<load, error>>
       /\ flash' = [u \in Reach |-> IF u \in Units THEN Unset ELSE Behind]
  ELSE /\ machine' = [machine EXCEPT ![x] = [m EXCEPT !.rom = "live"]]
       /\ IF m.region # "live"
          THEN /\ error' = "null"
               /\ UNCHANGED <<phase, load, flash>>
          ELSE /\ load' = [running |-> TRUE, size |-> size, addr |-> size]
               /\ flash' = [u \in Reach |-> IF u < size THEN u
                                            ELSE IF u \in Units THEN Unset
                                            ELSE Behind]
               /\ UNCHANGED <<phase, error>>

\* Mistake: the loop runs once too often.
MirrorStep_Inclusive ==
  /\ ~ Idle
  /\ load.addr <= FlashUnits
  /\ flash' = Copied(load.addr, load.size)
  /\ load' = [load EXCEPT !.addr = @ + load.size]
  /\ overlaid' = (overlaid /\ ~ CoversTop(load.addr, load.size))
  /\ UNCHANGED <<phase, created, machine, xbox, hv, nv2a, error>>

\* Mistake: the address does not advance.
MirrorStep_Stays ==
  /\ ~ Idle
  /\ load.addr < FlashUnits
  /\ flash' = Copied(load.addr, load.size)
  /\ overlaid' = (overlaid /\ ~ CoversTop(load.addr, load.size))
  /\ UNCHANGED <<phase, created, machine, xbox, hv, nv2a, load, error>>

\* One round of the loop that mirrors the BIOS through the region.  An empty
\* file, whose size passes the check, makes no progress.
MirrorStep ==
  /\ ~ Idle
  /\ load.addr < FlashUnits
  /\ flash' = Copied(load.addr, load.size)
  /\ load' = [load EXCEPT !.addr = @ + load.size]
  /\ overlaid' = (overlaid /\ ~ CoversTop(load.addr, load.size))
  /\ UNCHANGED <<phase, created, machine, xbox, hv, nv2a, error>>

\* The rest of LoadBootRoms and of retro_load_game: a missing MCPX ROM, one of
\* the wrong size or a rejected pixel format fail the call.
FinishLoad(mcpx, accepted) ==
  /\ ~ Idle
  /\ load.addr >= FlashUnits
  /\ load' = [load EXCEPT !.running = FALSE]
  /\ overlaid' = (overlaid \/ mcpx)
  /\ phase' = IF mcpx /\ accepted THEN "loaded" ELSE "failed"
  /\ UNCHANGED <<created, machine, xbox, hv, nv2a, flash, error>>

-----------------------------------------------------------------------------
(* The entry points.                                                       *)

\* retro_init reads the directories only.
retro_init ==
  /\ phase \in {"unloaded", "deinitialised"}
  /\ phase' = "initialised"
  /\ UNCHANGED <<created, machine, xbox, hv, nv2a, load, flash, overlaid, error>>

\* retro_load_game without a hypervisor.
NoPlatform ==
  /\ phase = "initialised" /\ Idle
  /\ phase' = "failed"
  /\ UNCHANGED <<created, machine, xbox, hv, nv2a, load, flash, overlaid, error>>

\* retro_load_game: the pointer to an earlier machine is overwritten, and the
\* result of Init is ignored.
retro_load_game(stage, allocated, size) ==
  /\ phase = "initialised" /\ Idle
  /\ created < MaxGames
  /\ created' = created + 1
  /\ xbox' = created + 1
  /\ overlaid' = FALSE
  /\ StartBootRoms(created + 1, size, Initialised(stage, allocated))
  /\ UNCHANGED <<hv, nv2a>>

Bound(reference) == IF reference = Null THEN xbox ELSE reference

\* retro_run and RunFrame: the first call binds the static references for
\* good; the picture is taken from the RAM of the current machine.
retro_run ==
  /\ phase = "loaded"
  /\ hv' = Bound(hv)
  /\ nv2a' = Bound(nv2a)
  /\ error' = CASE machine[hv'].vm = "none" -> "null"
                [] \/ machine[hv'].vm = "freed"
                   \/ "freed" \in {machine[nv2a'].object, machine[xbox].object} -> "freed"
                [] OTHER -> error
  /\ UNCHANGED <<phase, created, machine, xbox, load, flash, overlaid>>

\* Mistake: unloading frees the virtual machine, though RunFrame keeps its
\* reference to it.
retro_unload_game_FreesVM ==
  /\ phase \in {"loaded", "failed"}
  /\ phase' = "initialised"
  /\ machine' = IF xbox = Null THEN machine
                ELSE [machine EXCEPT ![xbox].vm = Freed(@)]
  /\ UNCHANGED <<created, xbox, hv, nv2a, load, flash, overlaid, error>>

\* retro_unload_game is empty.  A frontend may also load again after a failure.
retro_unload_game ==
  /\ phase \in {"loaded", "failed"}
  /\ phase' = "initialised"
  /\ UNCHANGED <<created, machine, xbox, hv, nv2a, load, flash, overlaid, error>>

\* retro_deinit follows the pointer to the last machine: Shutdown begins.
retro_deinit ==
  /\ phase \in {"initialised", "failed"} /\ Idle
  /\ IF xbox = Null THEN error' = "null" /\ UNCHANGED phase
     ELSE IF machine[xbox].object = "freed" THEN error' = "freed" /\ UNCHANGED phase
     ELSE phase' = "FreeVM" /\ UNCHANGED error
  /\ UNCHANGED <<created, machine, xbox, hv, nv2a, load, flash, overlaid>>

\* The frontend unloads the library, and its variables with it.
UnloadLibrary ==
  /\ phase = "deinitialised"
  /\ phase' = "unloaded"
  /\ xbox' = Null
  /\ hv' = Null
  /\ nv2a' = Null
  /\ UNCHANGED <<created, machine, load, flash, overlaid, error>>

-----------------------------------------------------------------------------
Init ==
  /\ phase = "unloaded"
  /\ created = 0
  /\ machine = [x \in Machines |-> NoMachine]
  /\ xbox = Null
  /\ hv = Null
  /\ nv2a = Null
  /\ load = [running |-> FALSE, size |-> 0, addr |-> 0]
  /\ flash = [u \in Reach |-> IF u \in Units THEN Unset ELSE Behind]
  /\ overlaid = FALSE
  /\ error = "none"

\* A frontend that unloads the library whenever it has deinitialised it.
Frontend ==
  /\ error = "none"
  /\ \/ phase = "unloaded" /\ retro_init
     \/ NoPlatform
     \/ \E stage \in InitOutcomes, allocated \in BOOLEAN,
            size \in BiosSizes \cup {Unset} : retro_load_game(stage, allocated, size)
     \/ retro_run
     \/ retro_unload_game
     \/ retro_deinit
     \/ UnloadLibrary

Load == \/ MirrorStep
        \/ \E mcpx, accepted \in BOOLEAN : FinishLoad(mcpx, accepted)

Next == Frontend \/ Load \/ Shutdown

Spec == Init /\ [][Next]_vars /\ WF_vars(Load)

-----------------------------------------------------------------------------
(* Properties.                                                             *)

Resource == {"none", "live", "freed"}

\* The pointers, resources and the region are well formed; every copy of the
\* loop starts within the region, even if it may reach behind its end.
TypeOK ==
  /\ created \in 0 .. MaxGames
  /\ machine \in [Machines -> [object : Resource, vm : Resource, ram : Resource,
                               region : Resource, rom : Resource, complete : BOOLEAN]]
  /\ {xbox, hv, nv2a} \subseteq 0 .. created
  /\ DOMAIN flash = Reach
  /\ ~ Idle => load.addr \in 0 .. FlashUnits + load.size - 1
  /\ error \in {"none", "null", "freed"}

\* While the library stays loaded the static references keep pointing to the
\* machine of the first frame; no frontend that unloads the library with
\* retro_deinit makes a call use a freed virtual machine or object, however
\* often it loads games in between and wherever Init gives up.
NoUseAfterFree == error # "freed"

\* No virtual machine outlives the memory mapped into it: at every step of every
\* call, Shutdown and deletion included, RAM and flash of a live one are not freed.
GuestMemoryLive ==
  \A x \in Machines : machine[x].vm = "live" =>
    machine[x].ram # "freed" /\ machine[x].region # "freed"

\* retro_deinit leaves nothing of the machine it deletes, however far Init and
\* LoadBootRoms came.
NothingLeaked ==
  \A x \in Machines : machine[x].object = "freed" =>
    "live" \notin {machine[x].vm, machine[x].ram, machine[x].region, machine[x].rom}

\* When a load has succeeded with a BIOS whose size divides the region, the
\* region is mirrored to its end, ends with the MCPX ROM, from which the guest
\* starts, and nothing behind it has been written.
LoadedMirrored ==
  phase = "loaded" /\ FlashUnits % load.size = 0 =>
    /\ \A u \in Units : flash[u] = u % load.size
    /\ \A u \in Reach \ Units : flash[u] = Behind
    /\ overlaid

\* A load of a BIOS that is not empty returns to the frontend.
LoadReturns == ~ Idle /\ load.size # 0 ~> Idle

-----------------------------------------------------------------------------
(* What the interface says, and the code does not do.                      *)

\* retro_load_game returns true to indicate successful loading (libretro.h):
\* the machine is complete.
TrueMeansComplete == phase = "loaded" => machine[xbox].complete

=============================================================================
