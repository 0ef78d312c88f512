----------------------------- MODULE CoreProofs -----------------------------
(***************************************************************************)
(* No call of the frontend uses a freed machine, memory outlives the       *)
(* virtual machine that maps it, a deleted machine holds nothing, and a    *)
(* loaded BIOS fills its flash region: for every number of loads, every    *)
(* outcome of Init and every BIOS.                                         *)
(*                                                                         *)
(* libretro_set_core_options leaves nothing allocated, hands out all its   *)
(* options and writes no text beyond its buffer; and the core that calls   *)
(* it lives the machines of Lifecycle and never calls back through a       *)
(* pointer nobody has set: for every table of options, whatever allocation *)
(* fails, and every answer of the frontend.                                *)
(***************************************************************************)
EXTENDS Core, SequenceTheorems, WellFoundedInduction, TLAPS

-----------------------------------------------------------------------------
(* The machines.                                                           *)

Record == [object : Resource, vm : Resource, ram : Resource,
           region : Resource, rom : Resource, complete : BOOLEAN]

\* What NothingLeaked and GuestMemoryLive say of one machine.
Sound(m) ==
  /\ m.vm = "live" => m.ram # "freed" /\ m.region # "freed"
  /\ m.object = "freed" => "live" \notin {m.vm, m.ram, m.region, m.rom}

\* A reference is unbound, or its machine has not been shut down.
Usable(r) == r # Null => machine[r].object = "live" /\ machine[r].vm # "freed"

\* How far retro_deinit has come with the machine it shuts down: what its
\* earlier steps have freed is not live any more.
ClosedUpTo(reached, m) ==
  /\ reached \in Closing \ {"FreeVM"} => m.vm # "live"
  /\ reached \in {"FreeFlash", "FreeRom", "Delete"} => m.ram # "live"
  /\ reached \in {"FreeRom", "Delete"} => m.region # "live"
  /\ reached = "Delete" => m.rom # "live"

\* The inductive invariant.  Only retro_deinit frees, step by step, and between
\* its start and the reset of the pointers with the library the frontend makes
\* no other call; a machine being loaded or loaded has a pointer to it.
Inv ==
  /\ created \in 0 .. MaxGames
  /\ machine \in [Machines -> Record]
  /\ xbox \in 0 .. created /\ hv \in 0 .. created /\ nv2a \in 0 .. created
  /\ \A x \in Machines : Sound(machine[x])
  /\ phase \notin Closing \cup {"deinitialised"} =>
       Usable(xbox) /\ Usable(hv) /\ Usable(nv2a)
  /\ phase = "loaded" => xbox # Null
  /\ phase \in Closing => xbox # Null /\ ClosedUpTo(phase, machine[xbox])
  /\ load.running => phase = "initialised" /\ xbox # Null
  /\ error \in {"none", "null"}

-----------------------------------------------------------------------------
\* What Init leaves behind, however far it came, is sound and usable.
LEMMA InitialisedIsSound ==
  ASSUME NEW stage \in Stages, NEW allocated \in BOOLEAN, NEW rom \in {"none", "live"}
  PROVE  LET m == [Initialised(stage, allocated) EXCEPT !.rom = rom]
         IN  m \in Record /\ Sound(m) /\ m.object = "live" /\ m.vm # "freed"
<1> DEFINE m == [Initialised(stage, allocated) EXCEPT !.rom = rom]
<1>1. m \in Record
  <2> DEFINE i == Initialised(stage, allocated)
  <2>1. (stage = "Done") \in BOOLEAN
    OBVIOUS
  <2>2. i \in Record
    BY <2>1, Zenon DEF Initialised, Record, Resource
  <2> HIDE DEF i
  <2>3. [i EXCEPT !.rom = rom] \in Record
    BY <2>2 DEF Record, Resource
  <2> QED BY <2>3 DEF i
<1>2. m.object = "live" /\ m.vm # "freed" /\ m.ram # "freed" /\ m.region # "freed"
  BY DEF Initialised
<1> HIDE DEF m
<1>3. Sound(m)
  BY <1>2 DEF Sound
<1> QED BY <1>1, <1>2, <1>3 DEF m

\* A step of retro_deinit takes the machine one step further and keeps it
\* sound: the virtual machine is freed first, the object last.
LEMMA FreesKeepsSound ==
  ASSUME NEW m \in Record, Sound(m), NEW reached \in Closing, ClosedUpTo(reached, m)
  PROVE  /\ reached = "FreeVM" =>
              LET d == [m EXCEPT !["vm"] = Freed(@)]
              IN  d \in Record /\ Sound(d) /\ ClosedUpTo("FreeRam", d)
         /\ reached = "FreeRam" =>
              LET d == [m EXCEPT !["ram"] = Freed(@)]
              IN  d \in Record /\ Sound(d) /\ ClosedUpTo("FreeFlash", d)
         /\ reached = "FreeFlash" =>
              LET d == [m EXCEPT !["region"] = Freed(@)]
              IN  d \in Record /\ Sound(d) /\ ClosedUpTo("FreeRom", d)
         /\ reached = "FreeRom" =>
              LET d == [m EXCEPT !["rom"] = Freed(@)]
              IN  d \in Record /\ Sound(d) /\ ClosedUpTo("Delete", d)
         /\ reached = "Delete" =>
              LET d == [m EXCEPT !["object"] = Freed(@)]
              IN  d \in Record /\ Sound(d)
<1>1. CASE reached = "FreeVM"
  BY <1>1 DEF Record, Resource, Sound, ClosedUpTo, Freed, Closing
<1>2. CASE reached = "FreeRam"
  BY <1>2 DEF Record, Resource, Sound, ClosedUpTo, Freed, Closing
<1>3. CASE reached = "FreeFlash"
  BY <1>3 DEF Record, Resource, Sound, ClosedUpTo, Freed, Closing
<1>4. CASE reached = "FreeRom"
  BY <1>4 DEF Record, Resource, Sound, ClosedUpTo, Freed, Closing
<1>5. CASE reached = "Delete"
  BY <1>5 DEF Record, Resource, Sound, ClosedUpTo, Freed, Closing
<1> QED BY <1>1, <1>2, <1>3, <1>4, <1>5 DEF Closing

LEMMA InitInv == Init => Inv
  BY LifecycleAssumption
  DEF Init, Inv, NoMachine, Record, Resource, Sound, Usable, Closing, Null, Machines

-----------------------------------------------------------------------------
LEMMA LoadGameInv ==
  ASSUME Inv, NEW stage \in InitOutcomes, NEW allocated \in BOOLEAN, NEW size,
         retro_load_game(stage, allocated, size), error = "none"
  PROVE  Inv'
<1> DEFINE x == created + 1
           m == Initialised(stage, allocated)
<1>1. stage \in Stages /\ MaxGames \in Nat
  BY LifecycleAssumption
<1>2. x \in Machines /\ x # Null
  BY <1>1 DEF Inv, retro_load_game, Machines, Null
<1>3. \E rom \in {"none", "live"} : machine' = [machine EXCEPT ![x] = [m EXCEPT !.rom = rom]]
  <2>1. m = [m EXCEPT !.rom = "none"]
    BY DEF Initialised
  <2> QED BY <2>1 DEF retro_load_game, StartBootRoms
<1>4. PICK rom \in {"none", "live"} : machine' = [machine EXCEPT ![x] = [m EXCEPT !.rom = rom]]
  BY <1>3
<1> DEFINE n == [m EXCEPT !.rom = rom]
<1>5. n \in Record /\ Sound(n) /\ n.object = "live" /\ n.vm # "freed"
  BY <1>1, InitialisedIsSound
<1> HIDE DEF n
<1>6. machine' = [machine EXCEPT ![x] = n]
  BY <1>4 DEF n
<1>7. /\ machine' \in [Machines -> Record]
      /\ machine'[x] = n
      /\ \A y \in Machines : y # x => machine'[y] = machine[y]
  BY <1>2, <1>5, <1>6 DEF Inv
<1>8. xbox' = x /\ hv' = hv /\ nv2a' = nv2a /\ created' = x /\ created < MaxGames
  BY DEF retro_load_game
<1>9. phase = "initialised" /\ phase' \in {"initialised", "failed"}
  BY DEF retro_load_game, StartBootRoms
<1>10. hv # x /\ nv2a # x /\ hv \in 0 .. x /\ nv2a \in 0 .. x /\ x \in 0 .. MaxGames
  BY <1>1, <1>8 DEF Inv
<1>11. load'.running => phase' = "initialised"
  BY <1>9 DEF retro_load_game, StartBootRoms, Idle
<1>12. error' \in {"none", "null"}
  BY DEF Inv, retro_load_game, StartBootRoms
<1>13. hv # Null => hv \in Machines
  BY <1>1, <1>8 DEF Inv, Machines, Null
<1>14. nv2a # Null => nv2a \in Machines
  BY <1>1, <1>8 DEF Inv, Machines, Null
<1>15. Usable(xbox)' /\ Usable(hv)' /\ Usable(nv2a)'
  BY <1>5, <1>7, <1>8, <1>9, <1>10, <1>13, <1>14 DEF Inv, Usable, Closing
<1>16. \A y \in Machines : Sound(machine'[y])
  BY <1>5, <1>7 DEF Inv
<1> QED BY <1>2, <1>7, <1>8, <1>9, <1>10, <1>11, <1>12, <1>15, <1>16 DEF Inv, Null, Closing

LEMMA RunInv ==
  ASSUME Inv, retro_run, error = "none"
  PROVE  Inv'
<1>1. xbox # Null /\ hv' \in {hv, xbox} /\ nv2a' \in {nv2a, xbox} /\ hv' # Null /\ nv2a' # Null
  BY DEF Inv, retro_run, Bound
<1>2. /\ machine[hv'].vm # "freed" /\ machine[nv2a'].object = "live"
      /\ machine[hv'].object = "live" /\ machine[nv2a'].vm # "freed"
      /\ machine[xbox].object = "live"
  BY <1>1 DEF Inv, retro_run, Usable, Closing
<1>3. error' # "freed"
  BY <1>2 DEF retro_run
<1> QED BY <1>1, <1>2, <1>3 DEF Inv, retro_run, Usable, Closing

LEMMA DeinitInv ==
  ASSUME Inv, retro_deinit, error = "none"
  PROVE  Inv'
<1>1. xbox # Null => machine[xbox].object = "live"
  BY DEF Inv, Usable, retro_deinit, Closing
<1>2. ClosedUpTo("FreeVM", machine[xbox])
  BY DEF ClosedUpTo, Closing
<1> QED BY <1>1, <1>2 DEF Inv, retro_deinit, Usable, Idle, Closing

\* The steps of retro_deinit free in an order that keeps every machine sound.
LEMMA ShutdownInv ==
  ASSUME Inv, Shutdown
  PROVE  Inv'
<1>1. /\ phase \in Closing /\ xbox \in Machines /\ xbox # Null /\ ~ load.running
      /\ ClosedUpTo(phase, machine[xbox])
  <2>1. phase \in Closing
    BY DEF Shutdown, Frees, Closing
  <2> QED BY <2>1, LifecycleAssumption DEF Inv, Machines, Null, Closing
<1>2. UNCHANGED <<created, xbox, hv, nv2a, load, error>>
  BY DEF Shutdown
<1>3. machine[xbox] \in Record /\ Sound(machine[xbox])
  BY <1>1 DEF Inv
<1>4. ASSUME NEW d \in Record, Sound(d), machine' = [machine EXCEPT ![xbox] = d],
             phase' \in Closing => ClosedUpTo(phase', d),
             phase' \in Closing \cup {"deinitialised"}
      PROVE  Inv'
  <2>1. machine' \in [Machines -> Record] /\ \A y \in Machines : Sound(machine'[y])
    BY <1>1, <1>4 DEF Inv
  <2>2. machine'[xbox] = d
    BY <1>1, <1>4 DEF Inv
  <2> QED BY <1>1, <1>2, <1>4, <2>1, <2>2 DEF Inv, Closing
<1>5. CASE Frees("FreeVM", "vm", "FreeRam")
  <2> DEFINE d == [machine[xbox] EXCEPT !["vm"] = Freed(@)]
  <2>1. machine' = [machine EXCEPT ![xbox] = d] /\ phase = "FreeVM" /\ phase' = "FreeRam"
    BY <1>5 DEF Frees
  <2>2. d \in Record /\ Sound(d) /\ ClosedUpTo("FreeRam", d)
    BY <1>1, <1>3, <2>1, FreesKeepsSound
  <2> HIDE DEF d
  <2> QED BY <1>4, <2>1, <2>2 DEF Closing
<1>6. CASE Frees("FreeRam", "ram", "FreeFlash")
  <2> DEFINE d == [machine[xbox] EXCEPT !["ram"] = Freed(@)]
  <2>1. machine' = [machine EXCEPT ![xbox] = d] /\ phase = "FreeRam" /\ phase' = "FreeFlash"
    BY <1>6 DEF Frees
  <2>2. d \in Record /\ Sound(d) /\ ClosedUpTo("FreeFlash", d)
    BY <1>1, <1>3, <2>1, FreesKeepsSound
  <2> HIDE DEF d
  <2> QED BY <1>4, <2>1, <2>2 DEF Closing
<1>7. CASE Frees("FreeFlash", "region", "FreeRom")
  <2> DEFINE d == [machine[xbox] EXCEPT !["region"] = Freed(@)]
  <2>1. machine' = [machine EXCEPT ![xbox] = d] /\ phase = "FreeFlash" /\ phase' = "FreeRom"
    BY <1>7 DEF Frees
  <2>2. d \in Record /\ Sound(d) /\ ClosedUpTo("FreeRom", d)
    BY <1>1, <1>3, <2>1, FreesKeepsSound
  <2> HIDE DEF d
  <2> QED BY <1>4, <2>1, <2>2 DEF Closing
<1>8. CASE Frees("FreeRom", "rom", "Delete")
  <2> DEFINE d == [machine[xbox] EXCEPT !["rom"] = Freed(@)]
  <2>1. machine' = [machine EXCEPT ![xbox] = d] /\ phase = "FreeRom" /\ phase' = "Delete"
    BY <1>8 DEF Frees
  <2>2. d \in Record /\ Sound(d) /\ ClosedUpTo("Delete", d)
    BY <1>1, <1>3, <2>1, FreesKeepsSound
  <2> HIDE DEF d
  <2> QED BY <1>4, <2>1, <2>2 DEF Closing
<1>9. CASE Frees("Delete", "object", "deinitialised")
  <2> DEFINE d == [machine[xbox] EXCEPT !["object"] = Freed(@)]
  <2>1. machine' = [machine EXCEPT ![xbox] = d] /\ phase = "Delete" /\ phase' = "deinitialised"
    BY <1>9 DEF Frees
  <2>2. d \in Record /\ Sound(d)
    BY <1>1, <1>3, <2>1, FreesKeepsSound
  <2> HIDE DEF d
  <2> QED BY <1>4, <2>1, <2>2 DEF Closing
<1> QED BY <1>5, <1>6, <1>7, <1>8, <1>9 DEF Shutdown

LEMMA NextInv == Inv /\ [Next]_vars => Inv'
<1> SUFFICES ASSUME Inv, [Next]_vars PROVE Inv'
  OBVIOUS
<1>1. ASSUME error = "none", phase = "unloaded", retro_init PROVE Inv'
  BY <1>1 DEF Inv, retro_init, Usable, Closing
<1>2. ASSUME error = "none", NoPlatform PROVE Inv'
  BY <1>2 DEF Inv, NoPlatform, Usable, Closing, Idle
<1>3. ASSUME error = "none", NEW stage \in InitOutcomes, NEW allocated \in BOOLEAN, NEW size,
             retro_load_game(stage, allocated, size)
      PROVE Inv'
  BY <1>3, LoadGameInv
<1>4. ASSUME error = "none", retro_run PROVE Inv'
  BY <1>4, RunInv
<1>5. ASSUME error = "none", retro_unload_game PROVE Inv'
  BY <1>5 DEF Inv, retro_unload_game, Usable, Closing
<1>6. ASSUME error = "none", retro_deinit PROVE Inv'
  BY <1>6, DeinitInv
<1>7. ASSUME error = "none", UnloadLibrary PROVE Inv'
  BY <1>7 DEF Inv, UnloadLibrary, Usable, Closing, Null
<1>8. ASSUME MirrorStep PROVE Inv'
  BY <1>8 DEF Inv, MirrorStep, Usable, Closing, Idle
<1>9. ASSUME NEW mcpx \in BOOLEAN, NEW accepted \in BOOLEAN, FinishLoad(mcpx, accepted)
      PROVE Inv'
  BY <1>9 DEF Inv, FinishLoad, Usable, Closing, Idle
<1>10. CASE UNCHANGED vars
  BY <1>10 DEF Inv, vars, Usable, Closing
<1>11. CASE Shutdown
  BY <1>11, ShutdownInv
<1> QED BY <1>1, <1>2, <1>3, <1>4, <1>5, <1>6, <1>7, <1>8, <1>9, <1>10, <1>11
        DEF Next, Frontend, Load

-----------------------------------------------------------------------------
\* However often the frontend loads games, no call uses a virtual machine or an
\* object that has been freed, static references included.
THEOREM NothingFreedIsUsed == Spec => []NoUseAfterFree
<1>1. Inv => NoUseAfterFree
  BY DEF Inv, NoUseAfterFree
<1> QED BY <1>1, InitInv, NextInv, PTL DEF Spec

\* No virtual machine outlives the memory mapped into it: the steps of
\* retro_deinit free it before they free its RAM and flash.
THEOREM MemoryOutlivesVM == Spec => []GuestMemoryLive
<1>1. Inv => GuestMemoryLive
  BY DEF Inv, GuestMemoryLive, Sound
<1> QED BY <1>1, InitInv, NextInv, PTL DEF Spec

\* retro_deinit frees whatever Init and LoadBootRoms allocated for its machine.
THEOREM DeletionFreesAll == Spec => []NothingLeaked
<1>1. Inv => NothingLeaked
  BY DEF Inv, NothingLeaked, Sound
<1> QED BY <1>1, InitInv, NextInv, PTL DEF Spec

-----------------------------------------------------------------------------
(* The mirroring loop.                                                     *)

\* What is left by a division is smaller than the divisor.
LEMMA Division ==
  ASSUME NEW a \in Nat, NEW s \in Nat \ {0}
  PROVE  a = s * (a \div s) + (a % s) /\ a % s \in 0 .. s - 1 /\ a \div s \in Nat
OBVIOUS

\* Division leaves one remainder only.
LEMMA RemainderIs ==
  ASSUME NEW a \in Nat, NEW s \in Nat \ {0}, NEW q \in Nat, NEW d \in 0 .. s - 1,
         a = s * q + d
  PROVE  a % s = d /\ a \div s = q
<1> DEFINE k == a \div s
           r == a % s
<1>1. a = s * k + r /\ r \in 0 .. s - 1 /\ k \in Nat
  BY Division
<1> HIDE DEF k, r
<1>2. s * (k - q) = d - r
  BY <1>1
<1>3. ASSUME k > q PROVE FALSE
  <2>1. k - q - 1 \in Nat /\ s * (k - q) = s * (k - q - 1) + s
    BY <1>1, <1>3
  <2>2. s * (k - q - 1) >= 0
    BY <2>1
  <2> QED BY <1>1, <1>2, <2>1, <2>2
<1>4. ASSUME k < q PROVE FALSE
  <2>1. q - k - 1 \in Nat /\ s * (k - q) = - s - s * (q - k - 1)
    BY <1>1, <1>4
  <2>2. s * (q - k - 1) >= 0
    BY <2>1
  <2> QED BY <1>1, <1>2, <2>1, <2>2
<1>5. k = q
  BY <1>1, <1>3, <1>4
<1>6. r = d
  BY <1>1, <1>5
<1> QED BY <1>5, <1>6 DEF k, r

\* Behind a whole number of copies of s units the next copy counts from 0, ends
\* where another may begin, and fits in front of every end that is a whole
\* number of copies away.
LEMMA NextCopy ==
  ASSUME NEW a \in Nat, NEW s \in Nat \ {0}, a % s = 0
  PROVE  /\ \A d \in 0 .. s - 1 : (a + d) % s = d
         /\ (a + s) % s = 0
         /\ \A b \in Nat : b % s = 0 /\ a < b => a + s <= b
<1> DEFINE q == a \div s
<1>1. a = s * q /\ q \in Nat
  BY Division
<1> HIDE DEF q
<1>2. \A d \in 0 .. s - 1 : (a + d) % s = d
  BY <1>1, RemainderIs
<1>3. (a + s) % s = 0
  <2>1. a + s = s * (q + 1) + 0 /\ q + 1 \in Nat /\ a + s \in Nat /\ 0 \in 0 .. s - 1
    BY <1>1
  <2> HIDE DEF q
  <2> QED BY <2>1, RemainderIs
<1>4. ASSUME NEW b \in Nat, b % s = 0, a < b PROVE a + s <= b
  <2> DEFINE k == b \div s
  <2>1. b = s * k /\ k \in Nat
    BY <1>4, Division
  <2> HIDE DEF k
  <2>2. k > q
    <3>1. ASSUME k <= q PROVE FALSE
      <4>1. s * (q - k) >= 0
        BY <1>1, <2>1, <3>1
      <4> QED BY <1>1, <1>4, <2>1, <4>1
    <3> QED BY <1>1, <2>1, <3>1
  <2>3. s * (k - q - 1) >= 0
    BY <1>1, <2>1, <2>2
  <2> QED BY <1>1, <2>1, <2>3
<1> QED BY <1>2, <1>3, <1>4

\* The first n units hold the BIOS over and over, and the memory behind the
\* region is untouched.
MirroredUpTo(n) ==
  /\ \A u \in Units : u < n => flash[u] = u % load.size
  /\ \A u \in Reach \ Units : flash[u] = Behind

\* The invariant of the loop: it starts its copies where the last one ended,
\* in the region; where the size of the BIOS divides the region the copies
\* fill it from its start without a gap and end where it ends.  An empty BIOS
\* is never loaded, for the loop does not end.
MirrorInv ==
  /\ load \in [running : BOOLEAN, size : Nat, addr : Nat]
  /\ DOMAIN flash = Reach
  /\ load.running =>
       /\ load.size \in BiosSizes
       /\ load.addr < FlashUnits + load.size
       /\ load.size = 0 => load.addr = 0
       /\ load.size # 0 /\ FlashUnits % load.size = 0 =>
            /\ load.addr % load.size = 0
            /\ load.addr <= FlashUnits
            /\ MirroredUpTo(load.addr)
  /\ phase = "loaded" =>
       /\ load.size # 0
       /\ overlaid
       /\ FlashUnits % load.size = 0 => MirroredUpTo(FlashUnits)

LEMMA InitMirrorInv == Init => MirrorInv
  BY DEF Init, MirrorInv

\* retro_load_game copies the BIOS once and starts the loop behind it.
LEMMA LoadGameMirrorInv ==
  ASSUME MirrorInv, NEW stage \in InitOutcomes, NEW allocated \in BOOLEAN,
         NEW size \in BiosSizes \cup {Unset}, retro_load_game(stage, allocated, size)
  PROVE  MirrorInv'
<1>1. phase = "initialised" /\ ~ load.running /\ phase' # "loaded"
  BY DEF retro_load_game, StartBootRoms, Idle
<1>2. CASE size = Unset \/ (load' = load /\ flash' = flash)
  <2>1. load' = load /\ DOMAIN flash' = Reach
    BY <1>2 DEF retro_load_game, StartBootRoms, MirrorInv
  <2> QED BY <1>1, <2>1 DEF MirrorInv
<1>3. CASE size # Unset /\ ~ (load' = load /\ flash' = flash)
  <2>1. /\ load' = [running |-> TRUE, size |-> size, addr |-> size]
        /\ flash' = [u \in Reach |-> IF u < size THEN u
                                     ELSE IF u \in Units THEN Unset
                                     ELSE Behind]
    BY <1>3 DEF retro_load_game, StartBootRoms
  <2>2. size \in BiosSizes /\ size \in Nat /\ FlashUnits \in Nat \ {0}
    BY <1>3, LifecycleAssumption
  <2>3. ASSUME size # 0, FlashUnits % size = 0
        PROVE  size % size = 0 /\ size <= FlashUnits /\ MirroredUpTo(size)'
    <3>1. 0 % size = 0
      BY <2>2, <2>3, RemainderIs
    <3>2. /\ \A d \in 0 .. size - 1 : (0 + d) % size = d
          /\ (0 + size) % size = 0
          /\ 0 + size <= FlashUnits
      BY <2>2, <2>3, <3>1, NextCopy
    <3>3. ASSUME NEW u \in Units, u < size PROVE flash'[u] = u % size
      <4>1. u \in Reach /\ u \in 0 .. size - 1
        BY <2>2, <3>3 DEF Reach, Units
      <4>2. u % size = u
        BY <3>2, <4>1
      <4> QED BY <2>1, <3>3, <4>1, <4>2
    <3>4. ASSUME NEW u \in Reach \ Units PROVE flash'[u] = Behind
      <4>1. u \in Nat
        BY <3>4, LifecycleAssumption DEF Reach, Units
      <4>2. ~ u < size
        BY <2>2, <3>2, <3>4, <4>1 DEF Units
      <4> QED BY <2>1, <3>4, <4>2
    <3> QED BY <2>1, <2>2, <3>2, <3>3, <3>4 DEF MirroredUpTo
  <2> QED BY <1>1, <2>1, <2>2, <2>3 DEF MirrorInv
<1> QED BY <1>2, <1>3

\* A round of the loop copies the BIOS once more.
LEMMA MirrorStepInv ==
  ASSUME Inv, MirrorInv, MirrorStep
  PROVE  MirrorInv'
<1> DEFINE a == load.addr
           s == load.size
<1>1. /\ load.running /\ phase' = "initialised" /\ a < FlashUnits
      /\ load' = [load EXCEPT !.addr = @ + load.size]
      /\ flash' = Copied(load.addr, load.size)
  BY DEF MirrorStep, Inv, Idle
<1>2. FlashUnits \in Nat /\ a \in Nat /\ s \in Nat /\ s \in BiosSizes
  BY <1>1, LifecycleAssumption DEF MirrorInv
<1>3. /\ load' \in [running : BOOLEAN, size : Nat, addr : Nat]
      /\ load'.running /\ load'.size = s /\ load'.addr = a + s
  BY <1>1, <1>2 DEF MirrorInv
<1>4. DOMAIN flash' = Reach
  BY <1>1 DEF Copied
<1>5. ASSUME s # 0, FlashUnits % s = 0
      PROVE  (a + s) % s = 0 /\ a + s <= FlashUnits /\ MirroredUpTo(load.addr)'
  <2>1. a % s = 0 /\ MirroredUpTo(a)
    BY <1>1, <1>5 DEF MirrorInv
  <2>2. /\ \A d \in 0 .. s - 1 : (a + d) % s = d
        /\ (a + s) % s = 0
        /\ a + s <= FlashUnits
    BY <1>1, <1>2, <1>5, <2>1, NextCopy
  <2>3. ASSUME NEW u \in Units, u < a + s PROVE flash'[u] = u % s
    <3>1. u \in Reach /\ u \in Nat
      BY <1>2, <2>3 DEF Reach, Units
    <3>2. CASE u < a
      BY <1>1, <1>2, <2>1, <2>3, <3>1, <3>2 DEF Copied, MirroredUpTo
    <3>3. CASE ~ u < a
      <4>1. u - a \in 0 .. s - 1 /\ u = a + (u - a) /\ u \in a .. a + s - 1
        BY <1>2, <2>3, <3>1, <3>3
      <4>2. u % s = u - a
        BY <2>2, <4>1
      <4> QED BY <1>1, <3>1, <4>1, <4>2 DEF Copied
    <3> QED BY <3>2, <3>3
  <2>4. ASSUME NEW u \in Reach \ Units PROVE flash'[u] = Behind
    <3>1. u \notin a .. a + s - 1
      BY <1>2, <2>2, <2>4 DEF Units
    <3> QED BY <1>1, <2>1, <2>4, <3>1 DEF Copied, MirroredUpTo
  <2> QED BY <1>3, <2>2, <2>3, <2>4 DEF MirroredUpTo
<1>6. a + s < FlashUnits + s /\ (s = 0 => a + s = 0)
  BY <1>1, <1>2 DEF MirrorInv
<1> HIDE DEF a, s
<1> QED BY <1>1, <1>2, <1>3, <1>4, <1>5, <1>6 DEF MirrorInv

\* The loop ends where the region ends.
LEMMA FinishLoadMirrorInv ==
  ASSUME MirrorInv, NEW mcpx \in BOOLEAN, NEW accepted \in BOOLEAN,
         FinishLoad(mcpx, accepted)
  PROVE  MirrorInv'
<1>1. /\ load.running /\ load.addr >= FlashUnits /\ flash' = flash
      /\ load' = [load EXCEPT !.running = FALSE]
      /\ phase' = "loaded" => overlaid' = TRUE
  BY DEF FinishLoad, Idle
<1>2. /\ load' \in [running : BOOLEAN, size : Nat, addr : Nat]
      /\ ~ load'.running /\ load'.size = load.size
  BY <1>1 DEF MirrorInv
<1>3. FlashUnits \in Nat \ {0}
  BY LifecycleAssumption
<1>4. load.size # 0
  BY <1>1, <1>3 DEF MirrorInv
<1>5. ASSUME FlashUnits % load.size = 0 PROVE MirroredUpTo(FlashUnits)'
  <2>1. load.addr = FlashUnits /\ MirroredUpTo(load.addr)
    BY <1>1, <1>3, <1>4, <1>5 DEF MirrorInv
  <2> QED BY <1>1, <1>2, <2>1 DEF MirroredUpTo
<1> QED BY <1>1, <1>2, <1>4, <1>5 DEF MirrorInv

LEMMA NextMirrorInv == Inv /\ MirrorInv /\ [Next]_vars => MirrorInv'
<1> SUFFICES ASSUME Inv, MirrorInv, [Next]_vars PROVE MirrorInv'
  OBVIOUS
<1>1. ASSUME UNCHANGED <<load, flash, overlaid>>, phase' = "loaded" => phase = "loaded"
      PROVE  MirrorInv'
  BY <1>1 DEF MirrorInv, MirroredUpTo
<1>2. CASE retro_init \/ NoPlatform
  BY <1>1, <1>2 DEF retro_init, NoPlatform
<1>3. ASSUME NEW stage \in InitOutcomes, NEW allocated \in BOOLEAN,
             NEW size \in BiosSizes \cup {Unset}, retro_load_game(stage, allocated, size)
      PROVE  MirrorInv'
  BY <1>3, LoadGameMirrorInv
<1>4. CASE retro_run \/ retro_unload_game
  BY <1>1, <1>4 DEF retro_run, retro_unload_game
<1>5. CASE retro_deinit \/ UnloadLibrary
  BY <1>1, <1>5 DEF retro_deinit, UnloadLibrary
<1>6. CASE Shutdown
  BY <1>1, <1>6 DEF Shutdown, Frees
<1>7. CASE MirrorStep
  BY <1>7, MirrorStepInv
<1>8. ASSUME NEW mcpx \in BOOLEAN, NEW accepted \in BOOLEAN, FinishLoad(mcpx, accepted)
      PROVE  MirrorInv'
  BY <1>8, FinishLoadMirrorInv
<1>9. CASE UNCHANGED vars
  BY <1>1, <1>9 DEF vars
<1> QED BY <1>2, <1>3, <1>4, <1>5, <1>6, <1>7, <1>8, <1>9 DEF Next, Frontend, Load

LEMMA MirrorInvSuffices == Inv /\ MirrorInv => LoadedMirrored /\ TypeOK
<1> SUFFICES ASSUME Inv, MirrorInv PROVE LoadedMirrored /\ TypeOK
  OBVIOUS
<1>1. LoadedMirrored
  <2> SUFFICES ASSUME phase = "loaded", FlashUnits % load.size = 0
               PROVE  /\ \A u \in Units : flash[u] = u % load.size
                      /\ \A u \in Reach \ Units : flash[u] = Behind
                      /\ overlaid
    BY DEF LoadedMirrored
  <2>1. \A u \in Units : u < FlashUnits
    BY LifecycleAssumption DEF Units
  <2> QED BY <2>1 DEF MirrorInv, MirroredUpTo
<1>2. load.running => load.addr \in 0 .. FlashUnits + load.size - 1
  BY LifecycleAssumption DEF MirrorInv
<1>3. TypeOK
  BY <1>2 DEF TypeOK, Inv, MirrorInv, Record, Idle
<1> QED BY <1>1, <1>3

\* Pointers, resources and the region stay well formed, and every copy of the
\* loop starts within the region.
THEOREM TypeCorrect == Spec => []TypeOK
<1>1. Init => Inv /\ MirrorInv
  BY InitInv, InitMirrorInv
<1>2. Inv /\ MirrorInv /\ [Next]_vars => (Inv /\ MirrorInv)'
  BY NextInv, NextMirrorInv
<1> QED BY <1>1, <1>2, MirrorInvSuffices, PTL DEF Spec

\* However often games are loaded, a load that has succeeded with a BIOS whose
\* size divides the flash region has mirrored it to the end of the region and
\* not beyond, with the MCPX ROM on top.
THEOREM RegionIsMirrored == Spec => []LoadedMirrored
<1>1. Init => Inv /\ MirrorInv
  BY InitInv, InitMirrorInv
<1>2. Inv /\ MirrorInv /\ [Next]_vars => (Inv /\ MirrorInv)'
  BY NextInv, NextMirrorInv
<1> QED BY <1>1, <1>2, MirrorInvSuffices, PTL DEF Spec

-----------------------------------------------------------------------------
(* The memory of the options.                                              *)

Arrays == {VariablesArray, ValuesArray}

\* Every text of values_buf has its buffer, and there is none without the array
\* that points to it.
HeapInv ==
  /\ texts = [i \in Options |-> texts[i]]
  /\ \A b \in heap : b \in Arrays \/ \E i \in Options : b = Buffer(i) /\ texts[i] # NoString
  /\ (\E i \in Options : texts[i] # NoString) => ValuesArray \in heap
  /\ at \in {"returned", "version", "language", "arrays"} => heap = {}
  /\ at = "build" => Arrays \subseteq heap

LEMMA BuildKeeps ==
  ASSUME HeapInv, NEW allocated, BuildText(allocated)
  PROVE  HeapInv'
<1> DEFINE option == OptionDefs[next]
<1>1. next \in Options /\ at = "build"
  BY DEF BuildText
<1>2. CASE option.desc = NoString \/ option.values = <<>> \/ ~ allocated
  BY <1>2, <1>1 DEF BuildText, HeapInv
<1>3. CASE ~ (option.desc = NoString \/ option.values = <<>> \/ ~ allocated)
  <2>1. /\ texts' = [texts EXCEPT ![next] = Text(option)]
        /\ heap' = heap \cup {Buffer(next)}
        /\ at' = "build"
    BY <1>3, <1>1 DEF BuildText
  <2>2. Text(option) # NoString
    BY <1>1, <1>3, TextAssumption
  <2>3. \A i \in Options : texts'[i] = IF i = next THEN Text(option) ELSE texts[i]
    BY <2>1 DEF HeapInv
  <2>4. Arrays \subseteq heap'
    BY <1>1, <2>1 DEF HeapInv
  <2>5. ValuesArray \in heap'
    BY <2>4 DEF Arrays
  <2>6. ASSUME NEW b \in heap'
        PROVE  b \in Arrays \/ \E i \in Options : b = Buffer(i) /\ texts'[i] # NoString
    <3>1. CASE b = Buffer(next)
      BY <1>1, <2>2, <2>3, <3>1
    <3>2. CASE b \in heap
      <4>1. CASE b \in Arrays
        BY <4>1
      <4>2. ASSUME NEW i \in Options, b = Buffer(i), texts[i] # NoString
            PROVE  b = Buffer(i) /\ texts'[i] # NoString
        BY <4>2, <2>2, <2>3
      <4> QED BY <3>2, <4>1, <4>2 DEF HeapInv
    <3> QED BY <2>1, <3>1, <3>2
  <2>7. texts' = [i \in Options |-> texts'[i]]
    BY <2>1 DEF HeapInv
  <2> QED BY <2>1, <2>4, <2>5, <2>6, <2>7 DEF HeapInv
<1> QED BY <1>2, <1>3

LEMMA CleanUpKeeps ==
  ASSUME HeapInv, CleanUp
  PROVE  HeapInv'
<1> DEFINE buffers == {Buffer(i) : i \in {j \in Options : texts[j] # NoString}}
<1>1. heap' = {}
  <2>1. CASE ValuesArray \in heap
    <3>1. heap' = heap \ ({VariablesArray} \cup ({ValuesArray} \cup buffers))
      BY <2>1 DEF CleanUp
    <3>2. \A b \in heap : b \in Arrays \/ b \in buffers
      BY DEF HeapInv
    <3> HIDE DEF buffers
    <3> QED BY <3>1, <3>2 DEF Arrays
  <2>2. CASE ValuesArray \notin heap
    <3>1. heap' = heap \ {VariablesArray}
      BY <2>2 DEF CleanUp
    <3>2. \A b \in heap : b \in Arrays
      BY <2>2 DEF HeapInv
    <3> QED BY <2>2, <3>1, <3>2 DEF Arrays
  <2> QED BY <2>1, <2>2
<1>2. texts' = [i \in Options |-> NoString] /\ at' = "returned"
  BY DEF CleanUp
<1> QED BY <1>1, <1>2 DEF HeapInv

\* Whenever the call returns, all it has allocated is free again.
THEOREM AllIsGivenBack == OptionsSpec => []NothingKept
<1>1. OptionsInit => HeapInv
  BY DEF OptionsInit, HeapInv
<1>2. HeapInv /\ [libretro_set_core_options \/ OptionsNext]_optionVars => HeapInv'
  <2> SUFFICES ASSUME HeapInv, [libretro_set_core_options \/ OptionsNext]_optionVars
               PROVE  HeapInv'
    OBVIOUS
  <2>1. CASE libretro_set_core_options
    BY <2>1 DEF libretro_set_core_options, HeapInv
  <2>2. ASSUME NEW answered \in BOOLEAN, NEW version \in 0 .. 2, Version(answered, version)
        PROVE  HeapInv'
    BY <2>2 DEF Version, HeapInv
  <2>3. ASSUME NEW answered \in BOOLEAN, NEW language \in 0 .. RETRO_LANGUAGE_LAST,
               Language(answered, language)
        PROVE  HeapInv'
    BY <2>3 DEF Language, HeapInv
  <2>4. ASSUME NEW variables \in BOOLEAN, NEW values_buf \in BOOLEAN,
               AllocateArrays(variables, values_buf)
        PROVE  HeapInv'
    <3>1. heap = {} /\ (\A i \in Options : texts[i] = NoString) /\ texts' = texts
      BY <2>4 DEF AllocateArrays, HeapInv
    <3>2. heap' = (IF variables THEN {VariablesArray} ELSE {})
                    \cup (IF values_buf THEN {ValuesArray} ELSE {})
      BY <2>4, <3>1 DEF AllocateArrays
    <3>3. at' = IF variables /\ values_buf THEN "build" ELSE "error"
      BY <2>4 DEF AllocateArrays
    <3>4. texts' = [i \in Options |-> texts'[i]]
      BY <3>1 DEF HeapInv
    <3> QED BY <3>1, <3>2, <3>3, <3>4 DEF HeapInv, Arrays
  <2>5. CASE \E allocated \in BOOLEAN : BuildText(allocated)
    BY <2>5, BuildKeeps
  <2>6. CASE SetVariables
    BY <2>6 DEF SetVariables, HeapInv
  <2>7. CASE CleanUp
    BY <2>7, CleanUpKeeps
  <2>8. CASE UNCHANGED optionVars
    BY <2>8 DEF optionVars, HeapInv
  <2> QED BY <2>1, <2>2, <2>3, <2>4, <2>5, <2>6, <2>7, <2>8 DEF OptionsNext
<1>3. HeapInv => NothingKept
  BY DEF HeapInv, NothingKept
<1> QED BY <1>1, <1>2, <1>3, PTL DEF OptionsSpec

-----------------------------------------------------------------------------
(* Texts.                                                                  *)

\* A set that holds zero and with each number the next holds them all.
LEMMA NumberByNumber ==
  ASSUME NEW S, 0 \in S, \A n \in Nat : n \in S => n + 1 \in S
  PROVE  Nat \subseteq S
<1> DEFINE R == OpToRel(<, Nat)
           T == Nat \ S
<1>0. \A x, y \in Nat : x < y => <<x, y>> \in R
  BY DEF OpToRel
<1>1. IsWellFoundedOn(R, Nat)
  BY NatLessThanWellFounded
<1> HIDE DEF R
<1>2. ASSUME T # {} PROVE FALSE
  <2>1. PICK n \in T : \A m \in T : <<m, n>> \notin R
    BY <1>1, <1>2, WFMin
  <2>2. n # 0 /\ n \in Nat
    OBVIOUS
  <2>3. n - 1 \in Nat /\ n - 1 < n /\ (n - 1) + 1 = n
    BY <2>2
  <2>4. n - 1 \notin T
    BY <1>0, <2>1, <2>2, <2>3
  <2>5. n \in S
    BY <2>3, <2>4
  <2> QED BY <2>5
<1> QED BY <1>2

\* A nonempty set of indices has a largest.
LEMMA LargestOf ==
  ASSUME NEW n \in Nat, NEW S, S \subseteq 1 .. n, S # {}
  PROVE  \E i \in S : \A j \in S : j <= i
<1> DEFINE T == {k \in Nat : (\E j \in S : j >= n - k) => \E i \in S : \A j \in S : j <= i}
<1>1. 0 \in T
  OBVIOUS
<1>2. ASSUME NEW k \in Nat, k \in T PROVE k + 1 \in T
  <2>1. ASSUME NEW j \in S, j >= n - (k + 1)
        PROVE  \E i \in S : \A m \in S : m <= i
    <3>1. CASE \E m \in S : m >= n - k
      BY <1>2, <3>1
    <3>2. CASE ~ \E m \in S : m >= n - k
      <4>1. \A m \in S : m <= j
        BY <2>1, <3>2
      <4> QED BY <4>1
    <3> QED BY <3>1, <3>2
  <2> QED BY <2>1
<1>3. Nat \subseteq T
  <2> HIDE DEF T
  <2> QED BY <1>1, <1>2, NumberByNumber
<1>4. n \in T
  BY <1>3
<1>5. \A j \in S : j >= n - n
  OBVIOUS
<1> QED BY <1>4, <1>5

\* An entry of the table that the loop writes a text for.
Written(i) == OptionDefs[i].desc # NoString /\ OptionDefs[i].values # <<>>

LEMMA WrittenOption ==
  ASSUME NEW i \in Options, Written(i)
  PROVE  /\ OptionDefs[i].desc \in DOMAIN Length
         /\ OptionDefs[i].values \in Seq(DOMAIN Length)
         /\ OptionDefs[i].values # <<>>
<1> DEFINE R == [desc : DOMAIN Length \cup {NoString}, values : Seq(DOMAIN Length),
                 default_value : DOMAIN Length]
<1>1. OptionDefs \in Seq(R)
  BY OptionsAssumption
<1>2. OptionDefs[i] \in R
  <2> HIDE DEF R
  <2> QED BY <1>1, ElementOfSeq DEF Options
<1> QED BY <1>2 DEF Written

\* The place of the default value is a place of the values, and holds it if
\* they do.
LEMMA DefaultIsThere ==
  ASSUME NEW option, NEW S, option.values \in Seq(S), option.values # <<>>
  PROVE  LET d == DefaultIndex(option)
         IN  /\ d \in 1 .. Len(option.values)
             /\ option.default_value \in Strings(option.values) =>
                  option.values[d] = option.default_value
<1> DEFINE v == option.values
           matching == {i \in DOMAIN v : v[i] = option.default_value}
           d == DefaultIndex(option)
<1>1. Len(v) \in Nat \ {0} /\ DOMAIN v = 1 .. Len(v)
  BY LenProperties, EmptySeq
<1>2. d = IF matching = {} THEN 1 ELSE CHOOSE i \in matching : \A j \in matching : j <= i
  BY DEF DefaultIndex
<1>3. CASE matching = {}
  BY <1>1, <1>2, <1>3 DEF Strings
<1>4. CASE matching # {}
  <2>1. \E i \in matching : \A j \in matching : j <= i
    <3>1. matching \subseteq 1 .. Len(v)
      BY <1>1
    <3> HIDE DEF matching
    <3> QED BY <1>1, <1>4, <3>1, LargestOf
  <2>2. d \in matching
    BY <1>2, <1>4, <2>1
  <2> QED BY <1>1, <2>2
<1> QED BY <1>3, <1>4

\* A text holds the description, the default value, and the other values in
\* their order.
LEMMA TextOf ==
  ASSUME NEW option, option.desc \in DOMAIN Length,
         option.values \in Seq(DOMAIN Length), option.values # <<>>
  PROVE  LET text == Text(option)
             d    == DefaultIndex(option)
         IN  /\ text \in Seq(DOMAIN Length)
             /\ Len(text) = Len(option.values) + 1
             /\ text[1] = option.desc
             /\ text[2] = option.values[d]
             /\ \A k \in 3 .. Len(text) :
                  text[k] = IF k - 2 < d THEN option.values[k - 2] ELSE option.values[k - 1]
<1> DEFINE v == option.values
           d == DefaultIndex(option)
           S == DOMAIN Length
           head == <<option.desc, v[d]>>
           before == SubSeq(v, 1, d - 1)
           behind == SubSeq(v, d + 1, Len(v))
<1>1. d \in 1 .. Len(v) /\ Len(v) \in Nat
  BY DefaultIsThere, LenProperties
<1>2. \A k \in 1 .. Len(v) : v[k] \in S
  BY ElementOfSeq
<1> HIDE DEF d
<1>3. head \in Seq(S) /\ Len(head) = 2 /\ head[1] = option.desc /\ head[2] = v[d]
  BY <1>1, <1>2
<1>4. before \in Seq(S) /\ Len(before) = d - 1 /\ \A k \in 1 .. d - 1 : before[k] = v[k]
  <2>1. 1 \in Int /\ d - 1 \in Int /\ \A k \in 1 .. d - 1 : v[k] \in S
    BY <1>1, <1>2
  <2>2. /\ before \in Seq(S)
        /\ Len(before) = IF 1 <= d - 1 THEN d - 1 - 1 + 1 ELSE 0
        /\ \A k \in 1 .. d - 1 - 1 + 1 : before[k] = v[1 + k - 1]
    BY <2>1, SubSeqProperties
  <2> HIDE DEF before
  <2> QED BY <1>1, <2>2
<1>5. /\ behind \in Seq(S) /\ Len(behind) = Len(v) - d
      /\ \A k \in 1 .. Len(v) - d : behind[k] = v[d + k]
  <2>1. d + 1 \in Int /\ Len(v) \in Int /\ \A k \in d + 1 .. Len(v) : v[k] \in S
    BY <1>1, <1>2
  <2>2. /\ behind \in Seq(S)
        /\ Len(behind) = IF d + 1 <= Len(v) THEN Len(v) - (d + 1) + 1 ELSE 0
        /\ \A k \in 1 .. Len(v) - (d + 1) + 1 : behind[k] = v[(d + 1) + k - 1]
    BY <2>1, SubSeqProperties
  <2> HIDE DEF behind
  <2> QED BY <1>1, <2>2
<1> DEFINE rest == before \o behind
           text == head \o rest
<1>6. Text(option) = text
  BY DEF Text, RemoveAt, d
<1> HIDE DEF before, behind, head
<1>7. /\ rest \in Seq(S) /\ Len(rest) = Len(v) - 1
      /\ \A k \in 1 .. Len(v) - 1 : rest[k] = IF k < d THEN v[k] ELSE v[k + 1]
  <2>1. /\ rest \in Seq(S) /\ Len(rest) = Len(before) + Len(behind)
        /\ \A k \in 1 .. Len(before) + Len(behind) :
             rest[k] = IF k <= Len(before) THEN before[k] ELSE behind[k - Len(before)]
    BY <1>4, <1>5, ConcatProperties
  <2> HIDE DEF rest
  <2>2. Len(before) + Len(behind) = Len(v) - 1
    BY <1>1, <1>4, <1>5
  <2> HIDE DEF v
  <2>3. ASSUME NEW k \in 1 .. Len(v) - 1
        PROVE  rest[k] = IF k < d THEN v[k] ELSE v[k + 1]
    <3>1. k \in Nat \ {0} /\ rest[k] = IF k <= d - 1 THEN before[k] ELSE behind[k - (d - 1)]
      BY <1>1, <1>4, <2>1, <2>2, <2>3
    <3>2. CASE k < d
      <4>1. k \in 1 .. d - 1
        BY <1>1, <3>1, <3>2
      <4> QED BY <1>1, <1>4, <3>1, <3>2, <4>1
    <3>3. CASE ~ k < d
      <4>1. k - (d - 1) \in 1 .. Len(v) - d /\ d + (k - (d - 1)) = k + 1 /\ ~ k <= d - 1
        BY <1>1, <2>3, <3>1, <3>3
      <4>2. behind[k - (d - 1)] = v[d + (k - (d - 1))]
        BY <1>5, <4>1
      <4> QED BY <3>1, <3>3, <4>1, <4>2
    <3> QED BY <3>2, <3>3
  <2> QED BY <2>1, <2>2, <2>3
<1> HIDE DEF rest
<1>8. /\ text \in Seq(S) /\ Len(text) = Len(head) + Len(rest)
      /\ \A k \in 1 .. Len(head) + Len(rest) :
           text[k] = IF k <= Len(head) THEN head[k] ELSE rest[k - Len(head)]
  BY <1>3, <1>7, ConcatProperties
<1> HIDE DEF text
<1>9. Len(text) = Len(v) + 1 /\ text[1] = option.desc /\ text[2] = v[d]
  BY <1>1, <1>3, <1>7, <1>8
<1>10. ASSUME NEW k \in 3 .. Len(text)
       PROVE  text[k] = IF k - 2 < d THEN v[k - 2] ELSE v[k - 1]
  <2>1. text[k] = rest[k - 2] /\ k - 2 \in 1 .. Len(v) - 1 /\ (k - 2) + 1 = k - 1
    BY <1>1, <1>3, <1>7, <1>8, <1>9
  <2> QED BY <1>7, <2>1
<1> QED BY <1>6, <1>8, <1>9, <1>10 DEF d

\* A text is complete: the description, the default value, every value once.
LEMMA Complete ==
  ASSUME NEW option, option.desc \in DOMAIN Length,
         option.values \in Seq(DOMAIN Length), option.values # <<>>
  PROVE  LET text == Text(option)
         IN  /\ text[1] = option.desc
             /\ option.default_value \in Strings(option.values) =>
                  text[2] = option.default_value
             /\ Len(text) = Len(option.values) + 1
             /\ Strings(Tail(text)) = Strings(option.values)
<1> DEFINE v == option.values
           d == DefaultIndex(option)
           text == Text(option)
           S == DOMAIN Length
<1>1. /\ d \in 1 .. Len(v)
      /\ option.default_value \in Strings(v) => v[d] = option.default_value
  BY DefaultIsThere
<1>2. /\ text \in Seq(S)
      /\ Len(text) = Len(v) + 1
      /\ text[1] = option.desc
      /\ text[2] = v[d]
      /\ \A k \in 3 .. Len(text) : text[k] = IF k - 2 < d THEN v[k - 2] ELSE v[k - 1]
  BY TextOf
<1>3. Len(v) \in Nat \ {0} /\ DOMAIN v = 1 .. Len(v)
  BY LenProperties, EmptySeq
<1> HIDE DEF v, d, text, S
<1>4. text # <<>>
  BY <1>2, <1>3
<1>5. /\ Tail(text) \in Seq(S) /\ Len(Tail(text)) = Len(v)
      /\ \A k \in 1 .. Len(v) : Tail(text)[k] = text[k + 1]
  <2>1. /\ Tail(text) \in Seq(S) /\ Len(Tail(text)) = Len(text) - 1
        /\ \A k \in 1 .. Len(Tail(text)) : Tail(text)[k] = text[k + 1]
    BY <1>2, <1>4, HeadTailProperties
  <2> QED BY <1>2, <1>3, <2>1
<1>6. DOMAIN Tail(text) = 1 .. Len(v)
  BY <1>5, LenProperties
<1>7. ASSUME NEW k \in 1 .. Len(v) PROVE text[k + 1] \in Strings(v)
  <2>1. CASE k = 1
    BY <1>1, <1>2, <1>3, <2>1 DEF Strings
  <2>2. CASE k # 1
    <3>1. k + 1 \in 3 .. Len(text) /\ (k + 1) - 2 = k - 1 /\ (k + 1) - 1 = k /\ k - 1 \in 1 .. Len(v)
      BY <1>2, <1>3, <2>2
    <3>2. text[k + 1] = IF k - 1 < d THEN v[k - 1] ELSE v[k]
      BY <1>2, <3>1
    <3> QED BY <1>3, <3>1, <3>2 DEF Strings
  <2> QED BY <2>1, <2>2
<1>8. ASSUME NEW i \in 1 .. Len(v) PROVE \E k \in 1 .. Len(v) : text[k + 1] = v[i]
  <2>1. CASE i = d
    <3>1. 1 \in 1 .. Len(v) /\ 1 + 1 = 2
      BY <1>3
    <3> QED BY <1>2, <2>1, <3>1
  <2>2. CASE i < d
    <3>1. i + 2 \in 3 .. Len(text) /\ (i + 2) - 2 = i /\ i + 1 \in 1 .. Len(v) /\ (i + 1) + 1 = i + 2
      BY <1>1, <1>2, <1>3, <2>2
    <3>2. text[i + 2] = v[i]
      BY <1>2, <2>2, <3>1
    <3> QED BY <3>1, <3>2
  <2>3. CASE i > d
    <3>1. i + 1 \in 3 .. Len(text) /\ (i + 1) - 1 = i /\ ~ (i + 1) - 2 < d
      BY <1>1, <1>2, <1>3, <2>3
    <3>2. text[i + 1] = v[i]
      BY <1>2, <3>1
    <3> QED BY <3>2
  <2> QED BY <1>1, <1>3, <2>1, <2>2, <2>3
<1>9. Strings(Tail(text)) = Strings(v)
  <2>1. Strings(Tail(text)) = {text[k + 1] : k \in 1 .. Len(v)}
    BY <1>5, <1>6 DEF Strings
  <2>2. Strings(v) = {v[k] : k \in 1 .. Len(v)}
    BY <1>3 DEF Strings
  <2>3. Strings(Tail(text)) \subseteq Strings(v)
    BY <1>7, <2>1
  <2>4. Strings(v) \subseteq Strings(Tail(text))
    <3>1. ASSUME NEW i \in 1 .. Len(v) PROVE v[i] \in Strings(Tail(text))
      <4>1. PICK k \in 1 .. Len(v) : text[k + 1] = v[i]
        BY <1>8
      <4>2. text[k + 1] \in {text[m + 1] : m \in 1 .. Len(v)}
        OBVIOUS
      <4> QED BY <2>1, <4>1, <4>2
    <3> QED BY <2>2, <3>1
  <2> QED BY <2>3, <2>4
<1> QED BY <1>1, <1>2, <1>9 DEF v, d, text

\* The loop writes the texts of the options in their order, each to a buffer of
\* its size; nothing else does, and what the frontend is handed are the texts of
\* all of them.
TextInv ==
  /\ \A i \in Options : texts[i] # NoString =>
       Written(i) /\ texts[i] = Text(OptionDefs[i]) /\ sizes[i] = BufferLength(OptionDefs[i])
  /\ at \in {"returned", "version", "language", "arrays"} => next = 1
  /\ next \in Nat \ {0}
  /\ at = "build" => \A i \in Options : i < next /\ Written(i) => texts[i] # NoString
  /\ DOMAIN texts = Options /\ DOMAIN sizes = Options
  /\ handed.kind = "table" => handed.local \in {NoString, OptionDefs}
  /\ handed.kind = "variables" =>
       \A i \in Options : Written(i) =>
         handed.texts[i] # NoString /\ handed.texts[i] = Text(OptionDefs[i])

LEMMA InitTextInv == OptionsInit => TextInv
  BY DEF OptionsInit, TextInv, Nothing

LEMMA BuildTextInv ==
  ASSUME TextInv, NEW allocated, BuildText(allocated)
  PROVE  TextInv'
<1> DEFINE option == OptionDefs[next]
<1>1. next \in Options /\ next \in Nat /\ next + 1 \in Nat \ {0} /\ at = "build" /\ handed' = handed
  BY DEF BuildText, TextInv
<1>2. CASE option.desc = NoString \/ option.values = <<>>
  <2>1. next' = next + 1 /\ UNCHANGED <<at, texts, sizes>> /\ ~ Written(next)
    BY <1>1, <1>2 DEF BuildText, Written
  <2>2. \A i \in Options : i < next + 1 => i < next \/ i = next
    BY <1>1 DEF Options
  <2> QED BY <1>1, <2>1, <2>2 DEF TextInv
<1>3. CASE Written(next) /\ ~ allocated
  <2>1. at' = "error" /\ UNCHANGED <<next, texts, sizes>>
    BY <1>1, <1>3 DEF BuildText, Written
  <2> QED BY <1>1, <2>1 DEF TextInv
<1>4. CASE Written(next) /\ allocated
  <2>1. /\ texts' = [texts EXCEPT ![next] = Text(option)]
        /\ sizes' = [sizes EXCEPT ![next] = BufferLength(option)]
        /\ next' = next + 1
        /\ at' = "build"
    BY <1>1, <1>4 DEF BuildText, Written
  <2>2. Text(option) # NoString
    BY <1>1, <1>4, TextAssumption DEF Written
  <2>3. /\ texts'[next] = Text(option) /\ sizes'[next] = BufferLength(option)
        /\ \A i \in Options : i # next => texts'[i] = texts[i] /\ sizes'[i] = sizes[i]
        /\ DOMAIN texts' = Options /\ DOMAIN sizes' = Options
    BY <1>1, <2>1 DEF TextInv
  <2>4. \A i \in Options : i < next + 1 => i < next \/ i = next
    BY <1>1 DEF Options
  <2> HIDE DEF option
  <2>5. \A i \in Options : texts'[i] # NoString =>
          Written(i) /\ texts'[i] = Text(OptionDefs[i]) /\ sizes'[i] = BufferLength(OptionDefs[i])
    BY <1>4, <2>3 DEF TextInv, option
  <2>6. \A i \in Options : i < next + 1 /\ Written(i) => texts'[i] # NoString
    BY <1>1, <2>2, <2>3, <2>4 DEF TextInv
  <2> QED BY <1>1, <2>1, <2>3, <2>5, <2>6 DEF TextInv
<1> QED BY <1>2, <1>3, <1>4 DEF Written

LEMMA NextTextInv ==
  ASSUME TextInv, [libretro_set_core_options \/ OptionsNext]_optionVars
  PROVE  TextInv'
<1>1. CASE libretro_set_core_options
  BY <1>1 DEF libretro_set_core_options, TextInv
<1>2. ASSUME NEW answered \in BOOLEAN, NEW version \in 0 .. 2, Version(answered, version)
      PROVE  TextInv'
  BY <1>2 DEF Version, TextInv
<1>3. ASSUME NEW answered \in BOOLEAN, NEW language \in 0 .. RETRO_LANGUAGE_LAST,
             Language(answered, language)
      PROVE  TextInv'
  <2>1. ASSUME language < RETRO_LANGUAGE_LAST PROVE Intl(language) \in {NoString, OptionDefs}
    <3>1. language \in DOMAIN option_defs_intl
      BY <2>1 DEF option_defs_intl, RETRO_LANGUAGE_LAST
    <3> QED BY <3>1 DEF Intl, option_defs_intl
  <2>2. \E local \in {NoString, OptionDefs} : handed' = Table(local)
    BY <1>3, <2>1 DEF Language
  <2>3. handed'.kind = "table" /\ handed'.local \in {NoString, OptionDefs}
    BY <2>2 DEF Table
  <2>4. at = "language" /\ at' = "returned" /\ UNCHANGED <<next, texts, sizes>>
    BY <1>3 DEF Language
  <2> QED BY <2>3, <2>4 DEF TextInv
<1>4. ASSUME NEW variables \in BOOLEAN, NEW values_buf \in BOOLEAN,
             AllocateArrays(variables, values_buf)
      PROVE  TextInv'
  <2>1. next = 1 /\ at' \in {"build", "error"} /\ UNCHANGED <<next, texts, sizes, handed>>
    BY <1>4 DEF AllocateArrays, TextInv
  <2>2. \A i \in Options : ~ i < 1
    BY DEF Options
  <2> QED BY <2>1, <2>2 DEF TextInv
<1>5. CASE \E allocated \in BOOLEAN : BuildText(allocated)
  BY <1>5, BuildTextInv
<1>6. CASE SetVariables
  <2>1. /\ at = "build" /\ next \notin Options /\ at' = "error"
        /\ handed' = [kind |-> "variables", texts |-> texts]
        /\ UNCHANGED <<next, texts, sizes>>
    BY <1>6 DEF SetVariables
  <2>2. \A i \in Options : i < next
    <3>1. Len(OptionDefs) \in Nat
      BY OptionsAssumption
    <3> QED BY <2>1, <3>1 DEF Options, TextInv
  <2> QED BY <2>1, <2>2 DEF TextInv
<1>7. CASE CleanUp
  BY <1>7 DEF CleanUp, TextInv, Nothing
<1>8. CASE UNCHANGED optionVars
  BY <1>8 DEF optionVars, TextInv
<1> QED BY <1>1, <1>2, <1>3, <1>4, <1>5, <1>6, <1>7, <1>8 DEF OptionsNext

LEMMA TextInvSuffices == TextInv => OptionsComplete
<1> SUFFICES ASSUME TextInv PROVE OptionsComplete
  OBVIOUS
<1>1. ASSUME NEW i \in Options, Written(i), handed.kind = "variables"
      PROVE  LET option == OptionDefs[i]
                 text   == handed.texts[i]
             IN  /\ text # NoString
                 /\ text[1] = option.desc
                 /\ option.default_value \in Strings(option.values) => text[2] = option.default_value
                 /\ Len(text) = Len(option.values) + 1
                 /\ Strings(Tail(text)) = Strings(option.values)
  <2>1. handed.texts[i] # NoString /\ handed.texts[i] = Text(OptionDefs[i])
    BY <1>1 DEF TextInv
  <2>2. /\ OptionDefs[i].desc \in DOMAIN Length
        /\ OptionDefs[i].values \in Seq(DOMAIN Length)
        /\ OptionDefs[i].values # <<>>
    BY <1>1, WrittenOption
  <2>3. LET text == Text(OptionDefs[i]) IN
          /\ text[1] = OptionDefs[i].desc
          /\ OptionDefs[i].default_value \in Strings(OptionDefs[i].values) =>
               text[2] = OptionDefs[i].default_value
          /\ Len(text) = Len(OptionDefs[i].values) + 1
          /\ Strings(Tail(text)) = Strings(OptionDefs[i].values)
    BY <2>2, Complete
  <2> QED BY <2>1, <2>3
<1>2. handed.kind = "table" => handed.local \in {NoString, OptionDefs}
  BY DEF TextInv
<1> QED BY <1>1, <1>2 DEF OptionsComplete, Written

\* A frontend is handed all its options or none of them, each with its
\* description, its default value first and every value, and no translation but
\* one of the array: for every table of options and every answer it gives.
THEOREM AllOptionsHanded == OptionsSpec => []OptionsComplete
  BY InitTextInv, NextTextInv, TextInvSuffices, PTL DEF OptionsSpec

-----------------------------------------------------------------------------
(* Lengths.                                                                *)

\* The sums Characters and BufferLength compute, string by string from b on.
Sums(b, s) ==
  LET sum[i \in 0 .. Len(s)] == IF i = 0 THEN b ELSE sum[i - 1] + Length[s[i]]
  IN  sum

\* f is such a sum of the first n strings.
SumsUpTo(f, n, b, s) ==
  /\ f \in [0 .. n -> Int]
  /\ f[0] = b
  /\ \A i \in 1 .. n : f[i] = f[i - 1] + Length[s[i]]

LEMMA LengthIsNat ==
  ASSUME NEW s \in Seq(DOMAIN Length), NEW i \in 1 .. Len(s)
  PROVE  Length[s[i]] \in Nat
<1>1. s[i] \in DOMAIN Length
  BY ElementOfSeq
<1> QED BY <1>1, OptionsAssumption

\* There is a sum of every number of strings.
LEMMA SumsExist ==
  ASSUME NEW b \in Int, NEW s \in Seq(DOMAIN Length)
  PROVE  \E f : SumsUpTo(f, Len(s), b, s)
<1> DEFINE T == {n \in Nat : n <= Len(s) => \E f : SumsUpTo(f, n, b, s)}
<1>1. Len(s) \in Nat
  BY LenProperties
<1>2. 0 \in T
  <2>1. SumsUpTo([i \in 0 .. 0 |-> b], 0, b, s)
    BY DEF SumsUpTo
  <2> QED BY <2>1
<1>3. ASSUME NEW n \in Nat, n \in T PROVE n + 1 \in T
  <2> SUFFICES ASSUME n + 1 <= Len(s) PROVE \E f : SumsUpTo(f, n + 1, b, s)
    OBVIOUS
  <2>1. PICK f : SumsUpTo(f, n, b, s)
    BY <1>1, <1>3
  <2> DEFINE g == [i \in 0 .. n + 1 |-> IF i = n + 1 THEN f[n] + Length[s[n + 1]] ELSE f[i]]
  <2>2. Length[s[n + 1]] \in Nat
    BY <1>1, LengthIsNat
  <2>3. f \in [0 .. n -> Int] /\ f[0] = b /\ \A i \in 1 .. n : f[i] = f[i - 1] + Length[s[i]]
    BY <2>1 DEF SumsUpTo
  <2>4. g \in [0 .. n + 1 -> Int]
    <3>1. ASSUME NEW i \in 0 .. n + 1
          PROVE  (IF i = n + 1 THEN f[n] + Length[s[n + 1]] ELSE f[i]) \in Int
      BY <2>2, <2>3
    <3> QED BY <3>1
  <2>5. g[0] = b
    BY <2>3
  <2>6. ASSUME NEW i \in 1 .. n + 1 PROVE g[i] = g[i - 1] + Length[s[i]]
    <3>1. i - 1 \in 0 .. n /\ g[i - 1] = f[i - 1]
      OBVIOUS
    <3>2. CASE i = n + 1
      BY <3>1, <3>2
    <3>3. CASE i # n + 1
      <4>1. i \in 1 .. n /\ g[i] = f[i]
        BY <3>3
      <4> HIDE DEF g
      <4> QED BY <2>3, <3>1, <4>1
    <3> QED BY <3>2, <3>3
  <2> HIDE DEF g
  <2>7. SumsUpTo(g, n + 1, b, s)
    BY <2>4, <2>5, <2>6 DEF SumsUpTo
  <2> QED BY <2>7
<1>4. Nat \subseteq T
  <2> HIDE DEF T
  <2> QED BY <1>2, <1>3, NumberByNumber
<1> QED BY <1>1, <1>4

\* The recursive function is such a sum.
LEMMA SumsAre ==
  ASSUME NEW b \in Int, NEW s \in Seq(DOMAIN Length)
  PROVE  SumsUpTo(Sums(b, s), Len(s), b, s)
<1> DEFINE g == Sums(b, s)
<1>1. Len(s) \in Nat
  BY LenProperties
<1>2. PICK f : SumsUpTo(f, Len(s), b, s)
  BY SumsExist
<1>3. f = [i \in 0 .. Len(s) |-> IF i = 0 THEN b ELSE f[i - 1] + Length[s[i]]]
  <2>1. f \in [0 .. Len(s) -> Int]
    BY <1>2 DEF SumsUpTo
  <2>2. \A i \in 0 .. Len(s) : f[i] = IF i = 0 THEN b ELSE f[i - 1] + Length[s[i]]
    BY <1>1, <1>2 DEF SumsUpTo
  <2> QED BY <2>1, <2>2
<1>4. g = [i \in 0 .. Len(s) |-> IF i = 0 THEN b ELSE g[i - 1] + Length[s[i]]]
  BY <1>3 DEF Sums
<1> HIDE DEF g
<1>5. g[0] = b /\ \A i \in 1 .. Len(s) : g[i] = g[i - 1] + Length[s[i]]
  BY <1>1, <1>4
<1> DEFINE T == {n \in Nat : n <= Len(s) => g[n] \in Int}
<1>6. 0 \in T
  BY <1>5
<1>7. ASSUME NEW n \in Nat, n \in T PROVE n + 1 \in T
  <2> SUFFICES ASSUME n + 1 <= Len(s) PROVE g[n + 1] \in Int
    OBVIOUS
  <2>1. g[n + 1] = g[n] + Length[s[n + 1]] /\ Length[s[n + 1]] \in Nat
    BY <1>1, <1>5, LengthIsNat
  <2> QED BY <1>1, <1>7, <2>1
<1>8. Nat \subseteq T
  <2> HIDE DEF T
  <2> QED BY <1>6, <1>7, NumberByNumber
<1>9. g \in [0 .. Len(s) -> Int]
  <2>1. \A i \in 0 .. Len(s) : g[i] \in Int
    BY <1>8
  <2> QED BY <1>4, <2>1
<1> QED BY <1>5, <1>9 DEF SumsUpTo, g

\* However the default value is moved to the front, the text is as long as the
\* buffer that is counted over the values in their order.
LEMMA TextIsItsBuffer ==
  ASSUME NEW option, option.desc \in DOMAIN Length,
         option.values \in Seq(DOMAIN Length), option.values # <<>>
  PROVE  Characters(Text(option)) = BufferLength(option) /\ BufferLength(option) \in Int
<1> DEFINE v == option.values
           d == DefaultIndex(option)
           text == Text(option)
           S == DOMAIN Length
           T == Sums(0, text)
           V == Sums(3, v)
<1>1. d \in 1 .. Len(v) /\ Len(v) \in Nat
  BY DefaultIsThere, LenProperties
<1>2. /\ text \in Seq(S)
      /\ Len(text) = Len(v) + 1
      /\ text[1] = option.desc
      /\ text[2] = v[d]
      /\ \A k \in 3 .. Len(text) : text[k] = IF k - 2 < d THEN v[k - 2] ELSE v[k - 1]
  BY TextOf
<1>3. SumsUpTo(T, Len(text), 0, text) /\ SumsUpTo(V, Len(v), 3, v)
  BY <1>2, SumsAre
<1>4. Characters(text) = T[Len(text)] + 2 + (Len(text) - 2) + 1
  BY DEF Characters, Sums
<1>5. BufferLength(option) = V[Len(v)] + (Len(v) - 1) + Length[option.desc]
  BY DEF BufferLength, Sums
<1>6. Length[option.desc] \in Nat /\ \A i \in 1 .. Len(v) : Length[v[i]] \in Nat
  BY OptionsAssumption, LengthIsNat
<1> HIDE DEF v, d, text, S, T, V
<1> DEFINE D == Length[option.desc]
           n == Len(v)
<1>7. /\ \A i \in 0 .. n + 1 : T[i] \in Int
      /\ T[0] = 0
      /\ \A i \in 1 .. n + 1 : T[i] = T[i - 1] + Length[text[i]]
  BY <1>2, <1>3 DEF SumsUpTo
<1>8. /\ \A i \in 0 .. n : V[i] \in Int
      /\ V[0] = 3
      /\ \A i \in 1 .. n : V[i] = V[i - 1] + Length[v[i]]
  BY <1>3 DEF SumsUpTo
<1> DEFINE P(j) == T[IF j < d THEN j + 2 ELSE j + 1]
                    = D + V[j] - 3 + (IF j < d THEN Length[v[d]] ELSE 0)
           J == {j \in Nat : j <= n => P(j)}
<1>9. n \in Nat \ {0} /\ D \in Nat /\ Length[v[d]] \in Nat
  BY <1>1, <1>6
<1> HIDE DEF D, n
<1>10. 0 \in J
  <2>1. 1 \in 1 .. n + 1 /\ 2 \in 1 .. n + 1 /\ 1 - 1 = 0 /\ 2 - 1 = 1 /\ 0 < d
    BY <1>1, <1>9
  <2>2. T[1] = 0 + D /\ T[2] = T[1] + Length[v[d]]
    BY <1>2, <1>7, <2>1 DEF D
  <2> QED BY <1>8, <1>9, <2>1, <2>2
<1>11. ASSUME NEW j \in Nat, j \in J PROVE j + 1 \in J
  <2> SUFFICES ASSUME j + 1 <= n PROVE P(j + 1)
    OBVIOUS
  <2>1. P(j) /\ j + 1 \in 1 .. n /\ (j + 1) - 1 = j
    BY <1>9, <1>11
  <2>2. V[j + 1] = V[j] + Length[v[j + 1]] /\ V[j] \in Int /\ Length[v[j + 1]] \in Nat
    BY <1>6, <1>8, <1>9, <2>1 DEF n
  <2>3. CASE j + 1 < d
    <3>1. (j + 1) + 2 \in 3 .. n + 1 /\ ((j + 1) + 2) - 1 = j + 2 /\ ((j + 1) + 2) - 2 = j + 1
      BY <1>1, <1>9, <2>3 DEF n
    <3>2. text[(j + 1) + 2] = v[j + 1]
      BY <1>2, <2>3, <3>1 DEF n
    <3>3. T[(j + 1) + 2] = T[j + 2] + Length[v[j + 1]]
      BY <1>7, <1>9, <3>1, <3>2
    <3>4. T[j + 2] = D + V[j] - 3 + Length[v[d]]
      BY <1>1, <2>1, <2>3
    <3> QED BY <1>9, <2>2, <2>3, <3>3, <3>4
  <2>4. CASE j + 1 = d
    <3>1. T[j + 2] = D + V[j] - 3 + Length[v[d]]
      BY <1>1, <2>1, <2>4
    <3>2. (j + 1) + 1 = j + 2 /\ ~ j + 1 < d
      BY <1>1, <2>4
    <3> QED BY <1>9, <2>2, <2>4, <3>1, <3>2
  <2>5. CASE j + 1 > d
    <3>1. (j + 1) + 1 \in 3 .. n + 1 /\ ((j + 1) + 1) - 1 = j + 1 /\ ~ ((j + 1) + 1) - 2 < d
      BY <1>1, <1>9, <2>5 DEF n
    <3>2. text[(j + 1) + 1] = v[j + 1]
      BY <1>2, <3>1 DEF n
    <3>3. T[(j + 1) + 1] = T[j + 1] + Length[v[j + 1]]
      BY <1>7, <1>9, <3>1, <3>2
    <3>4. T[j + 1] = D + V[j] - 3
      BY <1>1, <1>9, <2>1, <2>2, <2>5
    <3>5. ~ j + 1 < d
      BY <1>1, <2>5
    <3> QED BY <1>9, <2>2, <3>3, <3>4, <3>5
  <2> QED BY <1>1, <2>3, <2>4, <2>5
<1>12. Nat \subseteq J
  <2> HIDE DEF J
  <2> QED BY <1>10, <1>11, NumberByNumber
<1>13. P(n) /\ ~ n < d
  BY <1>1, <1>9, <1>12 DEF n
<1>14. T[n + 1] = D + V[n] - 3
  BY <1>8, <1>9, <1>13
<1>15. Characters(text) = T[n + 1] + 2 + (n + 1 - 2) + 1
  BY <1>2, <1>4 DEF n
<1>16. BufferLength(option) = V[n] + (n - 1) + D
  BY <1>5 DEF n, D, v
<1>17. V[n] \in Int
  BY <1>8, <1>9
<1>18. Characters(text) = BufferLength(option) /\ BufferLength(option) \in Int
  BY <1>9, <1>14, <1>15, <1>16, <1>17
<1> QED BY <1>18 DEF text

\* No text is longer than the buffer it is written to, whatever the option, its
\* default value and the number of its values.
THEOREM TextsFit == OptionsSpec => []TextFits
<1>1. TextInv => TextFits
  <2> SUFFICES ASSUME TextInv, NEW i \in Options, texts[i] # NoString
               PROVE  Characters(texts[i]) <= sizes[i]
    BY DEF TextFits
  <2>1. Written(i) /\ texts[i] = Text(OptionDefs[i]) /\ sizes[i] = BufferLength(OptionDefs[i])
    BY DEF TextInv
  <2>2. /\ OptionDefs[i].desc \in DOMAIN Length
        /\ OptionDefs[i].values \in Seq(DOMAIN Length)
        /\ OptionDefs[i].values # <<>>
    BY <2>1, WrittenOption
  <2>3. Characters(texts[i]) = sizes[i] /\ sizes[i] \in Int
    BY <2>1, <2>2, TextIsItsBuffer
  <2> QED BY <2>3
<1> QED BY <1>1, InitTextInv, NextTextInv, PTL DEF OptionsSpec

-----------------------------------------------------------------------------
(* The core.                                                               *)

\* Outside retro_set_environment, a frontend that has set its environment has
\* got a log callback with it.
CallbackInv ==
  /\ ~ null_called
  /\ log_cb \in {"unset", "frontend", "fallback"}
  /\ phase # "unloaded" => environ_cb /\ ~ setting
  /\ environ_cb /\ ~ setting => CanLog

-----------------------------------------------------------------------------
\* Every step of the core is a step of Lifecycle or leaves the machines alone.
LEMMA CoreStep == [CoreNext]_coreVars => [Next]_vars
<1> SUFFICES ASSUME [CoreNext]_coreVars PROVE [Next]_vars
  OBVIOUS
<1>1. CASE retro_set_environment
  BY <1>1 DEF retro_set_environment
<1>2. CASE SetOptions
  BY <1>2 DEF SetOptions
<1>3. ASSUME NEW logs \in BOOLEAN, SetLog(logs) PROVE UNCHANGED vars
  BY <1>3 DEF SetLog
<1>4. CASE SetCallbacks
  BY <1>4 DEF SetCallbacks
<1>5. CASE retro_set_controller_port_device
  BY <1>5 DEF retro_set_controller_port_device, CallsBack
<1>6. CASE Enter
  BY <1>6 DEF Enter, CallsBack, Next, Frontend
<1>7. CASE Unload
  BY <1>7 DEF Unload, Next, Frontend
<1>8. CASE LoadOn
  BY <1>8 DEF LoadOn, CallsBack, Next
<1>9. CASE ShutdownOn
  BY <1>9 DEF ShutdownOn, CallsBack, Next
<1>10. CASE UNCHANGED coreVars
  BY <1>10 DEF coreVars
<1> QED BY <1>1, <1>2, <1>3, <1>4, <1>5, <1>6, <1>7, <1>8, <1>9, <1>10 DEF CoreNext

\* The core with its callbacks and options implements Lifecycle.
THEOREM CoreImplementsLifecycle == CoreSpec => Init /\ [][Next]_vars
<1>1. CoreInit => Init
  BY DEF CoreInit
<1> QED BY <1>1, CoreStep, PTL DEF CoreSpec

\* The machines are as safe in the whole core as they are in Lifecycle.
THEOREM CoreIsSafe == CoreSpec => [](NoUseAfterFree /\ GuestMemoryLive /\ NothingLeaked)
<1>1. Inv => NoUseAfterFree /\ GuestMemoryLive /\ NothingLeaked
  BY DEF Inv, NoUseAfterFree, GuestMemoryLive, NothingLeaked, Sound
<1> QED BY <1>1, CoreImplementsLifecycle, InitInv, NextInv, PTL

\* In the whole core, too, a game that is loaded runs from a region that its
\* BIOS fills, whatever options and callbacks the frontend sets in between.
THEOREM CoreIsMirrored == CoreSpec => []LoadedMirrored
<1>1. Init => Inv /\ MirrorInv
  BY InitInv, InitMirrorInv
<1>2. Inv /\ MirrorInv /\ [Next]_vars => (Inv /\ MirrorInv)'
  BY NextInv, NextMirrorInv
<1> QED BY <1>1, <1>2, MirrorInvSuffices, CoreImplementsLifecycle, PTL

-----------------------------------------------------------------------------
LEMMA CallbackStep ==
  ASSUME Inv, CallbackInv, [CoreNext]_coreVars
  PROVE  CallbackInv'
<1> USE DEF CallbackInv, CanLog
<1>1. CASE retro_set_environment
  BY <1>1 DEF retro_set_environment, vars
<1>2. CASE SetOptions
  BY <1>2 DEF SetOptions, vars, callbackVars
<1>3. ASSUME NEW logs \in BOOLEAN, SetLog(logs) PROVE CallbackInv'
  BY <1>3 DEF SetLog, vars
<1>4. CASE SetCallbacks
  BY <1>4 DEF SetCallbacks, vars
<1>5. CASE retro_set_controller_port_device
  BY <1>5 DEF retro_set_controller_port_device, CallsBack, vars
<1>6. CASE Enter
  <2>1. ~ setting /\ UNCHANGED <<environ_cb, setting, log_cb>>
    BY <1>6 DEF Enter, Outside, CallsBack
  <2>2. phase' # "unloaded" /\ environ_cb /\ null_called' = FALSE => CallbackInv'
    BY <2>1
  <2>3. CASE phase = "unloaded" /\ environ_cb /\ CallsBack(retro_init, environ_cb)
    BY <2>2, <2>3 DEF CallsBack, retro_init
  <2>4. CASE CallsBack(NoPlatform, CanLog)
    BY <2>1, <2>2, <2>4 DEF CallsBack, NoPlatform
  <2>5. ASSUME NEW stage \in InitOutcomes, NEW allocated \in BOOLEAN,
               NEW size \in BiosSizes \cup {Unset},
               CallsBack(retro_load_game(stage, allocated, size), CanLog)
        PROVE  CallbackInv'
    <3>1. phase = "initialised" /\ phase' \in {"failed", "initialised"}
      BY <2>5 DEF CallsBack, retro_load_game, StartBootRoms
    <3> QED BY <2>1, <2>2, <2>5, <3>1 DEF CallsBack
  <2>6. CASE others /\ CallsBack(retro_run, others /\ CanLog)
    BY <2>1, <2>2, <2>6 DEF CallsBack, retro_run
  <2>7. CASE CallsBack(retro_unload_game, TRUE) \/ CallsBack(retro_deinit, TRUE)
    BY <2>1, <2>2, <2>7 DEF CallsBack, retro_unload_game, retro_deinit
  <2> QED BY <1>6, <2>3, <2>4, <2>5, <2>6, <2>7 DEF Enter
<1>7. CASE Unload
  BY <1>7 DEF Unload, UnloadLibrary, Outside
<1>8. CASE LoadOn
  <2>1. phase = "initialised"
    BY <1>8 DEF LoadOn, CallsBack, Load, MirrorStep, FinishLoad, Idle, Inv
  <2>2. phase' # "unloaded"
    BY <1>8, <2>1 DEF LoadOn, CallsBack, Load, MirrorStep, FinishLoad
  <2> QED BY <1>8, <2>1, <2>2 DEF LoadOn, CallsBack
<1>9. CASE ShutdownOn
  <2>1. phase \in Closing /\ phase' \in Closing \cup {"deinitialised"}
    BY <1>9 DEF ShutdownOn, CallsBack, Shutdown, Frees, Closing
  <2> QED BY <1>9, <2>1 DEF ShutdownOn, CallsBack, Closing
<1>10. CASE UNCHANGED coreVars
  BY <1>10 DEF coreVars, vars, callbackVars
<1> QED BY <1>1, <1>2, <1>3, <1>4, <1>5, <1>6, <1>7, <1>8, <1>9, <1>10 DEF CoreNext

\* A frontend that sets its environment first is never called back through a
\* null pointer, whether or not it has a log interface.
THEOREM NoNullIsCalled == CoreSpec => []NoNullCall
<1>1. CoreInit => CallbackInv
  BY DEF CoreInit, Init, CallbackInv, CanLog
<1>2. CoreInit => Inv
  BY InitInv DEF CoreInit
<1>3. Inv /\ [CoreNext]_coreVars => Inv'
  BY CoreStep, NextInv
<1>4. CallbackInv => NoNullCall
  BY DEF CallbackInv, NoNullCall
<1> QED BY <1>1, <1>2, <1>3, <1>4, CallbackStep, PTL DEF CoreSpec

\* Every step of the core is a step of its options or leaves them alone.
LEMMA CoreOptionsStep ==
  [CoreNext]_coreVars => [libretro_set_core_options \/ OptionsNext]_optionVars
<1> SUFFICES ASSUME [CoreNext]_coreVars
             PROVE  [libretro_set_core_options \/ OptionsNext]_optionVars
  OBVIOUS
<1>1. CASE retro_set_environment
  BY <1>1 DEF retro_set_environment
<1>2. CASE SetOptions
  BY <1>2 DEF SetOptions
<1>3. ASSUME NEW logs \in BOOLEAN, SetLog(logs) PROVE UNCHANGED optionVars
  BY <1>3 DEF SetLog
<1>4. CASE SetCallbacks
  BY <1>4 DEF SetCallbacks
<1>5. CASE retro_set_controller_port_device \/ Enter \/ LoadOn \/ ShutdownOn
  BY <1>5 DEF retro_set_controller_port_device, Enter, LoadOn, ShutdownOn, CallsBack
<1>6. CASE Unload
  BY <1>6 DEF Unload
<1>7. CASE UNCHANGED coreVars
  BY <1>7 DEF coreVars
<1> QED BY <1>1, <1>2, <1>3, <1>4, <1>5, <1>6, <1>7 DEF CoreNext

\* The core implements CoreOptions: whatever else it does in between, it touches
\* the options in libretro_set_core_options only.
THEOREM CoreImplementsOptions == CoreSpec => OptionsSpec
<1>1. CoreInit => OptionsInit
  BY DEF CoreInit
<1> QED BY <1>1, CoreOptionsStep, PTL DEF CoreSpec, OptionsSpec

\* The memory the options take is free again whenever the core is outside
\* libretro_set_core_options, however often the environment is set.
THEOREM CoreGivesBack == CoreSpec => []NothingKept
BY CoreImplementsOptions, AllIsGivenBack

\* The frontend is handed all options, and no text is longer than its buffer, as
\* often as it sets the environment.
THEOREM CoreHandsAll == CoreSpec => [](OptionsComplete /\ TextFits)
BY CoreImplementsOptions, AllOptionsHanded, TextsFit, PTL
=============================================================================
