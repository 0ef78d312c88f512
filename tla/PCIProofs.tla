------------------------------ MODULE PCIProofs ------------------------------
(***************************************************************************)
(* Configuration space under a driver and the handler that loses its       *)
(* addresses: for every set of functions and every program of the two.     *)
(***************************************************************************)
EXTENDS PCIGuests, TLAPS

Kept(f, r) == WriteMask[f][r] \cup Write1ToClearMask[f][r]

Shaped == config = [f \in Functions |-> [r \in Registers |-> config[f][r]]]

Inv == Shaped /\ IdentityKept

-----------------------------------------------------------------------------
\* A write of a byte keeps the bits outside the masks.
LEMMA MaskedWrite ==
  ASSUME NEW f \in Functions, NEW r \in Registers, NEW old, NEW new
  PROVE  ByteWritten(f, r, old, new) \ Kept(f, r) = old \ Kept(f, r)
BY DEF ByteWritten, Kept

\* So does WriteConfig, at any register and for any value.
LEMMA WriteKeeps ==
  ASSUME Inv, NEW g \in Functions, NEW reg, NEW value, WriteConfig(g, reg, value)
  PROVE  Inv'
<1> DEFINE byte(r) == IF Covers(<<reg, value>>, r)
                      THEN ByteWritten(g, r, config[g][r], value[(r - reg) + 1])
                      ELSE config[g][r]
           space == [r \in Registers |-> byte(r)]
<1>1. config' = [config EXCEPT ![g] = space]
  BY DEF WriteConfig
<1> HIDE DEF byte
<1>2. ASSUME NEW f \in Functions
      PROVE  config'[f] = IF f = g THEN space ELSE config[f]
  BY <1>1 DEF Inv, Shaped
<1>3. \A f \in Functions, r \in Registers :
        config'[f][r] = IF f = g THEN byte(r) ELSE config[f][r]
  BY <1>2
<1>4. Shaped'
  <2>1. config' = [f \in Functions |-> IF f = g THEN space ELSE config[f]]
    BY <1>1 DEF Inv, Shaped
  <2>2. \A f \in Functions : config[f] = [r \in Registers |-> config[f][r]]
    BY DEF Inv, Shaped
  <2>3. \A f \in Functions : config'[f] = [r \in Registers |-> config'[f][r]]
    BY <1>2, <2>2
  <2> QED BY <2>1, <2>3 DEF Shaped
<1>5. ASSUME NEW f \in Functions, NEW r \in Registers
      PROVE  config'[f][r] \ Kept(f, r) = PowerOn[f][r] \ Kept(f, r)
  <2>1. config[f][r] \ Kept(f, r) = PowerOn[f][r] \ Kept(f, r)
    BY DEF Inv, IdentityKept, Kept
  <2>2. byte(r) \ Kept(g, r) = config[g][r] \ Kept(g, r)
    BY MaskedWrite DEF byte
  <2> QED BY <1>3, <2>1, <2>2
<1>6. IdentityKept'
  BY <1>5 DEF IdentityKept, Kept
<1> QED BY <1>4, <1>6 DEF Inv

\* A write to port 0xCFC keeps it wherever the address points.
LEMMA DataWriteKeeps ==
  ASSUME Inv, NEW value, NEW offset, IOWriteConfigData(value, offset)
  PROVE  Inv'
<1> DEFINE reg == (configAddress.register - (configAddress.register % 4)) + offset
<1>1. CASE Found = {}
  BY <1>1 DEF IOWriteConfigData, Inv, Shaped, IdentityKept
<1>2. CASE Found # {}
  <2>1. PICK g \in Functions : WriteConfig(g, reg, value)
    BY <1>2 DEF IOWriteConfigData, Found
  <2> HIDE DEF reg
  <2> QED BY <2>1, WriteKeeps
<1> QED BY <1>1, <1>2

LEMMA InvariantHolds == Spec => []Inv
<1>1. Init => Inv
  <2> SUFFICES ASSUME Init PROVE Inv
    OBVIOUS
  <2>1. config = PowerOn
    BY DEF Init, PCIInit
  <2>2. PowerOn = [f \in Functions |-> [r \in Registers |-> PowerOn[f][r]]]
    BY DEF PowerOn
  <2> QED BY <2>1, <2>2 DEF Inv, Shaped, IdentityKept
<1>2. Inv /\ [Next]_vars => Inv'
  <2> SUFFICES ASSUME Inv, [Next]_vars PROVE Inv'
    OBVIOUS
  <2>1. CASE DriverWrites
    BY <2>1, DataWriteKeeps DEF DriverWrites
  <2>2. CASE HandlerWrites
    BY <2>2, DataWriteKeeps DEF HandlerWrites
  <2>3. ASSUME UNCHANGED config PROVE Inv'
    BY <2>3 DEF Inv, Shaped, IdentityKept
  <2>4. CASE DriverSelects \/ DriverReads
    BY <2>3, <2>4 DEF DriverSelects, DriverReads, WriteAddress, IOWriteConfigAddress
  <2>5. CASE Interrupt \/ HandlerSelects \/ HandlerRestores
    BY <2>3, <2>5 DEF Interrupt, HandlerSelects, HandlerRestores, WriteAddress,
                      IOWriteConfigAddress
  <2>6. CASE UNCHANGED vars
    BY <2>3, <2>6 DEF vars
  <2> QED BY <2>1, <2>2, <2>4, <2>5, <2>6 DEF Next, Driver, Handler
<1> QED BY <1>1, <1>2, PTL DEF Spec

\* Nothing any program of the guest does changes what identifies a function,
\* whatever the address register holds when it writes.
THEOREM IdentityIsKept == Spec => []IdentityKept
<1>1. Inv => IdentityKept
  BY DEF Inv
<1> QED BY <1>1, InvariantHolds, PTL

-----------------------------------------------------------------------------
(* Where the accesses go.                                                  *)

Zeroed == [location |-> <<0, 0, 0>>, register |-> 0]

\* Between its selection and its access the driver finds its address or the one
\* a handler has put back; the handler finds its own.
AddressInv ==
  /\ saved = Zeroed
  /\ done \in 0 .. Len(Requests)
  /\ handler = "out" /\ done < Len(Requests) /\ pc \in {"write", "read"} =>
       configAddress \in {Address(Request), Zeroed}
  /\ handler = "write" => configAddress = Address(HandlerRequest)

LEMMA AddressInvariant == Spec => []AddressInv
<1>1. Init => AddressInv
  BY GuestsAssumption DEF Init, AddressInv, IOReadConfigAddress, Zeroed
<1>2. AddressInv /\ [Next]_vars => AddressInv'
  <2> SUFFICES ASSUME AddressInv, [Next]_vars PROVE AddressInv'
    OBVIOUS
  <2> USE DEF AddressInv
  <2>1. CASE DriverSelects
    BY <2>1 DEF DriverSelects, Working, WriteAddress, IOWriteConfigAddress, Address, Request
  <2>2. CASE DriverWrites
    BY <2>2 DEF DriverWrites, Working, IOWriteConfigData
  <2>3. CASE DriverReads
    BY <2>3, GuestsAssumption DEF DriverReads, Working
  <2>4. CASE Interrupt
    BY <2>4 DEF Interrupt, IOReadConfigAddress, Zeroed
  <2>5. CASE HandlerSelects
    BY <2>5 DEF HandlerSelects, WriteAddress, IOWriteConfigAddress, Address
  <2>6. CASE HandlerWrites
    BY <2>6 DEF HandlerWrites, IOWriteConfigData
  <2>7. CASE HandlerRestores
    BY <2>7 DEF HandlerRestores, WriteAddress, IOWriteConfigAddress, Zeroed
  <2>8. CASE UNCHANGED vars
    BY <2>8 DEF vars, Request
  <2> QED BY <2>1, <2>2, <2>3, <2>4, <2>5, <2>6, <2>7, <2>8 DEF Next, Driver, Handler
<1> QED BY <1>1, <1>2, PTL DEF Spec

\* No two functions are at one place.
LEMMA OnePlaceEach ==
  ASSUME NEW f \in DOMAIN Identity, NEW g \in DOMAIN Identity,
         Identity[f].location = Identity[g].location
  PROVE  f = g
BY DEF Identity, Description

\* No bit of the double word that holds the host bridge's identification can be
\* written.
LEMMA IdentityIsMasked ==
  ASSUME "HostBridge" \in Functions, NEW r \in 0 .. 3
  PROVE  WriteMask["HostBridge"][r] = {} /\ Write1ToClearMask["HostBridge"][r] = {}
<1>1. r \in Registers
  BY DEF Registers
<1>2. {bar \in Bars["HostBridge"] : Covers(BarMask(bar), r)} = {}
  BY DEF Bars, Covers, BarMask, BarAt, PCI_BASE_ADDRESS_0
<1>3. "HostBridge" \notin Bridges
  BY DEF Bridges, Identity, Description, BRIDGE, MULTIFUNCTION
<1>4. WriteMask["HostBridge"][r] = {}
  <2> DEFINE writes == HeaderMask \o <<>>
  <2>1. {i \in DOMAIN writes : Covers(writes[i], r)} = {}
    <3>1. /\ DOMAIN writes = 1 .. 4
          /\ writes[1] = <<PCI_CACHE_LINE_SIZE, Ones(1)>>
          /\ writes[2] = <<PCI_INTERRUPT_LINE, Ones(1)>>
          /\ writes[3] = <<PCI_COMMAND, Word(\h507)>>
          /\ writes[4] = <<PCI_CONFIG_HEADER_SIZE, Ones(256 - PCI_CONFIG_HEADER_SIZE)>>
      BY DEF HeaderMask
    <3>2. \A i \in 1 .. 4 : writes[i][1] \in 4 .. 255
      BY <3>1 DEF PCI_CACHE_LINE_SIZE, PCI_INTERRUPT_LINE, PCI_COMMAND, PCI_CONFIG_HEADER_SIZE
    <3>3. /\ Len(Ones(1)) = 1 /\ Len(Word(\h507)) = 2
          /\ Len(Ones(256 - PCI_CONFIG_HEADER_SIZE)) = 192
      BY DEF Ones, Word, PCI_CONFIG_HEADER_SIZE
    <3>4. \A i \in 1 .. 4 : Len(writes[i][2]) \in Nat
      BY <3>1, <3>3
    <3> HIDE DEF writes
    <3>5. \A i \in 1 .. 4 : ~ Covers(writes[i], r)
      <4> TAKE i \in 1 .. 4
      <4> DEFINE start == writes[i][1]
                 size  == Len(writes[i][2])
      <4>1. start \in 4 .. 255 /\ size \in Nat
        BY <3>2, <3>4
      <4> HIDE DEF start, size
      <4>2. ~ (r - start \in 0 .. size - 1)
        BY <4>1
      <4> QED BY <4>2 DEF Covers, start, size
    <3> QED BY <3>1, <3>5
  <2>2. Written(writes, r) = {}
    BY <2>1 DEF Written
  <2> QED BY <1>1, <1>2, <1>3, <2>2 DEF WriteMask
<1>5. Write1ToClearMask["HostBridge"][r] = {}
  <2> DEFINE writes == << <<PCI_STATUS, Word(\hf900)>> >> \o <<>>
  <2>1. {i \in DOMAIN writes : Covers(writes[i], r)} = {}
    BY DEF Covers, Word, PCI_STATUS
  <2>2. Written(writes, r) = {}
    BY <2>1 DEF Written
  <2> QED BY <1>1, <1>3, <2>2 DEF Write1ToClearMask
<1> QED BY <1>4, <1>5

LEMMA IdentityReadOnly ==
  ASSUME "HostBridge" \in Functions, NEW r \in 0 .. 3, NEW old, NEW new
  PROVE  ByteWritten("HostBridge", r, old, new) = old
BY IdentityIsMasked DEF ByteWritten

-----------------------------------------------------------------------------
(* What the writes change.                                                 *)

Changed(f, r) == config'[f][r] # config[f][r]

\* A register WriteConfig changes belongs to the function and to the bytes
\* written, and the byte written there differs.
LEMMA WriteChanges ==
  ASSUME Shaped, NEW g \in Functions, NEW reg, NEW value, WriteConfig(g, reg, value),
         NEW f \in Functions, NEW r \in Registers, Changed(f, r)
  PROVE  /\ f = g
         /\ Covers(<<reg, value>>, r)
         /\ ByteWritten(g, r, config[g][r], value[(r - reg) + 1]) # config[g][r]
<1> DEFINE byte(s) == IF Covers(<<reg, value>>, s)
                      THEN ByteWritten(g, s, config[g][s], value[(s - reg) + 1])
                      ELSE config[g][s]
           space == [s \in Registers |-> byte(s)]
<1>1. config' = [config EXCEPT ![g] = space]
  BY DEF WriteConfig
<1> HIDE DEF byte
<1>2. config'[f] = IF f = g THEN space ELSE config[f]
  BY <1>1 DEF Shaped
<1>3. f = g /\ byte(r) # config[g][r]
  BY <1>2 DEF Changed
<1> QED BY <1>3 DEF byte

\* The arithmetic of a double word and an offset in it.
LEMMA Aligned ==
  ASSUME NEW n \in Nat
  PROVE  /\ n % 4 \in 0 .. 3
         /\ ((n - (n % 4)) - ((n - (n % 4)) % 4)) + (n % 4) = n
<1>1. n % 4 \in 0 .. 3
  OBVIOUS
<1>2. (n - (n % 4)) % 4 = 0
  OBVIOUS
<1> QED BY <1>1, <1>2

LEMMA FitsInWord ==
  ASSUME NEW request, Fits(request)
  PROVE  /\ request.register \in Nat
         /\ Offset(request) \in 0 .. 3
         /\ Len(request.value) \in Nat
         /\ Offset(request) + Len(request.value) <= 4
<1>1. /\ request.register \in Registers
      /\ request.value \in Seq(Byte)
      /\ (request.register % 4) + Len(request.value) <= 4
  BY DEF Fits
<1>2. request.register \in Nat
  <2>1. Registers \subseteq Nat
    BY DEF Registers
  <2> QED BY <1>1, <2>1
<1>3. Len(request.value) \in Nat
  BY <1>1
<1> QED BY <1>1, <1>2, <1>3, Aligned DEF Offset

\* Behind the address of a request is what the request is about.
LEMMA AimedPlace ==
  ASSUME NEW request, Fits(request), configAddress = Address(request)
  PROVE  /\ Found = {request.function}
         /\ (configAddress.register - (configAddress.register % 4)) + Offset(request)
              = request.register
<1>1. Found = {request.function}
  <2>1. request.function \in Found
    BY DEF Found, Address, Fits
  <2>2. ASSUME NEW g \in Found PROVE g = request.function
    BY <2>2, OnePlaceEach, FunctionsAssumption DEF Found, Address, Fits
  <2> QED BY <2>1, <2>2
<1>2. (configAddress.register - (configAddress.register % 4)) + Offset(request)
        = request.register
  BY Aligned, FitsInWord DEF Address, Offset
<1> QED BY <1>1, <1>2

\* Behind the address a handler has put back is the host bridge's identification.
LEMMA LostPlace ==
  ASSUME NEW request, Fits(request), configAddress = Zeroed
  PROVE  /\ Found = IF "HostBridge" \in Functions THEN {"HostBridge"} ELSE {}
         /\ (configAddress.register - (configAddress.register % 4)) + Offset(request)
              = Offset(request)
<1>1. Identity["HostBridge"].location = Zeroed.location
  BY DEF Identity, Description, Zeroed
<1>2. Found = IF "HostBridge" \in Functions THEN {"HostBridge"} ELSE {}
  <2>1. ASSUME NEW g \in Found PROVE g = "HostBridge"
    BY <1>1, OnePlaceEach, FunctionsAssumption DEF Found, Identity
  <2> QED BY <1>1, <2>1 DEF Found
<1>3. (configAddress.register - (configAddress.register % 4)) + Offset(request)
        = Offset(request)
  BY FitsInWord DEF Zeroed
<1> QED BY <1>2, <1>3

\* A write through the address of a request changes only what the request means
\* to change.
LEMMA AimedWrite ==
  ASSUME Shaped, NEW request, Fits(request), configAddress = Address(request),
         IOWriteConfigData(request.value, Offset(request)),
         NEW f \in Functions, NEW r \in Registers, Changed(f, r)
  PROVE  f = request.function /\ Covers(<<request.register, request.value>>, r)
<1>1. WriteConfig(request.function, request.register, request.value)
  BY AimedPlace DEF IOWriteConfigData
<1> QED BY <1>1, WriteChanges DEF Fits

\* A write through the address a handler has put back changes nothing.
LEMMA LostWrite ==
  ASSUME Shaped, NEW request, Fits(request), configAddress = Zeroed,
         IOWriteConfigData(request.value, Offset(request)),
         NEW f \in Functions, NEW r \in Registers, Changed(f, r)
  PROVE  FALSE
<1>1. CASE "HostBridge" \notin Functions
  <2>1. Found = {}
    BY <1>1, LostPlace
  <2> QED BY <2>1 DEF IOWriteConfigData, Changed
<1>2. CASE "HostBridge" \in Functions
  <2>1. WriteConfig("HostBridge", Offset(request), request.value)
    BY <1>2, LostPlace DEF IOWriteConfigData
  <2>2. /\ Covers(<<Offset(request), request.value>>, r)
        /\ ByteWritten("HostBridge", r, config["HostBridge"][r],
                       request.value[(r - Offset(request)) + 1])
             # config["HostBridge"][r]
    BY <1>2, <2>1, WriteChanges
  <2>3. r \in 0 .. 3
    <3> DEFINE o == Offset(request)
               n == Len(request.value)
    <3>1. o \in 0 .. 3 /\ n \in Nat /\ o + n <= 4
      BY FitsInWord
    <3>2. r - o \in 0 .. n - 1
      BY <2>2 DEF Covers
    <3> HIDE DEF o, n
    <3>3. r \in Nat
      BY DEF Registers
    <3> QED BY <3>1, <3>2, <3>3
  <2> QED BY <1>2, <2>2, <2>3, IdentityReadOnly
<1> QED BY <1>1, <1>2

\* What a step changes is what the program that writes means to change.
LEMMA StepAims ==
  ASSUME Inv, AddressInv, [Next]_vars, NEW f \in Functions, NEW r \in Registers, Changed(f, r)
  PROVE  <<f, r>> \in Targets
<1>1. CASE DriverWrites
  <2>1. Fits(Request) /\ handler = "out"
    BY <1>1, GuestsAssumption DEF DriverWrites, Working, AddressInv, Request
  <2>2. configAddress \in {Address(Request), Zeroed}
    BY <1>1 DEF DriverWrites, Working, AddressInv
  <2>3. f = Request.function /\ Covers(<<Request.register, Request.value>>, r)
    BY <1>1, <2>1, <2>2, AimedWrite, LostWrite DEF DriverWrites, Inv
  <2> QED BY <2>1, <2>3 DEF Targets, Aims
<1>2. CASE HandlerWrites
  <2>1. handler # "out" /\ configAddress = Address(HandlerRequest)
    BY <1>2 DEF HandlerWrites, AddressInv
  <2>2. f = HandlerRequest.function
        /\ Covers(<<HandlerRequest.register, HandlerRequest.value>>, r)
    BY <1>2, <2>1, AimedWrite, GuestsAssumption DEF HandlerWrites, Inv
  <2> QED BY <2>1, <2>2 DEF Targets, Aims
<1>3. CASE UNCHANGED config
  BY <1>3 DEF Changed
<1>4. CASE DriverSelects \/ DriverReads \/ Interrupt \/ HandlerSelects
           \/ HandlerRestores \/ UNCHANGED vars
  BY <1>3, <1>4 DEF DriverSelects, DriverReads, Interrupt, HandlerSelects,
                    HandlerRestores, WriteAddress, IOWriteConfigAddress, vars
<1> QED BY <1>1, <1>2, <1>4 DEF Next, Driver, Handler

\* A write that follows its address changes what it means to; one whose address
\* a handler has lost changes nothing.
THEOREM StrayWritesAreHarmless == Spec => StrayWritesHarmless
<1> DEFINE Harmless == \A f \in Functions, r \in Registers :
                         config'[f][r] # config[f][r] => <<f, r>> \in Targets
<1>1. Inv /\ AddressInv /\ [Next]_vars => [Harmless]_vars
  BY StepAims DEF Changed
<1> QED BY <1>1, InvariantHolds, AddressInvariant, PTL DEF Spec, StrayWritesHarmless

-----------------------------------------------------------------------------
(* What has been read back.                                                *)

\* The bytes a request is about are registers, and its aims.
LEMMA ByteOfRequest ==
  ASSUME NEW request, Fits(request), NEW k \in 1 .. Len(request.value)
  PROVE  /\ request.register + (k - 1) \in Registers
         /\ <<request.function, request.register + (k - 1)>> \in Aims(request)
<1> DEFINE n == request.register
           len == Len(request.value)
           r == n + (k - 1)
<1>1. n \in 0 .. 255 /\ len \in Nat /\ (n % 4) + len <= 4
  <2>1. Registers = 0 .. 255
    BY DEF Registers
  <2> QED BY <2>1, FitsInWord DEF Fits
<1>2. k \in 1 .. len
  OBVIOUS
<1> HIDE DEF n, len
<1>3. r \in 0 .. 255 /\ r - n \in 0 .. len - 1
  BY <1>1, <1>2
<1>4. Covers(<<n, request.value>>, r)
  BY <1>3 DEF Covers, len
<1>5. Registers = 0 .. 255
  BY DEF Registers
<1> HIDE DEF r
<1>6. <<request.function, r>> \in Aims(request)
  BY <1>3, <1>4, <1>5 DEF Aims, n
<1> QED BY <1>3, <1>5, <1>6 DEF r, n

\* The driver reads its own registers or the host bridge's identification, which
\* nothing has changed.
LEMMA ReadsOwnOrLost ==
  ASSUME Inv, NEW request, Fits(request), configAddress \in {Address(request), Zeroed}
  PROVE  IOReadConfigData(Len(request.value), Offset(request))
           \in {ReadConfig(request.function, request.register, Len(request.value)),
                LostRead(request)}
<1>1. CASE configAddress = Address(request)
  BY <1>1, AimedPlace DEF IOReadConfigData
<1>2. CASE configAddress = Zeroed /\ "HostBridge" \notin Functions
  BY <1>2, LostPlace DEF IOReadConfigData, LostRead, Ones
<1>3. CASE configAddress = Zeroed /\ "HostBridge" \in Functions
  <2>1. IOReadConfigData(Len(request.value), Offset(request))
          = ReadConfig("HostBridge", Offset(request), Len(request.value))
    BY <1>3, LostPlace DEF IOReadConfigData
  <2>2. ASSUME NEW k \in 1 .. Len(request.value)
        PROVE  config["HostBridge"][Offset(request) + (k - 1)]
                 = PowerOn["HostBridge"][Offset(request) + (k - 1)]
    <3> DEFINE r == Offset(request) + (k - 1)
    <3>1. r \in 0 .. 3 /\ r \in Registers
      BY FitsInWord DEF Registers
    <3> HIDE DEF r
    <3>2. WriteMask["HostBridge"][r] = {} /\ Write1ToClearMask["HostBridge"][r] = {}
      BY <1>3, <3>1, IdentityIsMasked
    <3>3. config["HostBridge"][r] \ Kept("HostBridge", r)
            = PowerOn["HostBridge"][r] \ Kept("HostBridge", r)
      BY <1>3, <3>1 DEF Inv, IdentityKept, Kept
    <3>4. Kept("HostBridge", r) = {}
      BY <3>2 DEF Kept
    <3> QED BY <3>3, <3>4 DEF r
  <2> QED BY <1>3, <2>1, <2>2 DEF ReadConfig, LostRead
<1> QED BY <1>1, <1>2, <1>3

\* What a completed request is about stays as it is while the driver and the
\* handler write what they mean to.
LEMMA CompletedStaysHeld ==
  ASSUME Distinguishable, Inv, AddressInv, [Next]_vars, NEW i \in 1 .. done,
         ReadConfig(Requests[i].function, Requests[i].register, Len(Requests[i].value))
           = Requests[i].value
  PROVE  ReadConfig(Requests[i].function, Requests[i].register, Len(Requests[i].value))'
           = Requests[i].value
<1> DEFINE q == Requests[i]
<1>1. i \in 1 .. Len(Requests) /\ Fits(q)
  BY GuestsAssumption DEF AddressInv
<1>2. ASSUME NEW k \in 1 .. Len(q.value)
      PROVE  config'[q.function][q.register + (k - 1)] = config[q.function][q.register + (k - 1)]
  <2> DEFINE r == q.register + (k - 1)
  <2>1. r \in Registers /\ <<q.function, r>> \in Aims(q) /\ q.function \in Functions
    BY <1>1, ByteOfRequest DEF Fits
  <2> HIDE DEF r, q
  <2>2. ASSUME Changed(q.function, r) PROVE FALSE
    <3>1. <<q.function, r>> \in Targets
      BY <2>1, <2>2, StepAims
    <3>2. CASE handler # "out"
      BY <1>1, <2>1, <3>1, <3>2 DEF Targets, Distinguishable, q
    <3>3. CASE handler = "out" /\ done < Len(Requests)
      <4>1. done + 1 \in 1 .. Len(Requests) /\ i \in 1 .. (done + 1) - 1
        BY <3>3, GuestsAssumption DEF AddressInv
      <4>2. Aims(q) \cap Aims(Requests[done + 1]) = {}
        BY <4>1 DEF Distinguishable, q
      <4> QED BY <2>1, <3>1, <3>3, <4>2 DEF Targets, Request
    <3>4. CASE handler = "out" /\ ~ done < Len(Requests)
      <4>1. UNCHANGED config
        BY <3>4 DEF Next, Driver, DriverSelects, DriverWrites, DriverReads, Working, Interrupt,
                    Handler, HandlerSelects, HandlerWrites, HandlerRestores, vars
      <4> QED BY <2>2, <4>1 DEF Changed
    <3> QED BY <3>2, <3>3, <3>4
  <2> QED BY <2>2 DEF Changed, r
<1> QED BY <1>2 DEF ReadConfig

\* A driver that its reads can tell from the host bridge's identification finds
\* whatever it has completed in place, as long as it runs: for every program of
\* writes to different registers and every handler of another one.
THEOREM CompletedIsKept ==
  ASSUME Distinguishable
  PROVE  Spec => []CompletedIsHeld
<1> DEFINE Held(i) ==
      ReadConfig(Requests[i].function, Requests[i].register, Len(Requests[i].value))
        = Requests[i].value
<1>1. Init => CompletedIsHeld
  BY DEF Init, CompletedIsHeld
<1>2. CompletedIsHeld /\ Inv /\ AddressInv /\ [Next]_vars => CompletedIsHeld'
  <2> SUFFICES ASSUME CompletedIsHeld, Inv, AddressInv, [Next]_vars, NEW i \in 1 .. done'
               PROVE  Held(i)'
    BY DEF CompletedIsHeld
  <2>1. CASE i \in 1 .. done
    BY <2>1, CompletedStaysHeld DEF CompletedIsHeld
  <2>2. CASE i \notin 1 .. done
    <3>1. DriverReads /\ i = done + 1 /\ done' = done + 1
      BY <2>2, GuestsAssumption
         DEF AddressInv, Next, Driver, DriverSelects, DriverWrites, DriverReads, Interrupt,
             Handler, HandlerSelects, HandlerWrites, HandlerRestores, vars
    <3>2. /\ configAddress \in {Address(Request), Zeroed}
          /\ i \in 1 .. Len(Requests) /\ Request = Requests[i] /\ config' = config
      BY <3>1, GuestsAssumption DEF DriverReads, Working, AddressInv, Request
    <3>3. Fits(Request) /\ LostRead(Request) # Request.value
      BY <3>2, GuestsAssumption DEF Distinguishable
    <3>4. IOReadConfigData(Len(Request.value), Offset(Request)) = Request.value
      BY <3>1, GuestsAssumption DEF DriverReads, AddressInv
    <3>5. Held(i)
      BY <3>2, <3>3, <3>4, ReadsOwnOrLost
    <3> QED BY <3>2, <3>5 DEF ReadConfig
  <2> QED BY <2>1, <2>2
<1> QED BY <1>1, <1>2, InvariantHolds, AddressInvariant, PTL DEF Spec
=============================================================================
