----------------------------- MODULE SMBusProofs -----------------------------
(***************************************************************************)
(* The management bus and the devices behind it: the line of the           *)
(* controller, for every set of devices and protocols and a guest that     *)
(* clears only status bits that are set, the version string and the        *)
(* registers of the SMC, for every sequence of transactions, that the      *)
(* accesses with their data are accesses of the controller, and that what  *)
(* a driver asks for is done once, whatever others do to the status.       *)
(***************************************************************************)
EXTENDS SMBusDriver, SequenceTheorems, TLAPS

-----------------------------------------------------------------------------
(* The controller.                                                         *)

LEMMA TypeStart == Init => TypeOK
BY SMBusAssumption DEF Init, TypeOK

LEMMA TypeStep == TypeOK /\ [Next]_vars => TypeOK'
<1> SUFFICES ASSUME TypeOK, [Next]_vars PROVE TypeOK'
  OBVIOUS
<1> USE DEF TypeOK
<1>1. ASSUME NEW value \in SUBSET Flags, WriteStatus(value) PROVE TypeOK'
  <2>1. Status' \subseteq Flags /\ Index' \in (0 .. BlockLength - 1) \cup {Unset}
    BY <1>1, SMBusAssumption DEF WriteStatus, Flags
  <2>2. line' \in BOOLEAN /\ signal' \in {"RaiseIRQ", "LowerIRQ", "none"}
    BY <1>1 DEF WriteStatus, Raise, Lower
  <2>3. Control' = Control /\ Address' = Address
    BY <1>1 DEF WriteStatus
  <2> QED BY <2>1, <2>2, <2>3
<1>2. ASSUME NEW control \in Controls, WriteEnable(control) PROVE TypeOK'
  <2>1. Outcome(Address, control.protocol) \in Flags
    BY DEF Outcome, Flags
  <2>2. Status' \subseteq Flags
    BY <1>2, <2>1 DEF WriteEnable, Flags
  <2>3. /\ line' \in BOOLEAN /\ signal' \in {"RaiseIRQ", "LowerIRQ", "none"}
        /\ Control' = control /\ Address' = Address /\ Index' = Index
    BY <1>2 DEF WriteEnable, Raise, Quiet
  <2> QED BY <2>2, <2>3
<1>3. ASSUME NEW address \in Addresses, WriteAddress(address) PROVE TypeOK'
  BY <1>3 DEF WriteAddress, Quiet
<1>4. CASE BlockData
  <2>1. Index' \in (0 .. BlockLength - 1) \cup {Unset}
    BY <1>4, SMBusAssumption DEF BlockData, Unset
  <2> QED BY <1>4, <2>1 DEF BlockData, Quiet
<1>5. CASE UNCHANGED vars
  BY <1>5 DEF vars
<1> QED BY <1>1, <1>2, <1>3, <1>4, <1>5 DEF Next

\* The registers of the controller stay well formed, and the index inside the
\* block buffer once it has been used.
THEOREM TypeCorrect == Spec => []TypeOK
BY TypeStart, TypeStep, PTL DEF Spec

LEMMA LineStep ==
  ASSUME ExactAck, InterruptMeansStatus, [Next]_vars
  PROVE  InterruptMeansStatus'
<1> USE DEF InterruptMeansStatus
<1>1. ASSUME NEW value \in SUBSET Flags, value \subseteq Status, WriteStatus(value)
      PROVE  InterruptMeansStatus'
  <2>1. value \ Status = {}
    BY <1>1
  <2>2. line' = FALSE
    BY <1>1, <2>1 DEF WriteStatus, Lower
  <2> QED BY <2>2
<1>2. ASSUME NEW control \in Controls, WriteEnable(control)
      PROVE  InterruptMeansStatus'
  <2>1. Status \subseteq Status'
    BY <1>2 DEF WriteEnable
  <2>2. Status' # {} \/ line' = line
    BY <1>2 DEF WriteEnable, Raise, Quiet
  <2> QED BY <2>1, <2>2
<1>3. ASSUME NEW address \in Addresses, WriteAddress(address)
      PROVE  InterruptMeansStatus'
  BY <1>3 DEF WriteAddress, Quiet
<1>4. CASE BlockData
  BY <1>4 DEF BlockData, Quiet
<1>5. CASE UNCHANGED vars
  BY <1>5 DEF vars
<1> QED BY <1>1, <1>2, <1>3, <1>4, <1>5 DEF Next

\* The interrupt line is high only while a status bit is set, provided that
\* the guest writes back no bit it did not find set.
THEOREM LineMeansStatus ==
  ASSUME ExactAck
  PROVE  Spec => []InterruptMeansStatus
<1>1. Init => InterruptMeansStatus
  BY DEF Init, InterruptMeansStatus
<1>2. InterruptMeansStatus /\ [Next]_vars => InterruptMeansStatus'
  BY LineStep
<1> QED BY <1>1, <1>2, PTL DEF Spec

-----------------------------------------------------------------------------
(* The accesses with their data are accesses of the controller.            *)

\* An access that leaves the controller alone is one that writes the address
\* register's own value.
LEMMA QuietAccess ==
  ASSUME TypeOK, Quiet, UNCHANGED <<Status, Control, Address, Index>>
  PROVE  Next
<1>1. Address \in Addresses /\ WriteAddress(Address)
  BY DEF TypeOK, WriteAddress
<1> QED BY <1>1 DEF Next

LEMMA AccessIsAccess == TypeOK /\ [DevicesNext]_devVars => [Next]_vars
<1> SUFFICES ASSUME TypeOK, [DevicesNext]_devVars PROVE [Next]_vars
  OBVIOUS
<1>1. CASE ControlAccess
  BY <1>1 DEF ControlAccess, Next
<1>2. CASE \E control \in Controls : Enable(control)
  BY <1>2 DEF Enable, Next
<1>3. CASE \E command \in Commands : WriteCommand(command)
  BY <1>3, QuietAccess DEF WriteCommand
<1>4. ASSUME NEW low, NEW high, WriteData(low, high) PROVE Next
  BY <1>4, QuietAccess DEF WriteData
<1>5. CASE UNCHANGED devVars
  BY <1>5 DEF devVars, vars
<1> QED BY <1>1, <1>2, <1>3, <1>4, <1>5 DEF DevicesNext

LEMMA DevicesTypeCorrect == DevicesSpec => []TypeOK
<1>1. DevicesInit => TypeOK
  BY TypeStart DEF DevicesInit
<1>2. TypeOK /\ [DevicesNext]_devVars => TypeOK'
  BY AccessIsAccess, TypeStep
<1> QED BY <1>1, <1>2, PTL DEF DevicesSpec

\* Whatever the devices make of a transaction's data, the controller behaves as
\* its own module says: DevicesSpec implements Spec.
THEOREM DevicesImplementBus == DevicesSpec => Spec
<1>1. DevicesInit => Init
  BY DEF DevicesInit
<1>2. TypeOK /\ [DevicesNext]_devVars => [Next]_vars
  BY AccessIsAccess
<1> QED BY <1>1, <1>2, DevicesTypeCorrect, PTL DEF DevicesSpec, Spec

\* With the devices and their data, too, the line is high only while a status
\* bit is set.
THEOREM DevicesLineMeansStatus ==
  ASSUME ExactAck
  PROVE  DevicesSpec => []InterruptMeansStatus
BY DevicesImplementBus, LineMeansStatus, PTL

-----------------------------------------------------------------------------
(* The devices' data.                                                      *)

DataTypeOK ==
  /\ Command \in Commands /\ Data0 \in Byte /\ Data1 \in Byte
  /\ version \in 0 .. 2
  /\ buffer \in [Registers -> Byte]
  /\ acknowledged \in [Registers -> Byte]

\* What has been heard is the beginning of the version string, and the byte read
\* next is the one that follows it.
Hears ==
  /\ heard \in Seq(Byte)
  /\ Len(heard) <= 3
  /\ \A i \in 1 .. Len(heard) : heard[i] = VersionString[i]
  /\ Len(heard) < 3 => version = Len(heard)

DevicesInv == TypeOK /\ DataTypeOK /\ Hears /\ WritesKept

LEMMA ConstantsAreBytes ==
  /\ 0 \in Byte
  /\ \A command \in Constants : Constant(command) \in Byte
  /\ \A v \in 0 .. 2 : VersionString[v + 1] \in Byte
  /\ \A v \in 0 .. 2 : (v + 1) % 3 \in 0 .. 2
BY DEF Byte, Constants, Constant, VersionString

LEMMA ReadsAreBytes ==
  ASSUME DataTypeOK, NEW device
  PROVE  ReadByte(device, Command) \in Byte
<1>1. Command \in Byte /\ Command \in Registers
  BY SMBusDevicesAssumption DEF DataTypeOK, Registers
<1>2. SMCReadByte(Command) \in Byte
  BY <1>1, ConstantsAreBytes DEF SMCReadByte, DataTypeOK
<1>3. Image[Command] \in Byte
  BY <1>1, SMBusDevicesAssumption
<1> QED BY <1>2, <1>3, ConstantsAreBytes DEF ReadByte

LEMMA WordsAreBytes ==
  ASSUME DataTypeOK, NEW device, NEW word \in ReadWord(device, Command)
  PROVE  word[1] \in Byte /\ word[2] \in Byte
<1>1. Command \in Byte
  BY SMBusDevicesAssumption DEF DataTypeOK
<1>2. Image[Command] \in Byte
  BY <1>1, SMBusDevicesAssumption
<1>3. Command # 255 => Command + 1 \in Byte
  BY <1>1 DEF Byte
<1>4. Command # 255 => Image[Command + 1] \in Byte
  BY <1>3, SMBusDevicesAssumption
<1> QED BY <1>2, <1>4, ConstantsAreBytes DEF ReadWord

\* What the protocols that are implemented leave in the data registers.
LEMMA ReceivedBytes ==
  ASSUME DataTypeOK, NEW device, NEW protocol \in Implemented,
         NEW data \in Received(device, protocol)
  PROVE  data[1] \in Byte /\ data[2] \in Byte
<1>1. CASE protocol = 0
  BY <1>1 DEF Received, DataTypeOK
<1>2. CASE protocol \in {1, 5}
  BY <1>2, ConstantsAreBytes DEF Received, DataTypeOK
<1>3. CASE protocol = 2
  BY <1>3, ReadsAreBytes DEF Received, DataTypeOK
<1>4. CASE protocol = 3
  BY <1>4, WordsAreBytes DEF Received
<1> QED BY <1>1, <1>2, <1>3, <1>4 DEF Implemented

\* The SMC after a read of a byte.
LEMMA AfterReadType ==
  ASSUME DataTypeOK, SMCAfterRead(Command)
  PROVE  /\ version' \in 0 .. 2 /\ buffer' \in [Registers -> Byte]
         /\ \A r \in Registers \ {VERSION} : buffer'[r] = buffer[r]
         /\ Command = VERSION => version' = (version + 1) % 3
         /\ Command # VERSION => version' = version
<1>1. VERSION \in Registers
  BY DEF Registers
<1>2. VersionString[version + 1] \in Byte /\ (version + 1) % 3 \in 0 .. 2
  BY ConstantsAreBytes DEF DataTypeOK
<1> QED BY <1>1, <1>2 DEF DataTypeOK, SMCAfterRead, smcVars

\* The SMC after a write of a byte.
LEMMA AfterWriteType ==
  ASSUME DataTypeOK, SMCWriteByte(Command, Data0)
  PROVE  /\ version' \in 0 .. 2 /\ buffer' \in [Registers -> Byte]
         /\ version' = IF Command = VERSION /\ Data0 = 0 THEN 0 ELSE version
         /\ \A r \in Registers :
              buffer'[r] = IF r = Command /\ r \notin {VERSION, RESET} THEN Data0
                           ELSE buffer[r]
<1>1. Command \in Registers
  BY DEF Registers, DataTypeOK
<1>2. CASE Command = VERSION
  <2>1. version' = (IF Data0 = 0 THEN 0 ELSE version) /\ buffer' = buffer
    BY <1>2 DEF SMCWriteByte, VERSION, RESET
  <2> QED BY <1>2, <2>1 DEF DataTypeOK
<1>3. CASE Command = RESET
  BY <1>1, <1>3 DEF SMCWriteByte, DataTypeOK, smcVars, VERSION, RESET
<1>4. CASE Command \notin {VERSION, RESET}
  <2>1. buffer' = [buffer EXCEPT ![Command] = Data0] /\ version' = version
    BY <1>4 DEF SMCWriteByte
  <2> QED BY <1>1, <1>4, <2>1 DEF DataTypeOK
<1> QED BY <1>2, <1>3, <1>4

\* A transaction, by its outcome and direction.
LEMMA EnableStep ==
  ASSUME DevicesInv, NEW control \in Controls, Enable(control)
  PROVE  DataTypeOK' /\ Hears' /\ WritesKept'
<1> DEFINE done == control.start /\ Outcome(Address, control.protocol) = "HCYC"
           byte == ByteWithSMC(control)
<1>1. /\ DataTypeOK /\ Hears /\ WritesKept /\ Command \in Registers
      /\ WriteEnable(control) /\ Observe(control)
  BY DEF DevicesInv, Enable, DataTypeOK, Registers
<1>2. byte => done
  BY DEF ByteWithSMC
<1>3. Command' = Command
  BY DEF Enable, ExecuteTransaction, Receive, Send, dataVars
<1>4. CASE ~ done
  <2>1. UNCHANGED <<dataVars, smcVars>>
    BY <1>4 DEF Enable, ExecuteTransaction
  <2>2. UNCHANGED seenVars
    BY <1>1, <1>2, <1>4 DEF Observe, seenVars
  <2> QED BY <1>1, <2>1, <2>2
          DEF DataTypeOK, Hears, WritesKept, dataVars, smcVars, seenVars
<1>5. CASE done /\ IsRead(Address)
  <2>1. control.protocol \in Implemented
    BY <1>5 DEF Outcome
  <2>2. Receive(Device(Address), control.protocol)
    BY <1>5 DEF Enable, ExecuteTransaction
  <2>3. PICK data \in Received(Device(Address), control.protocol) :
          Data0' = data[1] /\ Data1' = data[2]
    BY <2>2 DEF Receive
  <2>4. Data0' \in Byte /\ Data1' \in Byte
    BY <1>1, <2>1, <2>3, ReceivedBytes
  <2>5. acknowledged' = acknowledged
    BY <1>1, <1>5 DEF Observe
  <2>6. CASE byte
    <3>1. SMCAfterRead(Command)
      BY <2>2, <2>6 DEF Receive, ByteWithSMC
    <3>2. /\ version' \in 0 .. 2 /\ buffer' \in [Registers -> Byte]
          /\ \A r \in Registers \ {VERSION} : buffer'[r] = buffer[r]
          /\ Command = VERSION => version' = (version + 1) % 3
          /\ Command # VERSION => version' = version
      BY <1>1, <3>1, AfterReadType
    <3>3. Command = VERSION => Data0' = VersionString[version + 1]
      <4>1. Received(SMC, 2) = {<<ReadByte(SMC, Command), Data1>>}
        BY DEF Received
      <4>2. Command = VERSION => ReadByte(SMC, Command) = VersionString[version + 1]
        BY DEF ReadByte, SMCReadByte, SMC, Eeprom
      <4>3. data = <<ReadByte(SMC, Command), Data1>>
        BY <2>3, <2>6, <4>1 DEF ByteWithSMC
      <4> QED BY <2>3, <4>2, <4>3
    <3>4. heard' = IF Command = VERSION /\ Len(heard) < 3 THEN Append(heard, Data0')
                   ELSE heard
      BY <1>1, <1>5, <2>6 DEF Observe, IORead
    <3>5. Hears'
      <4>1. CASE ~ (Command = VERSION /\ Len(heard) < 3)
        BY <1>1, <3>2, <3>4, <4>1 DEF Hears
      <4>2. CASE Command = VERSION /\ Len(heard) < 3
        <5>1. /\ heard \in Seq(Byte) /\ Len(heard) \in Nat /\ version = Len(heard)
              /\ \A i \in 1 .. Len(heard) : heard[i] = VersionString[i]
          BY <1>1, <4>2, LenProperties DEF Hears
        <5>2. /\ Len(heard') = Len(heard) + 1 /\ heard' \in Seq(Byte)
              /\ \A i \in 1 .. Len(heard) : heard'[i] = heard[i]
              /\ heard'[Len(heard) + 1] = Data0'
          BY <2>4, <3>4, <4>2, <5>1, AppendProperties
        <5>3. Len(heard') < 3 => version' = Len(heard')
          BY <3>2, <4>2, <5>1, <5>2
        <5>4. Data0' = VersionString[Len(heard) + 1]
          BY <3>3, <4>2, <5>1
        <5>5. \A i \in 1 .. Len(heard') : heard'[i] = VersionString[i]
          BY <5>1, <5>2, <5>4
        <5> QED BY <4>2, <5>1, <5>2, <5>3, <5>5 DEF Hears
      <4> QED BY <4>1, <4>2
    <3> QED BY <1>1, <1>3, <2>4, <2>5, <3>2, <3>5 DEF DataTypeOK, WritesKept
  <2>7. CASE ~ byte
    <3>1. UNCHANGED smcVars
      BY <1>5, <2>2, <2>7 DEF Receive, ByteWithSMC
    <3>2. heard' = heard
      BY <1>1, <2>7 DEF Observe
    <3> QED BY <1>1, <1>3, <2>4, <2>5, <3>1, <3>2
            DEF DataTypeOK, Hears, WritesKept, smcVars
  <2> QED BY <2>6, <2>7
<1>6. CASE done /\ ~ IsRead(Address)
  <2>1. Send(Device(Address), control.protocol)
    BY <1>6 DEF Enable, ExecuteTransaction
  <2>2. Data0' = Data0 /\ Data1' = Data1
    BY <2>1 DEF Send, dataVars
  <2>3. CASE byte
    <3>1. SMCWriteByte(Command, Data0)
      BY <2>1, <2>3 DEF Send, ByteWithSMC
    <3>2. /\ version' \in 0 .. 2 /\ buffer' \in [Registers -> Byte]
          /\ version' = IF Command = VERSION /\ Data0 = 0 THEN 0 ELSE version
          /\ \A r \in Registers :
               buffer'[r] = IF r = Command /\ r \notin {VERSION, RESET} THEN Data0
                            ELSE buffer[r]
      BY <1>1, <3>1, AfterWriteType
    <3>3. heard' = IF Command = VERSION /\ Data0 = 0 THEN <<>> ELSE heard
      BY <1>1, <1>6, <2>3 DEF Observe
    <3>4. acknowledged' = IF Command \notin {VERSION, RESET}
                          THEN [acknowledged EXCEPT ![Command] = Data0]
                          ELSE acknowledged
      BY <1>1, <1>6, <2>3 DEF Observe
    <3>5. Hears'
      BY <1>1, <3>2, <3>3 DEF Hears
    <3>6. /\ acknowledged' \in [Registers -> Byte]
          /\ \A r \in Registers :
               acknowledged'[r] = IF r = Command /\ r \notin {VERSION, RESET} THEN Data0
                                  ELSE acknowledged[r]
      BY <1>1, <3>4 DEF DataTypeOK
    <3>7. WritesKept'
      BY <1>1, <3>2, <3>6 DEF WritesKept
    <3> QED BY <1>1, <1>3, <2>2, <3>2, <3>5, <3>6, <3>7 DEF DataTypeOK
  <2>4. CASE ~ byte
    <3>1. UNCHANGED smcVars
      BY <1>6, <2>1, <2>4 DEF Send, ByteWithSMC
    <3>2. heard' = heard /\ acknowledged' = acknowledged
      BY <1>1, <2>4 DEF Observe
    <3> QED BY <1>1, <1>3, <2>2, <3>1, <3>2
            DEF DataTypeOK, Hears, WritesKept, smcVars
  <2> QED BY <2>3, <2>4
<1> QED BY <1>4, <1>5, <1>6

LEMMA DevicesInitially == DevicesInit => DevicesInv
<1> SUFFICES ASSUME DevicesInit PROVE DevicesInv
  OBVIOUS
<1>1. TypeOK
  BY TypeStart DEF DevicesInit
<1>2. DataTypeOK /\ Hears /\ WritesKept
  BY SMBusDevicesAssumption, ConstantsAreBytes
     DEF DevicesInit, DataTypeOK, Hears, WritesKept
<1> QED BY <1>1, <1>2 DEF DevicesInv

LEMMA DevicesInductive == DevicesInv /\ [DevicesNext]_devVars => DevicesInv'
<1> SUFFICES ASSUME DevicesInv, [DevicesNext]_devVars PROVE DevicesInv'
  OBVIOUS
<1>1. TypeOK'
  BY AccessIsAccess, TypeStep DEF DevicesInv
<1>2. ASSUME NEW control \in Controls, Enable(control)
      PROVE  DataTypeOK' /\ Hears' /\ WritesKept'
  BY <1>2, EnableStep
<1>3. ASSUME UNCHANGED <<smcVars, seenVars>>,
             Command' \in Commands, Data0' \in Byte, Data1' \in Byte
      PROVE  DataTypeOK' /\ Hears' /\ WritesKept'
  BY <1>3 DEF DevicesInv, DataTypeOK, Hears, WritesKept, smcVars, seenVars
<1>4. Command \in Commands /\ Data0 \in Byte /\ Data1 \in Byte
  BY DEF DevicesInv, DataTypeOK
<1>5. CASE ControlAccess
  <2>1. UNCHANGED <<smcVars, seenVars>> /\ UNCHANGED dataVars
    BY <1>5 DEF ControlAccess
  <2>2. Command' \in Commands /\ Data0' \in Byte /\ Data1' \in Byte
    BY <1>4, <2>1 DEF dataVars
  <2> QED BY <1>1, <1>3, <2>1, <2>2 DEF DevicesInv
<1>6. ASSUME NEW command \in Commands, WriteCommand(command)
      PROVE  DataTypeOK' /\ Hears' /\ WritesKept'
  BY <1>3, <1>4, <1>6 DEF WriteCommand
<1>7. ASSUME NEW low \in Byte, NEW high \in Byte, WriteData(low, high)
      PROVE  DataTypeOK' /\ Hears' /\ WritesKept'
  BY <1>3, <1>4, <1>7 DEF WriteData
<1>8. CASE UNCHANGED devVars
  <2>1. UNCHANGED <<smcVars, seenVars>> /\ UNCHANGED dataVars
    BY <1>8 DEF devVars
  <2>2. Command' \in Commands /\ Data0' \in Byte /\ Data1' \in Byte
    BY <1>4, <2>1 DEF dataVars
  <2> QED BY <1>1, <1>3, <2>1, <2>2 DEF DevicesInv
<1>9. Bytes \subseteq Byte
  BY SMBusDevicesAssumption
<1> QED BY <1>1, <1>2, <1>4, <1>5, <1>6, <1>7, <1>8, <1>9 DEF DevicesNext, DevicesInv

LEMMA DevicesInvariance == DevicesSpec => []DevicesInv
BY DevicesInitially, DevicesInductive, PTL DEF DevicesSpec

\* Three reads of the version register hear "P01" in order from its last reset on,
\* through every other transaction with every other device.
THEOREM VersionHeardWhole == DevicesSpec => []VersionWhole
<1>1. DevicesInv => VersionWhole
  <2> SUFFICES ASSUME Hears PROVE IsPrefix(heard, VersionString)
    BY DEF DevicesInv, VersionWhole
  <2>1. /\ VersionString \in Seq(Byte) /\ Len(VersionString) = 3
        /\ heard \in Seq(Byte) /\ Len(heard) \in 0 .. 3
    <3>1. VersionString \in Seq(Byte) /\ Len(VersionString) = 3
      BY DEF VersionString, Byte
    <3>2. heard \in Seq(Byte) /\ Len(heard) <= 3
      BY DEF Hears
    <3>3. Len(heard) \in Nat
      BY <3>2, LenProperties
    <3>4. \A n \in Nat : n <= 3 => n \in 0 .. 3
      OBVIOUS
    <3>5. Len(heard) \in 0 .. 3
      BY <3>2, <3>3, <3>4, Zenon
    <3> QED BY <3>1, <3>2, <3>5, Zenon
  <2>2. \A i \in 1 .. Len(heard) : heard[i] = VersionString[i] /\ VersionString[i] \in Byte
    BY <2>1, ElementOfSeq DEF Hears
  <2>3. /\ SubSeq(heard, 1, Len(heard)) = heard
        /\ SubSeq(VersionString, 1, Len(heard)) \in Seq(Byte)
        /\ Len(SubSeq(VersionString, 1, Len(heard))) = Len(heard)
        /\ \A i \in 1 .. Len(heard) :
             SubSeq(VersionString, 1, Len(heard))[i] = VersionString[i]
    <3>1. SubSeq(heard, 1, Len(heard)) = heard
      BY <2>1, SubSeqFull
    <3> DEFINE n == Len(heard)
    <3>2. n \in 0 .. 3 /\ \A i \in 1 .. n : VersionString[i] \in Byte
      BY <2>1, <2>2
    <3> HIDE DEF n
    <3>3. /\ SubSeq(VersionString, 1, n) \in Seq(Byte)
          /\ Len(SubSeq(VersionString, 1, n)) = IF 1 <= n THEN n - 1 + 1 ELSE 0
          /\ \A i \in 1 .. n - 1 + 1 :
               SubSeq(VersionString, 1, n)[i] = VersionString[1 + i - 1]
      BY <3>2, SubSeqProperties
    <3>4. Len(SubSeq(VersionString, 1, n)) = n
      BY <3>2, <3>3
    <3>5. \A i \in 1 .. n : SubSeq(VersionString, 1, n)[i] = VersionString[i]
      BY <3>2, <3>3
    <3> QED BY <3>1, <3>3, <3>4, <3>5 DEF n
  <2>4. SubSeq(VersionString, 1, Len(heard)) = heard
    BY <2>1, <2>2, <2>3, SeqEqual
  <2> QED BY <2>1, <2>3, <2>4 DEF IsPrefix
<1> QED BY <1>1, DevicesInvariance, PTL

\* A byte reported as written to a register of the SMC stays until the next such
\* write, whatever is done to the other devices and whatever is refused.
THEOREM WrittenBytesKept == DevicesSpec => []WritesKept
<1>1. DevicesInv => WritesKept
  BY DEF DevicesInv
<1> QED BY <1>1, DevicesInvariance, PTL

-----------------------------------------------------------------------------
(* The driver.                                                             *)

\* The bus serves what the driver is asked for.
Possible == Serves(request.address, request.protocol)

\* The inductive invariant.  When the transaction starts no error is set, so that
\* afterwards an error means that this one was refused, and nothing the driver
\* repeats has been served.
DriverInv ==
  /\ request \in Requests
  /\ step \in Steps \ {"address"} => Address = request.address
  /\ step \in Steps \ {"address", "command"} => Command = request.command
  /\ step \in {"address", "command", "data", "clear", "start"} => served = <<>>
  /\ step = "start" => ~ Failed
  /\ step = "status" => IF Possible THEN ~ Failed /\ Len(served) = 1
                        ELSE Failed /\ served = <<>>
  /\ step = "answer" => Len(served) = 1
  /\ step \in {"status", "answer"} /\ Len(served) = 1 /\ IsRead(request.address)
       => Data0 = served[1]
  /\ AnsweredOnce

LEMMA DriverStart == DriverInit => DriverInv
BY DEF DriverInit, DriverInv, AnsweredOnce, Steps

LEMMA OthersStep ==
  ASSUME DriverInv, Others
  PROVE  DriverInv'
<1>1. CASE step' = "idle" /\ served' = <<>> /\ UNCHANGED request
  BY <1>1 DEF DriverInv, AnsweredOnce, Steps
<1>2. ASSUME NEW control \in Controls, ~ control.start, Enable(control),
             UNCHANGED <<step, request, attempts, served, answer>>
      PROVE  DriverInv'
  <2>1. Address' = Address /\ Command' = Command /\ Data0' = Data0
    BY <1>2 DEF Enable, WriteEnable, dataVars
  <2>2. Status' = Status \/ Status' = Status \cup {"ABRT"}
    BY <1>2 DEF Enable, WriteEnable
  <2>3. Failed' <=> Failed
    BY <2>2 DEF Failed
  <2>4. Possible' <=> Possible
    BY <1>2 DEF Possible, Serves
  <2> QED BY <1>2, <2>1, <2>3, <2>4 DEF DriverInv, AnsweredOnce
<1> QED BY <1>1, <1>2 DEF Others, askVars

LEMMA StartStep ==
  ASSUME DriverInv, Start
  PROVE  DriverInv'
<1>1. PICK control \in Controls :
        control.start /\ control.protocol = request.protocol /\ Enable(control)
  BY DEF Start
<1>2. /\ step = "start" /\ step' = "status" /\ request' = request /\ served = <<>>
      /\ Address = request.address /\ Command = request.command /\ ~ Failed
      /\ request \in Requests
  BY DEF Start, DriverInv, Steps
<1>3. Address' = Address /\ Control' = control
  BY <1>1 DEF Enable, WriteEnable
<1>4. Command' = Command
  BY DEF Start, Enable, ExecuteTransaction, Receive, Send, dataVars
<1>5. Possible' <=> Possible
  BY <1>2 DEF Possible, Serves
<1> DEFINE byte == ReadByte(Device(request.address), request.command)
<1>6. served' = IF Possible THEN Append(served, byte) ELSE served
  BY <1>1, <1>2, <1>3 DEF Start, Possible
<1> HIDE DEF byte
<1>7. CASE ~ Possible
  <2>1. Outcome(Address, control.protocol) = "PRERR"
    BY <1>1, <1>2, <1>7 DEF Possible, Serves, Outcome
  <2>2. Failed'
    BY <1>1, <2>1 DEF Enable, WriteEnable, Failed
  <2> QED BY <1>2, <1>3, <1>4, <1>5, <1>6, <1>7, <2>2 DEF DriverInv, AnsweredOnce
<1>8. CASE Possible
  <2>1. Outcome(Address, control.protocol) = "HCYC"
    BY <1>1, <1>2, <1>8 DEF Possible, Serves, Outcome
  <2>2. Status' \subseteq Status \cup {"ABRT", "HCYC"}
    BY <1>1, <2>1 DEF Enable, WriteEnable
  <2>3. ~ Failed'
    BY <1>2, <2>2 DEF Failed
  <2>4. served' = <<byte>>
    BY <1>2, <1>6, <1>8
  <2>5. Len(served') = 1 /\ served'[1] = byte
    BY <2>4
  <2>6. ASSUME IsRead(request.address) PROVE Data0' = byte
    <3>1. control.protocol = 2
      BY <1>1, <1>2, <1>8, SMBusDriverAssumption DEF Possible, Serves, Request, Implemented
    <3>2. Receive(Device(Address), 2)
      BY <1>1, <1>2, <2>1, <2>6, <3>1 DEF Enable, ExecuteTransaction
    <3>3. PICK data \in Received(Device(Address), 2) : Data0' = data[1]
      BY <3>2 DEF Receive
    <3>4. data = <<ReadByte(Device(Address), Command), Data1>>
      BY <3>3 DEF Received
    <3> QED BY <1>2, <3>3, <3>4 DEF byte
  <2> QED BY <1>2, <1>3, <1>4, <1>5, <1>8, <2>3, <2>5, <2>6 DEF DriverInv, AnsweredOnce
<1> QED BY <1>7, <1>8

LEMMA DriverStep == DriverInv /\ [DriverNext]_driverVars => DriverInv'
<1> SUFFICES ASSUME DriverInv, [DriverNext]_driverVars PROVE DriverInv'
  OBVIOUS
<1>1. ASSUME NEW r \in Requests, Ask(r) PROVE DriverInv'
  BY <1>1 DEF Ask, DriverInv, AnsweredOnce, Steps
<1>2. CASE SetAddress
  BY <1>2 DEF SetAddress, WriteAddress, askVars, dataVars, DriverInv, AnsweredOnce, Steps
<1>3. CASE SetCommand
  BY <1>3 DEF SetCommand, WriteCommand, askVars, DriverInv, AnsweredOnce, Steps
<1>4. CASE SetData
  BY <1>4 DEF SetData, WriteData, askVars, DriverInv, AnsweredOnce, Steps
<1>5. CASE Clear
  <2>1. Status' \subseteq {"HCYC"} /\ Address' = Address
    BY <1>5 DEF Clear, WriteStatus, Flags
  <2>2. ~ Failed'
    BY <2>1 DEF Failed
  <2> QED BY <1>5, <2>1, <2>2 DEF Clear, askVars, dataVars, DriverInv, AnsweredOnce, Steps
<1>6. CASE Start
  BY <1>6, StartStep
<1>7. CASE ReadStatus
  <2>1. UNCHANGED <<Status, Address, Command, Data0, request, served, answer>>
    BY <1>7 DEF ReadStatus, devVars, vars, dataVars
  <2>2. ~ Failed => Len(served) = 1
    BY <1>7 DEF ReadStatus, DriverInv
  <2>3. Failed => served = <<>>
    BY <1>7 DEF ReadStatus, DriverInv
  <2>4. CASE ~ Failed
    BY <1>7, <2>1, <2>2, <2>4 DEF ReadStatus, DriverInv, AnsweredOnce, Steps
  <2>5. CASE Failed
    BY <1>7, <2>1, <2>3, <2>5 DEF ReadStatus, DriverInv, AnsweredOnce, Steps
  <2> QED BY <2>4, <2>5
<1>8. CASE ReadAnswer
  BY <1>8 DEF ReadAnswer, IORead, devVars, vars, dataVars, DriverInv, AnsweredOnce, Steps
<1>9. CASE Others
  BY <1>9, OthersStep
<1>10. CASE UNCHANGED driverVars
  <2>1. /\ UNCHANGED <<Status, Address, Command, Data0>>
        /\ UNCHANGED <<step, request, attempts, served, answer>>
    BY <1>10 DEF driverVars, askVars, devVars, vars, dataVars
  <2>2. (Failed' <=> Failed) /\ (Possible' <=> Possible)
    BY <2>1 DEF Failed, Possible, Serves
  <2> QED BY <2>1, <2>2 DEF DriverInv, AnsweredOnce
<1> QED BY <1>1, <1>2, <1>3, <1>4, <1>5, <1>6, <1>7, <1>8, <1>9, <1>10
    DEF DriverNext, Driver

\* Whatever transactions, aborts and clearings of others a driver's accesses fall
\* between, and however often it tries, a request it reports as answered was
\* served once and with that answer, and one it gives up was never served.
THEOREM RequestsServedOnce == DriverSpec => []AnsweredOnce
<1>1. DriverInv => AnsweredOnce
  BY DEF DriverInv
<1> QED BY <1>1, DriverStart, DriverStep, PTL DEF DriverSpec

LEMMA DriverAccess ==
  ASSUME TypeOK, DriverInv, [DriverNext]_driverVars
  PROVE  [DevicesNext]_devVars
<1>1. request.address \in Addresses /\ request.command \in Commands /\ request.data \in Bytes
  BY SMBusDriverAssumption DEF DriverInv, Request
<1>2. CASE SetAddress
  BY <1>1, <1>2 DEF SetAddress, DevicesNext, ControlAccess
<1>3. CASE SetCommand
  BY <1>1, <1>3 DEF SetCommand, DevicesNext
<1>4. CASE SetData
  BY <1>1, <1>4 DEF SetData, DevicesNext
<1>5. CASE Clear
  <2>1. PICK value \in SUBSET Flags :
          (ExactAck => value \subseteq Status) /\ WriteStatus(value)
    BY <1>5 DEF Clear, TypeOK
  <2> QED BY <1>5, <2>1 DEF Clear, DevicesNext, ControlAccess
<1>6. CASE Start
  BY <1>6 DEF Start, DevicesNext
<1>7. CASE Others
  BY <1>7 DEF Others, DevicesNext
<1>8. ASSUME UNCHANGED devVars PROVE [DevicesNext]_devVars
  BY <1>8
<1> QED BY <1>2, <1>3, <1>4, <1>5, <1>6, <1>7, <1>8
    DEF DriverNext, Driver, Ask, ReadStatus, ReadAnswer, driverVars

\* The driver and the other code use the bus as any guest may that clears the
\* status as they do: the line, the SMC's version string and its registers are as
\* safe with them.
THEOREM DriverUsesBus == DriverSpec => DevicesSpec
<1>1. DriverInit => DevicesInit /\ TypeOK /\ DriverInv
  BY DriverStart, TypeStart DEF DriverInit, DevicesInit
<1>2. TypeOK /\ DriverInv /\ [DriverNext]_driverVars => [DevicesNext]_devVars
  BY DriverAccess
<1>3. TypeOK /\ DriverInv /\ [DriverNext]_driverVars => (TypeOK /\ DriverInv)'
  BY <1>2, AccessIsAccess, TypeStep, DriverStep
<1> QED BY <1>1, <1>2, <1>3, PTL DEF DriverSpec, DevicesSpec
=============================================================================
