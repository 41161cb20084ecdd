--------------------------- MODULE TwoHostsProofs ---------------------------
(***************************************************************************)
(* A device that two hosts share, for every configuration, scenario, set   *)
(* of faults and bound: with one host that stages, the flag of the home    *)
(* base is never cleared, whatever the other does meanwhile, so that no    *)
(* host reboots without it; and what either says of a recovery is true.    *)
(* The lemmas of OrchestratorProofs are used of each host in turn.         *)
(***************************************************************************)
EXTENDS TwoHosts, FakeDeviceProofs

HomeActive == dev.active = HomeBase /\ dev.successful[HomeBase]

\* The first host updates a device that has the home base active, and the
\* second does not update at all.
Shared ==
  /\ dev \in Device
  /\ pc1 \in {"push", "update"} => HomeActive
  /\ A!Flow /\ B!Flow
  /\ ~Stages(cmd2, cfg2)

\* The hosts see the same device, and what Orchestrator assumes holds of each.
LEMMA SameDevice ==
  /\ A!Device = Device /\ A!Slots = Slots /\ A!Kernels = Kernels /\ A!Knob = Knob
  /\ B!Device = Device /\ B!Slots = Slots /\ B!Kernels = Kernels /\ B!Knob = Knob
  /\ B!Config = A!Config /\ B!FaultKinds = A!FaultKinds
<1>1. A!Slots = Slots /\ A!Kernels = Kernels /\ B!Slots = Slots /\ B!Kernels = Kernels
  BY DEF Slots, Kernels, A!Slots, A!Kernels, B!Slots, B!Kernels
<1>2. A!Banners = Banners /\ B!Banners = Banners
  BY <1>1 DEF Banners, A!Banners, B!Banners
<1>3. A!Device = Device /\ B!Device = Device
  BY <1>1, <1>2 DEF Device, A!Device, B!Device
<1>4. A!Knob = Knob /\ B!Knob = Knob
  BY <1>1 DEF Knob, A!Knob, B!Knob
<1>5. B!Config = A!Config /\ B!FaultKinds = A!FaultKinds
  BY DEF A!Config, B!Config, A!Backends, B!Backends, A!FaultKinds, B!FaultKinds
<1> QED BY <1>1, <1>3, <1>4, <1>5

\* The lemmas of OrchestratorProofs that are needed, without the assumptions.
LEMMA OfA ==
  ASSUME dev \in Device, A!Next
  PROVE  /\ pc1 # "update" => dev' \in Device /\ dev'.successful = dev.successful
         /\ pc1 # "update" /\ HomeActive => dev'.active = HomeBase
         /\ pc1' \in {"push", "update"} /\ pc1 \notin {"push", "update"} => HomeActive'
         /\ A!Update /\ HomeActive => dev' \in Device /\ dev'.successful[HomeBase]
         /\ A!Flow => A!Flow'
         /\ A!Flow /\ A!AnchorBeforeReboot /\ (dev.successful[HomeBase] => dev'.successful[HomeBase])
              => A!AnchorBeforeReboot'
         /\ dev' \in Device
         /\ result1' # result1 /\ result1' \in {"rolled-back", "wedged-recovered"}
              => A!AnchorUp(dev')
<1> USE SameDevice, SlotsAssumption, NoneAssumption, KnobsAssumption, ConfigsAssumption,
        FaultsAssumption, TimesAssumption, BoundsAssumption DEF HomeActive
<1>1. pc1 # "update" => dev' \in Device /\ dev'.successful = dev.successful
  BY A!FlagsKept
<1>2. pc1 # "update" /\ HomeActive => dev'.active = HomeBase
  BY A!HomeStays
<1>3. pc1' \in {"push", "update"} /\ pc1 \notin {"push", "update"} => HomeActive'
  BY A!UpdateVerified
<1>4. A!Update /\ HomeActive => dev' \in Device /\ dev'.successful[HomeBase]
  BY A!UpdateSpares
<1>5. A!Flow => A!Flow'
  BY A!FlowStep
<1>6. A!Flow /\ A!AnchorBeforeReboot /\ (dev.successful[HomeBase] => dev'.successful[HomeBase])
        => A!AnchorBeforeReboot'
  BY A!GuardedStep
<1>7. dev' \in Device
  BY A!DeviceKept
<1>8. result1' # result1 /\ result1' \in {"rolled-back", "wedged-recovered"} => A!AnchorUp(dev')
  BY A!SaidStep
<1> QED BY <1>1, <1>2, <1>3, <1>4, <1>5, <1>6, <1>7, <1>8

LEMMA OfB ==
  ASSUME dev \in Device, B!Next
  PROVE  /\ pc2 # "update" => dev' \in Device /\ dev'.successful = dev.successful
         /\ pc2 # "update" /\ HomeActive => dev'.active = HomeBase
         /\ B!Flow => B!Flow'
         /\ B!Flow /\ B!AnchorBeforeReboot /\ (dev.successful[HomeBase] => dev'.successful[HomeBase])
              => B!AnchorBeforeReboot'
         /\ dev' \in Device
         /\ result2' # result2 /\ result2' \in {"rolled-back", "wedged-recovered"}
              => A!AnchorUp(dev')
<1> USE SameDevice, SlotsAssumption, NoneAssumption, KnobsAssumption, ConfigsAssumption,
        FaultsAssumption, TimesAssumption, BoundsAssumption DEF HomeActive
<1>1. pc2 # "update" => dev' \in Device /\ dev'.successful = dev.successful
  BY B!FlagsKept
<1>2. pc2 # "update" /\ HomeActive => dev'.active = HomeBase
  BY B!HomeStays
<1>3. B!Flow => B!Flow'
  BY B!FlowStep
<1>4. B!Flow /\ B!AnchorBeforeReboot /\ (dev.successful[HomeBase] => dev'.successful[HomeBase])
        => B!AnchorBeforeReboot'
  BY B!GuardedStep
<1>5. dev' \in Device
  BY B!DeviceKept
<1>6. result2' # result2 /\ result2' \in {"rolled-back", "wedged-recovered"} => A!AnchorUp(dev')
  BY B!SaidStep DEF A!AnchorUp, B!AnchorUp
<1> QED BY <1>1, <1>2, <1>3, <1>4, <1>5, <1>6

\* A step of one host, from "update" or not, when the device is its own to
\* change: what it leaves of the home base.
LEMMA FirstStep ==
  ASSUME Shared, First
  PROVE  /\ dev' \in Device
         /\ pc1' \in {"push", "update"} => HomeActive'
         /\ dev.successful[HomeBase] => dev'.successful[HomeBase]
  <1>1. A!Next
    BY DEF First, A!Next
  <1>2. CASE pc1 # "update"
    <2>1. dev' \in Device /\ dev'.successful = dev.successful
      BY <1>1, <1>2, OfA DEF Shared
    <2>2. ASSUME pc1' \in {"push", "update"} PROVE HomeActive'
      <3>1. CASE pc1 \in {"push", "update"}
        BY <1>1, <1>2, <2>1, <3>1, OfA DEF Shared, HomeActive
      <3>2. CASE pc1 \notin {"push", "update"}
        BY <1>1, <2>2, <3>2, OfA DEF Shared, HomeActive
      <3> QED BY <3>1, <3>2
    <2> QED BY <2>1, <2>2
  <1>3. CASE pc1 = "update"
    <2>1. A!Update \/ A!NewProcess
      BY <1>3 DEF First, A!Command, A!HostStep,
             A!CmdStatus, A!CmdStage, A!CmdBootExperiment, A!CmdIterate, A!CmdRecover,
             A!CmdPower, A!Begin, A!Start, A!VerifyHomeBase, A!PushImages,
             A!AssertArmed, A!Ping, A!Bootstrap, A!Flash, A!GuardReboot, A!Drain,
             A!RebootToExperiment, A!WaitForBanner, A!PeekConsole, A!Recover,
             A!ProbeHomeBase, A!BurnRetry, A!WaitForHomeBase, A!CycleOff, A!CycleOn
    <2>2. pc1' \notin {"push", "update"}
      BY <2>1 DEF A!Update, A!NewProcess, A!Goto, A!Finish
    <2>3. CASE A!Update
      BY <1>3, <2>2, <2>3, <1>1, OfA DEF Shared, HomeActive
    <2>4. CASE A!NewProcess
      BY <2>2, <2>4 DEF A!NewProcess, Shared
    <2> QED BY <2>1, <2>3, <2>4
  <1> QED BY <1>2, <1>3

\* The bootloader is no more to the second host than a call of its own.
LEMMA SecondStep ==
  ASSUME Shared, Second \/ Bootloader, ~BothStage
  PROVE  /\ dev' \in Device /\ dev'.successful = dev.successful
         /\ HomeActive => HomeActive'
  <1>1. B!Next /\ pc2 # "update"
    BY DEF Second, Bootloader, Shared, Stages, B!Next, B!Flow, B!InPlace
  <1>2. dev' \in Device /\ dev'.successful = dev.successful
    BY <1>1, OfB DEF Shared
  <1> QED BY <1>1, <1>2, OfB DEF Shared, HomeActive

LEMMA InitialDevice == A!Init => dev \in Device
<1>1. A!DeviceInit <=> DeviceInit
  BY DEF A!DeviceInit, DeviceInit, A!NewDevice, NewDevice, A!BootAsActive, BootAsActive,
         A!Boot, Boot, A!Slots, Slots
<1> QED BY <1>1, NewDeviceLemma DEF A!Init, DeviceInit

LEMMA SharedInit == Init => Shared
  <1> SUFFICES ASSUME Init PROVE Shared
    OBVIOUS
  <1>1. dev \in Device
    BY InitialDevice DEF Init
  <1>2. A!Flow /\ B!Flow /\ ~Stages(cmd2, cfg2)
    BY DEF Init, A!Init, A!Flow, B!Init, B!Flow, Stages
  <1> QED BY <1>1, <1>2 DEF Init, A!Init, Shared

LEMMA SharedStep ==
  ASSUME ~BothStage, Shared, [Next]_vars
  PROVE  Shared'
  <1>1. CASE UNCHANGED vars
    BY <1>1 DEF vars, second, first, Shared, HomeActive, Stages,
                A!Flow, A!InPlace, A!PowerEnabled, B!Flow, B!InPlace, B!PowerEnabled
  <1>2. CASE First
    <2>1. B!Flow' /\ ~Stages(cmd2, cfg2)'
      BY <1>2 DEF First, second, Shared, Stages, B!Flow, B!InPlace, B!PowerEnabled
    <2>2. A!Flow'
      BY <1>2, OfA DEF First, Shared, A!Next
    <2> QED BY <1>2, <2>1, <2>2, FirstStep DEF Shared
  <1>3. CASE Second \/ Bootloader
    <2>1. B!Flow'
      BY <1>3, OfB DEF Second, Bootloader, Shared, B!Next
    <2>2. A!Flow'
      BY <1>3 DEF Second, Bootloader, first, Shared, A!Flow, A!InPlace, A!PowerEnabled
    <2>3. ~Stages(cmd2, cfg2)'
      BY <1>3 DEF Second, Bootloader, B!BootloaderRetry, B!process, B!locals, Shared, Stages
    <2>4. pc1' = pc1
      BY <1>3 DEF Second, Bootloader, first
    <2> QED BY <1>3, <2>1, <2>2, <2>3, <2>4, SecondStep DEF Shared
  <1> QED BY <1>1, <1>2, <1>3 DEF Next

LEMMA FlagShared ==
  ASSUME ~BothStage, Shared, [Next]_vars, dev.successful[HomeBase]
  PROVE  dev'.successful[HomeBase]
  BY FirstStep, SecondStep DEF Next, vars

\* With one host that stages, the home base's flag is never cleared.
THEOREM AnchorSafeShared ==
  ASSUME ~BothStage
  PROVE  Spec => AnchorShared
  <1>1. Shared /\ [Next]_vars => Shared'
    BY SharedStep
  <1>2. Shared /\ [Next]_vars => [dev.successful[HomeBase] => dev'.successful[HomeBase]]_vars
    BY FlagShared
  <1> QED BY SharedInit, <1>1, <1>2, PTL DEF Spec, AnchorShared

\* Neither of them reboots the device over SSH without an anchor, whatever the
\* other has done since the guard looked.
THEOREM RebootAnchoredShared ==
  ASSUME ~BothStage
  PROVE  Spec => []RebootsShared
  <1> DEFINE Guarded == Shared /\ RebootsShared
  <1>1. Init => Guarded
    BY SharedInit DEF Init, A!Init, B!Init, RebootsShared, A!AnchorBeforeReboot, B!AnchorBeforeReboot
  <1>2. ASSUME Guarded, [Next]_vars PROVE Guarded'
    <2>1. Shared' /\ (dev.successful[HomeBase] => dev'.successful[HomeBase])
      BY <1>2, SharedStep, FlagShared
    <2>2. CASE UNCHANGED vars
      BY <1>2, <2>1, <2>2 DEF vars, first, second, RebootsShared, A!AnchorBeforeReboot,
                              B!AnchorBeforeReboot, A!InPlace, B!InPlace
    <2>3. CASE First
      <3>1. A!AnchorBeforeReboot'
        BY <1>2, <2>1, <2>3, OfA DEF First, A!Next, Shared, RebootsShared
      <3>2. B!AnchorBeforeReboot'
        BY <1>2, <2>1, <2>3 DEF First, second, RebootsShared, B!AnchorBeforeReboot, B!InPlace
      <3> QED BY <2>1, <3>1, <3>2 DEF RebootsShared
    <2>4. CASE Second \/ Bootloader
      <3>1. B!AnchorBeforeReboot'
        BY <1>2, <2>1, <2>4, OfB DEF Second, Bootloader, B!Next, Shared, RebootsShared
      <3>2. A!AnchorBeforeReboot'
        BY <1>2, <2>1, <2>4 DEF Second, Bootloader, first, RebootsShared, A!AnchorBeforeReboot, A!InPlace
      <3> QED BY <2>1, <3>1, <3>2 DEF RebootsShared
    <2> QED BY <1>2, <2>2, <2>3, <2>4 DEF Next
  <1>3. Guarded => RebootsShared
    OBVIOUS
  <1> QED BY <1>1, <1>2, <1>3, PTL DEF Spec

\* What a host says of a recovery is true of the shared device as it says so,
\* even when both may stage.
THEOREM RecoveryHonestShared == Spec => SaidWhenTrue
  <1> DEFINE OneDevice == dev \in Device
  <1>1. Init => OneDevice
    BY InitialDevice DEF Init
  <1>2. ASSUME OneDevice, [Next]_vars PROVE OneDevice'
    <2>1. CASE UNCHANGED vars
      BY <1>2, <2>1 DEF vars
    <2>2. CASE First
      BY <1>2, <2>2, OfA DEF First, A!Next
    <2>3. CASE Second \/ Bootloader
      BY <1>2, <2>3, OfB DEF Second, Bootloader, B!Next
    <2> QED BY <1>2, <2>1, <2>2, <2>3 DEF Next
  <1>3. ASSUME dev \in Device, Next
        PROVE  /\ result1' # result1 /\ result1' \in {"rolled-back", "wedged-recovered"} => A!AnchorUp(dev')
               /\ result2' # result2 /\ result2' \in {"rolled-back", "wedged-recovered"} => A!AnchorUp(dev')
    <2>1. CASE First
      BY <1>3, <2>1, OfA DEF First, A!Next, second
    <2>2. CASE Second \/ Bootloader
      BY <1>3, <2>2, OfB DEF Second, Bootloader, B!Next, first
    <2> QED BY <1>3, <2>1, <2>2 DEF Next
  <1>4. OneDevice /\ [Next]_vars =>
          [/\ result1' # result1 /\ result1' \in {"rolled-back", "wedged-recovered"} => A!AnchorUp(dev')
           /\ result2' # result2 /\ result2' \in {"rolled-back", "wedged-recovered"} => A!AnchorUp(dev')]_vars
    BY <1>3
  <1> QED BY <1>1, <1>2, <1>4, PTL DEF Spec, SaidWhenTrue
=============================================================================
