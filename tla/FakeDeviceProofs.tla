-------------------------- MODULE FakeDeviceProofs --------------------------
(***************************************************************************)
(* What every operation of FakeDevice does to a device, for every value of *)
(* the constants: that the result is a device again, and which of the      *)
(* fields that the host's safety depends on (active, booted, successful)   *)
(* it may change.                                                          *)
(***************************************************************************)
EXTENDS FakeDevice, TLAPS

\* A boot lands in the slot it is given and leaves the slot flags alone.
LEMMA BootLemma ==
  ASSUME NEW d \in Device, NEW slot \in Slots
  PROVE  /\ Boot(d, slot) \in Device
         /\ Boot(d, slot).booted = slot
         /\ Boot(d, slot).active = d.active
         /\ Boot(d, slot).successful = d.successful
  <1> DEFINE flashed == slot = Experiment /\ d.pending # None
             kernel  == IF flashed THEN d.pending ELSE d.experiment_boots
             banner  == IF slot = HomeBase THEN "home" ELSE kernel
  <1>1. kernel \in Kernels
    BY DEF Device
  <1>2. banner \in Banners
    BY <1>1 DEF Banners
  <1>3. (IF flashed THEN None ELSE d.pending) \in Kernels \cup {None}
    BY DEF Device
  <1> DEFINE pending == IF flashed THEN None ELSE d.pending
             e == [d EXCEPT !.booted = slot, !.unreachable_probes = 0]
             f == [e EXCEPT !.experiment_boots = kernel, !.pending = pending]
  <1>4. Boot(d, slot) = [f EXCEPT !.console = d.console \cup {banner},
                                  !.unread  = d.unread \cup {banner}]
    BY DEF Boot
  <1> HIDE DEF kernel, banner, flashed, pending
  <1>5. /\ e \in Device /\ e.booted = slot /\ e.active = d.active
        /\ e.successful = d.successful
    BY DEF Device
  <1> HIDE DEF e
  <1>6. /\ f \in Device /\ f.booted = slot /\ f.active = d.active
        /\ f.successful = d.successful
    BY <1>1, <1>3, <1>5 DEF Device, pending
  <1> HIDE DEF f
  <1>7. /\ d.console \cup {banner} \in SUBSET Banners
        /\ d.unread \cup {banner} \in SUBSET Banners
    BY <1>2 DEF Device
  <1>8. QED
    BY <1>4, <1>6, <1>7 DEF Device

\* Making a slot active and booting it, which is how the bootloader falls back.
LEMMA BootAsActiveLemma ==
  ASSUME NEW d \in Device, NEW slot \in Slots
  PROVE  /\ BootAsActive(d, slot) \in Device
         /\ BootAsActive(d, slot).active = slot
         /\ BootAsActive(d, slot).booted = slot
         /\ BootAsActive(d, slot).successful = d.successful
  <1> DEFINE e == [d EXCEPT !.active = slot]
  <1>1. e \in Device /\ e.active = slot /\ e.successful = d.successful
    BY DEF Device
  <1>2. BootAsActive(d, slot) = Boot(e, slot)
    BY DEF BootAsActive
  <1> HIDE DEF e
  <1>3. QED
    BY <1>1, <1>2, BootLemma

LEMMA MarkedGoodLemma ==
  ASSUME NEW d \in Device
  PROVE  MarkedGood(d) \in Slots /\ d.active \in Slots /\ ColdBootSlot(d) \in Slots
  BY DEF MarkedGood, ColdBootSlot, Slots, Device

\* A rollback makes one slot both active and booted: the home base whenever
\* that is marked successful.
LEMMA RollbackLemma ==
  ASSUME NEW d \in Device
  PROVE  /\ Rollback(d) \in Device
         /\ Rollback(d).active = MarkedGood(d)
         /\ Rollback(d).booted = MarkedGood(d)
         /\ Rollback(d).successful = d.successful
  BY BootAsActiveLemma, MarkedGoodLemma DEF Rollback

\* A reboot leaves the slot flags alone, and the active slot too unless it
\* rolls back.
LEMMA RebootLemma ==
  ASSUME NEW d \in Device
  PROVE  /\ Reboot(d) \in Device
         /\ Reboot(d).successful = d.successful
         /\ Reboot(d).active \in {d.active, MarkedGood(d)}
  <1>1. CASE ~(d.experiment_retries # None /\ d.active = Experiment)
    BY <1>1, BootLemma, MarkedGoodLemma DEF Reboot
  <1>2. CASE /\ d.experiment_retries # None /\ d.active = Experiment
             /\ d.experiment_retries = 0
    BY <1>2, RollbackLemma DEF Reboot
  <1>3. CASE /\ d.experiment_retries # None /\ d.active = Experiment
             /\ d.experiment_retries # 0
    <2> DEFINE e == [d EXCEPT !.experiment_retries = @ - 1]
    <2>1. d.experiment_retries \in Nat /\ d.experiment_retries - 1 \in Nat
      BY <1>3 DEF Device
    <2>2. e \in Device /\ e.active = d.active /\ e.successful = d.successful
      BY <2>1 DEF Device
    <2>3. Reboot(d) = Boot(e, Experiment)
      BY <1>3 DEF Reboot
    <2>4. Experiment \in Slots
      BY DEF Slots
    <2> HIDE DEF e
    <2>5. QED
      BY <2>2, <2>3, <2>4, BootLemma
  <1>4. QED
    BY <1>1, <1>2, <1>3

\* A command sent over SSH, whatever it is, finds the device as it was, or
\* rolled back, or makes it one probe older.
LEMMA AfterSshLemma ==
  ASSUME NEW d \in Device
  PROVE  /\ AfterSsh(d) \in Device
         /\ AfterSsh(d).successful = d.successful
         /\ Reachable(d) => AfterSsh(d) = d /\ SshAnswers(d)
         /\ SshAnswers(d) /\ d.successful[HomeBase] => AfterSsh(d).booted = HomeBase
         /\ AfterSsh(d).active \in {d.active, MarkedGood(d)}
  <1>1. CASE Reachable(d)
    BY <1>1, MarkedGoodLemma DEF AfterSsh, SshAnswers, Reachable
  <1>2. CASE ~Reachable(d) /\ ProbesExhausted(d)
    BY <1>2, RollbackLemma DEF AfterSsh, MarkedGood
  <1>3. CASE ~Reachable(d) /\ ~ProbesExhausted(d)
    <2> DEFINE e == [d EXCEPT !.unreachable_probes = @ + 1]
    <2>1. e \in Device /\ e.successful = d.successful /\ e.active = d.active
      BY DEF Device
    <2>2. AfterSsh(d) \in {d, e} /\ ~SshAnswers(d)
      BY <1>3 DEF AfterSsh, SshAnswers
    <2> HIDE DEF e
    <2>3. QED
      BY <1>3, <2>1, <2>2
  <1>4. QED
    BY <1>1, <1>2, <1>3

\* A reboot ordered over SSH.
LEMMA SshRebootLemma ==
  ASSUME NEW d \in Device
  PROVE  SshReboot(d) \in Device /\ SshReboot(d).successful = d.successful
  BY AfterSshLemma, RebootLemma DEF SshReboot

\* Flashing a slot touches no flag but that slot's, and moves the active slot
\* nowhere else.
LEMMA FlashSlotLemma ==
  ASSUME NEW d \in Device, NEW slot \in Slots, NEW switch \in BOOLEAN
  PROVE  /\ FlashSlot(d, slot, switch) \in Device
         /\ FlashSlot(d, slot, switch).booted = d.booted
         /\ \A s \in Slots \ {slot} :
              FlashSlot(d, slot, switch).successful[s] = d.successful[s]
         /\ slot # d.active /\ switch => FlashSlot(d, slot, switch).active = slot
  <1> DEFINE flags == [d.successful EXCEPT ![slot] = d.update_marks_successful]
             e     == [d EXCEPT !.successful[slot] = d.update_marks_successful,
                                !.active           = IF switch THEN slot ELSE @]
  <1>1. flags \in [Slots -> BOOLEAN] /\ \A s \in Slots \ {slot} : flags[s] = d.successful[s]
    BY DEF Device
  <1>2. e = [d EXCEPT !.successful = flags, !.active = IF switch THEN slot ELSE @]
    OBVIOUS
  <1> HIDE DEF flags
  <1>3. /\ e \in Device /\ e.booted = d.booted /\ e.successful = flags
        /\ switch => e.active = slot
    BY <1>1, <1>2 DEF Device
  <1>4. FlashSlot(d, slot, switch) = IF slot = d.active THEN d ELSE e
    BY DEF FlashSlot
  <1> HIDE DEF e
  <1>5. QED
    BY <1>1, <1>3, <1>4

\* An update of a device that runs and has active the home base arms the
\* experiment and leaves the home base's flag alone.
LEMMA SshUpdateLemma ==
  ASSUME NEW d \in Device
  PROVE  /\ SshUpdate(d) \in Device
         /\ d.booted = HomeBase /\ d.active = HomeBase =>
              /\ SshUpdate(d).successful[HomeBase] = d.successful[HomeBase]
              /\ SshUpdate(d).booted = HomeBase
              /\ SshUpdate(d).active = Experiment
  <1> DEFINE e == AfterSsh(d)
  <1>1. e \in Device /\ (Reachable(d) => e = d /\ SshAnswers(d))
    BY AfterSshLemma
  <1>2. UpdateTarget(e) \in Slots
    BY DEF UpdateTarget, Slots
  <1>3. SshUpdate(d) = IF SshAnswers(d) THEN FlashSlot(e, UpdateTarget(e), TRUE) ELSE e
    BY DEF SshUpdate
  <1> HIDE DEF e
  <1>4. SshUpdate(d) \in Device
    BY <1>1, <1>2, <1>3, FlashSlotLemma
  <1>5. ASSUME d.booted = HomeBase, d.active = HomeBase
        PROVE  SshUpdate(d) = FlashSlot(d, Experiment, TRUE)
    BY <1>1, <1>3, <1>5 DEF Reachable, UpdateTarget
  <1>6. Experiment \in Slots /\ HomeBase \in Slots \ {Experiment}
    BY SlotsAssumption DEF Slots
  <1>7. ASSUME d.booted = HomeBase, d.active = HomeBase
        PROVE  /\ SshUpdate(d).successful[HomeBase] = d.successful[HomeBase]
               /\ SshUpdate(d).booted = HomeBase
               /\ SshUpdate(d).active = Experiment
    <2> DEFINE f == FlashSlot(d, Experiment, TRUE)
    <2>1. SshUpdate(d) = f
      BY <1>5, <1>7
    <2>2. f.booted = d.booted /\ f.successful[HomeBase] = d.successful[HomeBase]
      BY <1>6, FlashSlotLemma
    <2>3. f.active = Experiment
      BY <1>6, <1>7, FlashSlotLemma, SlotsAssumption
    <2> HIDE DEF f
    <2>4. QED
      BY <1>7, <2>1, <2>2, <2>3
  <1>8. QED
    BY <1>4, <1>7

\* The power switch.
LEMMA PowerLemma ==
  ASSUME NEW d \in Device
  PROVE  /\ PowerOff(d) \in Device /\ PowerOff(d).successful = d.successful
         /\ PowerCycle(d) \in Device /\ PowerCycle(d).successful = d.successful
  <1>1. PowerOff(d) \in Device /\ PowerOff(d).successful = d.successful
    BY DEF PowerOff, Device
  <1>2. Experiment \in Slots
    BY DEF Slots
  <1>3. PowerCycle(d) \in Device /\ PowerCycle(d).successful = d.successful
    BY <1>2, MarkedGoodLemma, BootLemma, BootAsActiveLemma DEF PowerCycle
  <1>4. QED
    BY <1>1, <1>3

\* The serial line: nothing that goes over it changes a slot flag.
LEMMA UartLemma ==
  ASSUME NEW d \in Device, NEW q \in Kernels \cup {None}
  PROVE  /\ UartfsBootstrap(d) \in Device /\ UartfsBootstrap(d).successful = d.successful
         /\ UartfsReboot(d) \in Device /\ UartfsReboot(d).successful = d.successful
         /\ UartfsFlash(d, q) \in Device /\ UartfsFlash(d, q).successful = d.successful
         /\ UartRead(d) \in Device /\ UartRead(d).successful = d.successful
         /\ UartRead(d).active = d.active /\ UartRead(d).booted = d.booted
  <1>1. UartfsBootstrap(d) \in Device /\ UartfsBootstrap(d).successful = d.successful
    BY DEF UartfsBootstrap, Device
  <1>2. UartfsReboot(d) \in Device /\ UartfsReboot(d).successful = d.successful
    BY RebootLemma DEF UartfsReboot
  <1>3. UartfsFlash(d, q) \in Device /\ UartfsFlash(d, q).successful = d.successful
    BY DEF UartfsFlash, Device
  <1>4. /\ UartRead(d) \in Device /\ UartRead(d).successful = d.successful
        /\ UartRead(d).active = d.active /\ UartRead(d).booted = d.booted
    BY DEF UartRead, Device
  <1>5. QED
    BY <1>1, <1>2, <1>3, <1>4

\* A scenario of cli.py is a device that runs its active slot.
LEMMA NewDeviceLemma ==
  ASSUME NEW k \in Knobs
  PROVE  NewDevice(k) \in Device /\ NewDevice(k).booted = NewDevice(k).active
  <1> DEFINE flags == [s \in Slots |-> s = HomeBase /\ ~k.home_unhealthy]
             fresh == [active                  |-> HomeBase,
                       booted                  |-> HomeBase,
                       successful              |-> flags,
                       experiment_boots        |-> k.experiment_boots,
                       pending                 |-> None,
                       experiment_retries      |-> k.experiment_retries,
                       rollback_after          |-> k.rollback_after,
                       unreachable_probes      |-> 0,
                       agent_running           |-> ~k.agent_down,
                       update_marks_successful |-> k.update_marks_successful,
                       power_cycle_recovers    |-> k.power_cycle_recovers,
                       console                 |-> {},
                       unread                  |-> {}]
  <1>1. k \in Knob
    BY KnobsAssumption
  <1>2. flags \in [Slots -> BOOLEAN]
    BY <1>1 DEF Knob
  <1>3. HomeBase \in Slots /\ Experiment \in Slots
    BY DEF Slots
  <1>4. NewDevice(k) = IF k.on_experiment THEN BootAsActive(fresh, Experiment) ELSE fresh
    BY DEF NewDevice
  <1> HIDE DEF flags
  <1>5. (~k.agent_down) \in BOOLEAN
    BY <1>1 DEF Knob
  <1>6. fresh \in Device /\ fresh.booted = fresh.active
    BY <1>1, <1>2, <1>3, <1>5 DEF Knob, Device
  <1> HIDE DEF fresh
  <1>7. QED
    BY <1>3, <1>4, <1>6, BootAsActiveLemma

-----------------------------------------------------------------------------
(***************************************************************************)
(* The device under an arbitrary client.                                   *)
(***************************************************************************)

\* Marking the booted slot successful.
LEMMA MarkBootedLemma ==
  ASSUME NEW d \in Device
  PROVE  MarkBooted(d) \in Device
  <1> DEFINE flags == [d.successful EXCEPT ![d.booted] = TRUE]
  <1>1. CASE d.booted = None
    BY <1>1 DEF MarkBooted
  <1>2. CASE d.booted # None
    <2>1. d.booted \in Slots /\ flags \in [Slots -> BOOLEAN]
      BY <1>2 DEF Device
    <2>2. MarkBooted(d) = [d EXCEPT !.successful = flags]
      BY <1>2 DEF MarkBooted
    <2> HIDE DEF flags
    <2>3. QED
      BY <2>1, <2>2 DEF Device
  <1>3. QED
    BY <1>1, <1>2

\* One step of any client leaves a device a device.
LEMMA DeviceStep ==
  ASSUME dev \in Device, DeviceNext
  PROVE  dev' \in Device
  <1>1. AfterSsh(dev) \in Device
    BY AfterSshLemma
  <1>2. CASE SshStatusOp \/ SshRebootOp
    BY <1>1, <1>2, SshRebootLemma DEF SshStatusOp, SshRebootOp
  <1>3. CASE SshSetActiveOp
    BY <1>1, <1>3 DEF SshSetActiveOp, Device
  <1>4. CASE SshMarkOp
    BY <1>1, <1>4, MarkBootedLemma DEF SshMarkOp
  <1>5. CASE SshUpdateOp
    BY <1>1, <1>5, SshUpdateLemma, FlashSlotLemma DEF SshUpdateOp
  <1>6. CASE UartfsBootstrapOp \/ UartfsRebootOp \/ UartfsFlashOp \/ UartReadOp
    BY <1>6, UartLemma DEF UartfsBootstrapOp, UartfsRebootOp, UartfsFlashOp, UartReadOp
  <1>7. CASE PowerOffOp \/ PowerOnOp
    BY <1>7, PowerLemma DEF PowerOffOp, PowerOnOp
  <1>8. QED
    BY <1>2, <1>3, <1>4, <1>5, <1>6, <1>7 DEF DeviceNext

\* Every field of the simulated device keeps its type, for every scenario.
THEOREM DeviceTypeCorrect == DeviceSpec => []DeviceTypeOK
  <1>1. DeviceInit => DeviceTypeOK
    BY NewDeviceLemma DEF DeviceInit, DeviceTypeOK
  <1>2. DeviceTypeOK /\ [DeviceNext]_dev => DeviceTypeOK'
    BY DeviceStep DEF DeviceTypeOK
  <1>3. QED
    BY <1>1, <1>2, PTL DEF DeviceSpec

\* What the tools and the serial line do to a wedged device: nothing that
\* moves it.
LEMMA WedgeLemma ==
  ASSUME dev \in Device, Wedged(dev), DeviceNext, ~(PowerOffOp \/ PowerOnOp)
  PROVE  Wedged(dev')
  <1>1. /\ ~Reachable(dev) /\ ~ProbesExhausted(dev)
        /\ ~ExperimentUp(dev) /\ ~AgentReachable(dev)
    BY SlotsAssumption DEF Wedged, Reachable, ProbesExhausted, ExperimentUp, AgentReachable
  <1>2. ~SshAnswers(dev) /\ AfterSsh(dev) = dev
    BY <1>1 DEF SshAnswers, AfterSsh, Wedged
  <1>3. CASE SshStatusOp \/ SshRebootOp \/ SshSetActiveOp \/ SshMarkOp \/ SshUpdateOp
    BY <1>2, <1>3 DEF SshStatusOp, SshRebootOp, SshSetActiveOp, SshMarkOp, SshUpdateOp,
                      SshReboot, SshUpdate
  <1>4. CASE UartfsBootstrapOp \/ UartfsRebootOp \/ UartfsFlashOp
    BY <1>1, <1>4 DEF UartfsBootstrapOp, UartfsRebootOp, UartfsFlashOp,
                      UartfsBootstrap, UartfsReboot, UartfsFlash
  <1>5. CASE UartReadOp
    BY <1>5 DEF UartReadOp, UartRead, Wedged, Device
  <1>6. QED
    BY <1>3, <1>4, <1>5 DEF DeviceNext

\* Only the power switch moves a panicked device that does not roll back.
THEOREM WedgeStays == DeviceSpec => WedgeNeedsPower
  <1>1. ASSUME DeviceTypeOK, [DeviceNext]_dev
        PROVE  [Wedged(dev) /\ ~Wedged(dev') => PowerOffOp \/ PowerOnOp]_dev
    BY <1>1, WedgeLemma DEF DeviceTypeOK
  <1>2. QED
    BY <1>1, DeviceTypeCorrect, PTL DEF DeviceSpec, WedgeNeedsPower

\* Flashing clears the home base's flag only on a device whose active slot is
\* the experiment.
LEMMA FlashAnchorLemma ==
  ASSUME NEW d \in Device, NEW slot \in Slots, NEW switch \in BOOLEAN,
         d.successful[HomeBase], ~FlashSlot(d, slot, switch).successful[HomeBase]
  PROVE  d.active = Experiment
  <1>1. slot # d.active
    BY DEF FlashSlot
  <1>2. HomeBase \in Slots
    BY DEF Slots
  <1>3. slot = HomeBase
    BY <1>2, FlashSlotLemma
  <1>4. QED
    BY <1>1, <1>3 DEF Device, Slots

\* Marking a slot successful clears no flag.
LEMMA MarkAnchorLemma ==
  ASSUME NEW d \in Device, d.successful[HomeBase]
  PROVE  MarkBooted(d).successful[HomeBase]
  <1>1. HomeBase \in Slots
    BY DEF Slots
  <1>2. QED
    BY <1>1 DEF MarkBooted, Device

\* A client can clear the home base's flag only with the experiment active.
LEMMA AnchorLemma ==
  ASSUME dev \in Device, DeviceNext, dev.successful[HomeBase], ~dev'.successful[HomeBase]
  PROVE  dev.active = Experiment
  <1> DEFINE e == AfterSsh(dev)
  <1>1. /\ e \in Device /\ e.successful = dev.successful
        /\ e.active = Experiment => dev.active = Experiment
    BY AfterSshLemma, SlotsAssumption DEF MarkedGood
  <1>2. CASE SshStatusOp \/ SshRebootOp
    BY <1>1, <1>2, SshRebootLemma DEF SshStatusOp, SshRebootOp
  <1>3. CASE SshSetActiveOp
    BY <1>1, <1>3 DEF SshSetActiveOp, Device
  <1>4. CASE SshMarkOp
    BY <1>1, <1>4, MarkAnchorLemma DEF SshMarkOp
  <1>5. CASE SshUpdateOp
    <2>1. UpdateTarget(e) \in Slots
      BY DEF UpdateTarget, Slots
    <2>2. \/ dev' = e
          \/ \E slot \in Slots, switch \in BOOLEAN : dev' = FlashSlot(e, slot, switch)
      BY <1>5, <2>1 DEF SshUpdateOp, SshUpdate
    <2>3. QED
      BY <1>1, <2>2, FlashAnchorLemma
  <1>6. CASE UartfsBootstrapOp \/ UartfsRebootOp \/ UartfsFlashOp \/ UartReadOp
    BY <1>6, UartLemma DEF UartfsBootstrapOp, UartfsRebootOp, UartfsFlashOp, UartReadOp
  <1>7. CASE PowerOffOp \/ PowerOnOp
    BY <1>7, PowerLemma DEF PowerOffOp, PowerOnOp
  <1>8. QED
    BY <1>2, <1>3, <1>4, <1>5, <1>6, <1>7 DEF DeviceNext

\* The home base's flag is safe while the home base is the active slot.
THEOREM AnchorSafe == DeviceSpec => AnchorSafeWhileActive
  <1>1. ASSUME DeviceTypeOK, [DeviceNext]_dev
        PROVE  [dev.successful[HomeBase] /\ ~dev'.successful[HomeBase]
                  => dev.active = Experiment]_dev
    BY <1>1, AnchorLemma DEF DeviceTypeOK
  <1>2. QED
    BY <1>1, DeviceTypeCorrect, PTL DEF DeviceSpec, AnchorSafeWhileActive

\* A fallback to a slot marked good is a fallback to the home base, as long as
\* that is marked successful; so is a cold boot that does not find a proven
\* experiment active.
LEMMA FallbackLemma ==
  ASSUME NEW d \in Device, d.successful[HomeBase], ~d.successful[Experiment]
  PROVE  MarkedGood(d) = HomeBase /\ ColdBootSlot(d) = HomeBase
  BY DEF MarkedGood, ColdBootSlot, Device, Slots

\* With the home base active and marked successful, a client makes the
\* experiment active only by an update or by switching the slots.
LEMMA SwitchLemma ==
  ASSUME dev \in Device, DeviceNext, dev.successful[HomeBase], ~dev.successful[Experiment],
         dev.active = HomeBase, dev'.active = Experiment
  PROVE  SshUpdateOp \/ SshSetActiveOp
  <1> DEFINE e == AfterSsh(dev)
  <1>1. /\ e \in Device /\ e.active = HomeBase
        /\ MarkedGood(dev) = HomeBase /\ MarkedGood(e) = HomeBase
    BY AfterSshLemma, FallbackLemma
  <1>2. CASE SshStatusOp \/ SshRebootOp
    BY <1>1, <1>2, RebootLemma, SlotsAssumption DEF SshStatusOp, SshRebootOp, SshReboot
  <1>3. CASE SshMarkOp
    <2>1. MarkBooted(e).active = e.active
      BY <1>1 DEF MarkBooted, Device
    <2>2. QED
      BY <1>1, <1>3, <2>1, SlotsAssumption DEF SshMarkOp
  <1>4. CASE UartfsBootstrapOp \/ UartfsFlashOp \/ UartReadOp
    BY <1>4, SlotsAssumption
       DEF UartfsBootstrapOp, UartfsFlashOp, UartReadOp,
           UartfsBootstrap, UartfsFlash, UartRead, Device
  <1>5. CASE UartfsRebootOp
    BY <1>1, <1>5, RebootLemma, SlotsAssumption DEF UartfsRebootOp, UartfsReboot
  <1>6. CASE PowerOffOp
    BY <1>6, SlotsAssumption DEF PowerOffOp, PowerOff, Device
  <1>7. CASE PowerOnOp
    <2>1. Experiment \in Slots /\ HomeBase \in Slots
      BY DEF Slots
    <2>2. PowerCycle(dev).active = HomeBase
      <3>1. ColdBootSlot(dev) = HomeBase
        BY FallbackLemma
      <3>2. BootAsActive(dev, HomeBase).active = HomeBase
        BY <2>1, BootAsActiveLemma
      <3>3. Boot(dev, Experiment).active = HomeBase
        BY <2>1, BootLemma
      <3>4. QED
        BY <3>1, <3>2, <3>3 DEF PowerCycle
    <2>3. QED
      BY <1>7, <2>2, SlotsAssumption DEF PowerOnOp
  <1>8. QED
    BY <1>2, <1>3, <1>4, <1>5, <1>6, <1>7 DEF DeviceNext

\* A rollback, and a reboot of an experiment that has no retry left, end on a
\* home base that is marked successful.
LEMMA ExhaustedLemma ==
  ASSUME NEW d \in Device, d.successful[HomeBase], ~d.successful[Experiment]
  PROVE  /\ Rollback(d).booted = HomeBase /\ Rollback(d).active = HomeBase
         /\ OutOfRetries(d) => Reboot(d) = Rollback(d)
         /\ OutOfProbes(d) => SshAnswers(d) /\ AfterSsh(d) = Rollback(d)
         /\ PowerCycle(d) = IF d.power_cycle_recovers THEN BootAsActive(d, HomeBase)
                            ELSE Boot(d, Experiment)
  <1>1. Rollback(d).booted = HomeBase /\ Rollback(d).active = HomeBase
    BY FallbackLemma, RollbackLemma
  <1>2. OutOfRetries(d) => Reboot(d) = Rollback(d)
    BY NoneAssumption DEF OutOfRetries, Reboot
  <1>3. OutOfProbes(d) => SshAnswers(d) /\ AfterSsh(d) = Rollback(d)
    BY DEF OutOfProbes, SshAnswers, AfterSsh
  <1>4. PowerCycle(d) = IF d.power_cycle_recovers THEN BootAsActive(d, HomeBase)
                        ELSE Boot(d, Experiment)
    BY FallbackLemma DEF PowerCycle
  <1>5. QED
    BY <1>1, <1>2, <1>3, <1>4

\* A device that has the home base active reboots into it.
LEMMA RebootHomeLemma ==
  ASSUME NEW d \in Device, d.active = HomeBase
  PROVE  Reboot(d).booted = HomeBase /\ Reboot(d).active = HomeBase
  <1>1. HomeBase \in Slots
    BY DEF Slots
  <1>2. Reboot(d) = Boot(d, HomeBase)
    BY SlotsAssumption DEF Reboot
  <1>3. QED
    BY <1>1, <1>2, BootLemma

\* Every fallback ends on the home base, booted and active.
LEMMA FallsBackLemma ==
  ASSUME dev \in Device, dev.successful[HomeBase], ~dev.successful[Experiment], FallsBack
  PROVE  dev'.booted = HomeBase /\ dev'.active = HomeBase
  <1> DEFINE r == Rollback(dev)
  <1>1. r \in Device /\ r.booted = HomeBase /\ r.active = HomeBase /\ r.successful = dev.successful
    BY RollbackLemma, ExhaustedLemma
  <1>2. CASE OutOfRetries(dev) /\ Reachable(dev) /\ SshRebootOp
    BY <1>1, <1>2, AfterSshLemma, ExhaustedLemma DEF SshRebootOp, SshReboot
  <1>3. CASE OutOfRetries(dev) /\ AgentReachable(dev) /\ UartfsRebootOp
    BY <1>1, <1>3, ExhaustedLemma DEF UartfsRebootOp, UartfsReboot
  <1>4. CASE OutOfProbes(dev) /\ (SshStatusOp \/ SshRebootOp \/ SshMarkOp)
    <2>1. SshAnswers(dev) /\ AfterSsh(dev) = r
      BY <1>4, ExhaustedLemma
    <2> HIDE DEF r
    <2>2. CASE SshStatusOp
      BY <1>1, <2>1, <2>2 DEF SshStatusOp
    <2>3. CASE SshRebootOp
      BY <1>1, <2>1, <2>3, RebootHomeLemma DEF SshRebootOp, SshReboot
    <2>4. CASE SshMarkOp
      <3>1. MarkBooted(r).booted = r.booted /\ MarkBooted(r).active = r.active
        BY <1>1 DEF MarkBooted, Device
      <3>2. QED
        BY <1>1, <2>1, <2>4, <3>1 DEF SshMarkOp
    <2>5. QED
      BY <1>4, <2>2, <2>3, <2>4
  <1>5. CASE dev.power_cycle_recovers /\ PowerOnOp
    <2>1. HomeBase \in Slots
      BY DEF Slots
    <2>2. QED
      BY <1>5, <2>1, ExhaustedLemma, BootAsActiveLemma DEF PowerOnOp
  <1>6. QED
    BY <1>2, <1>3, <1>4, <1>5 DEF FallsBack

\* What a reboot lands in, other than the experiment that was active with a
\* retry left.
LEMMA RebootLandsLemma ==
  ASSUME NEW d \in Device, d.successful[HomeBase], ~d.successful[Experiment],
         Reboot(d).booted = Experiment
  PROVE  d.active = Experiment /\ ~OutOfRetries(d)
  <1>1. CASE d.active = HomeBase
    BY <1>1, RebootHomeLemma, SlotsAssumption
  <1>2. CASE OutOfRetries(d)
    BY <1>2, ExhaustedLemma, SlotsAssumption
  <1>3. QED
    BY <1>1, <1>2 DEF Device, Slots

\* No other step boots an experiment that is not booted.
LEMMA LandsLemma ==
  ASSUME dev \in Device, DeviceNext, dev.successful[HomeBase], ~dev.successful[Experiment],
         dev.booted # Experiment, dev'.booted = Experiment
  PROVE  \/ dev.active = Experiment /\ ~OutOfRetries(dev)
         \/ PowerOnOp /\ ~dev.power_cycle_recovers
  <1> DEFINE e == AfterSsh(dev)
  <1>1. e \in Device /\ e.successful = dev.successful
    BY AfterSshLemma
  <1>2. e.booted # Experiment
    <2>1. CASE SshAnswers(dev)
      BY <2>1, AfterSshLemma, SlotsAssumption
    <2>2. CASE ~SshAnswers(dev)
      BY <2>2 DEF AfterSsh, SshAnswers, Device
    <2>3. QED
      BY <2>1, <2>2
  <1>3. SshAnswers(dev) => e = dev \/ e.active = HomeBase
    BY ExhaustedLemma DEF SshAnswers, AfterSsh, OutOfProbes
  <1> HIDE DEF e
  <1>4. CASE SshStatusOp
    BY <1>2, <1>4 DEF SshStatusOp, e
  <1>5. CASE SshRebootOp
    <2>1. dev' = IF SshAnswers(dev) THEN Reboot(e) ELSE e
      BY <1>5 DEF SshRebootOp, SshReboot, e
    <2>2. SshAnswers(dev) /\ Reboot(e).booted = Experiment
      BY <1>2, <2>1
    <2>3. e.active = Experiment /\ ~OutOfRetries(e)
      BY <1>1, <2>2, RebootLandsLemma
    <2>4. QED
      BY <1>3, <2>2, <2>3, SlotsAssumption
  <1>6. CASE SshSetActiveOp \/ SshMarkOp
    <2>1. \A slot \in Slots : [e EXCEPT !.active = slot].booted = e.booted
      BY <1>1 DEF Device
    <2>2. MarkBooted(e).booted = e.booted
      BY <1>1 DEF MarkBooted, Device
    <2>3. QED
      BY <1>2, <1>6, <2>1, <2>2 DEF SshSetActiveOp, SshMarkOp, e
  <1>7. CASE SshUpdateOp
    <2>1. UpdateTarget(e) \in Slots
      BY DEF UpdateTarget, Slots
    <2>2. \/ dev' = e
          \/ \E slot \in Slots, switch \in BOOLEAN : dev' = FlashSlot(e, slot, switch)
      BY <1>7, <2>1 DEF SshUpdateOp, SshUpdate, e
    <2>3. QED
      BY <1>1, <1>2, <2>2, FlashSlotLemma
  <1>8. CASE UartfsBootstrapOp \/ UartfsRebootOp \/ UartfsFlashOp \/ UartReadOp
    <2>1. ~ExperimentUp(dev) /\ ~AgentReachable(dev)
      BY DEF ExperimentUp, AgentReachable
    <2>2. dev' = dev \/ dev' = UartRead(dev)
      BY <1>8, <2>1 DEF UartfsBootstrapOp, UartfsRebootOp, UartfsFlashOp, UartReadOp,
                        UartfsBootstrap, UartfsReboot, UartfsFlash
    <2>3. QED
      BY <2>2 DEF UartRead, Device
  <1>9. CASE PowerOffOp
    BY <1>9, SlotsAssumption, NoneAssumption DEF PowerOffOp, PowerOff, Device, Slots
  <1>10. CASE PowerOnOp
    <2>1. HomeBase \in Slots
      BY DEF Slots
    <2>2. dev.power_cycle_recovers => PowerCycle(dev).booted = HomeBase
      BY <2>1, ExhaustedLemma, BootAsActiveLemma
    <2>3. QED
      BY <1>10, <2>2, SlotsAssumption DEF PowerOnOp
  <1>11. QED
    BY <1>4, <1>5, <1>6, <1>7, <1>8, <1>9, <1>10 DEF DeviceNext

\* Whatever the client does, what a proven device falls back to is the home
\* base, and an unproven experiment is booted only where it was given a boot.
THEOREM ProvenPreferred == DeviceSpec => UnprovenNeverChosen
  <1>1. ASSUME DeviceTypeOK, [DeviceNext]_dev
        PROVE  [dev.successful[HomeBase] /\ ~dev.successful[Experiment]
                  => /\ FallsBack => dev'.booted = HomeBase /\ dev'.active = HomeBase
                     /\ dev.booted # Experiment /\ dev'.booted = Experiment
                          => \/ dev.active = Experiment /\ ~OutOfRetries(dev)
                             \/ PowerOnOp /\ ~dev.power_cycle_recovers
                     /\ dev.active = HomeBase /\ dev'.active = Experiment
                          => SshUpdateOp \/ SshSetActiveOp]_dev
    BY <1>1, FallsBackLemma, LandsLemma, SwitchLemma DEF DeviceTypeOK
  <1>2. QED
    BY <1>1, DeviceTypeCorrect, PTL DEF DeviceSpec, UnprovenNeverChosen
=============================================================================
