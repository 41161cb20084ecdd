------------------------- MODULE OrchestratorProofs -------------------------
(***************************************************************************)
(* The safety properties of Orchestrator, for every configuration,         *)
(* scenario, set of faults and bound.                                      *)
(***************************************************************************)
EXTENDS Orchestrator, FakeDeviceProofs

\* What a call over a link may have come to: a positive answer is a true one,
\* and whatever the answer the device did all of it or nothing.
LEMMA AnswersLemma ==
  ASSUME NEW link, NEW ok \in BOOLEAN, NEW after, NEW a \in Answers(link, ok, after)
  PROVE  a.dev \in {dev, after} /\ (a.ok => ok /\ a.dev = after)
  BY DEF Answers

\* What a slot status tells: it never changes a flag; an answer from a device
\* whose home base is successful comes from the home base itself; and a device
\* on the home base is not disturbed by being asked.
LEMMA StatusLemma ==
  ASSUME dev \in Device, NEW st \in StatusAnswers
  PROVE  /\ st.dev \in Device
         /\ st.dev.successful = dev.successful
         /\ dev.booted = HomeBase => st.dev = dev
         /\ st.ok /\ dev.successful[HomeBase] => st.dev.booted = HomeBase
  <1>1. SshAnswers(dev) \in BOOLEAN
    BY DEF SshAnswers, Reachable, ProbesExhausted
  <1>2. st.dev \in {dev, AfterSsh(dev)} /\ (st.ok => SshAnswers(dev) /\ st.dev = AfterSsh(dev))
    BY <1>1, AnswersLemma DEF StatusAnswers
  <1>3. QED
    BY <1>2, AfterSshLemma DEF Reachable

\* A reboot ordered by the host, over either link, leaves a device whose slot
\* flags are what they were.
LEMMA HostRebootLemma ==
  ASSUME dev \in Device, NEW d, d \in RebootExperiment \cup RebootViaSsh
  PROVE  d \in Device /\ d.successful = dev.successful
  <1>1. None \in Kernels \cup {None}
    OBVIOUS
  <1>2. d \in {dev, UartfsReboot(dev), SshReboot(dev)}
    BY DEF RebootExperiment, RebootViaSsh, Answers
  <1>3. QED
    BY <1>1, <1>2, UartLemma, SshRebootLemma

\* A turn of the switch is obeyed or not; either way it leaves the slot flags.
LEMMA SwitchAnswersLemma ==
  ASSUME NEW afters, NEW a, a \in SwitchAnswers(afters)
  PROVE  a.dev \in {dev} \cup afters
  BY DEF SwitchAnswers

LEMMA RelayLemma ==
  ASSUME NEW a, a \in SwitchOff \cup SwitchOn
  PROVE  a.dev \in {dev, PowerOff(dev), PowerCycle(dev)}
  <1>1. CASE a \in SwitchOff
    BY <1>1, SwitchAnswersLemma DEF SwitchOff
  <1>2. CASE a \in SwitchOn
    BY <1>2, SwitchAnswersLemma DEF SwitchOn
  <1>3. QED
    BY <1>1, <1>2

-----------------------------------------------------------------------------
(***************************************************************************)
(* The device under the host.                                              *)
(***************************************************************************)

\* Every step but the update keeps the slot flags.
LEMMA FlagsKept ==
  ASSUME dev \in Device, Next, pc # "update"
  PROVE  dev' \in Device /\ dev'.successful = dev.successful
  <1>1. CASE \/ CmdStage \/ CmdBootExperiment \/ CmdRecover \/ CmdIterate \/ NewProcess
             \/ Ping \/ WaitForBanner \/ PeekConsole \/ Recover
    BY <1>1 DEF CmdStage, CmdBootExperiment, CmdRecover, CmdIterate, NewProcess, Begin,
                Ping, WaitForBanner, PeekConsole, Recover
  <1>2. CASE \/ CmdStatus \/ VerifyHomeBase \/ AssertArmed \/ GuardReboot
             \/ ProbeHomeBase \/ WaitForHomeBase
    BY <1>2, StatusLemma
       DEF CmdStatus, VerifyHomeBase, AssertArmed, GuardReboot, ProbeHomeBase, WaitForHomeBase
  <1>3. CASE CmdPower \/ CycleOff \/ CycleOn
    <2>1. dev' = dev \/ \E a \in SwitchOff \cup SwitchOn : dev' = a.dev
      BY <1>3 DEF CmdPower, CycleOff, CycleOn
    <2>2. dev' \in {dev, PowerOff(dev), PowerCycle(dev)}
      BY <2>1, RelayLemma
    <2>3. QED
      BY <2>2, PowerLemma
  <1>4. CASE PushImages
    <2>1. dev' \in {dev, AfterSsh(dev)}
      BY <1>4, AnswersLemma DEF PushImages
    <2>2. QED
      BY <2>1, AfterSshLemma
  <1>5. CASE Bootstrap
    <2>1. dev' \in {dev, UartfsBootstrap(dev)}
      BY <1>5 DEF Bootstrap, Answers
    <2>2. None \in Kernels \cup {None}
      OBVIOUS
    <2>3. QED
      BY <2>1, <2>2, UartLemma
  <1>6. CASE Flash
    <2>1. PICK quality \in Kernels \cup {None} :
            \E a \in Answers("uartfs", AgentReachable(dev), UartfsFlash(dev, quality)) :
              dev' = a.dev
      BY <1>6 DEF Flash
    <2>2. AgentReachable(dev) \in BOOLEAN
      BY DEF AgentReachable, ExperimentUp, Device
    <2>3. dev' \in {dev, UartfsFlash(dev, quality)}
      BY <2>1, <2>2, AnswersLemma
    <2>4. QED
      BY <2>3, UartLemma
  <1>7. CASE Drain
    <2>1. dev' \in {dev, UartRead(dev)}
      BY <1>7 DEF Drain, Answers
    <2>2. None \in Kernels \cup {None}
      OBVIOUS
    <2>3. QED
      BY <2>1, <2>2, UartLemma
  <1>8. CASE RebootToExperiment \/ BurnRetry
    <2>1. dev' \in RebootExperiment \cup RebootViaSsh
      BY <1>8 DEF RebootToExperiment, BurnRetry
    <2>2. QED
      BY <2>1, HostRebootLemma
  <1>9. CASE BootloaderRetry
    BY <1>9, RebootLemma DEF BootloaderRetry
  <1>10. CASE Update
    BY <1>10 DEF Update
  <1>11. QED
    BY <1>1, <1>2, <1>3, <1>4, <1>5, <1>6, <1>7, <1>8, <1>9, <1>10
       DEF Next, Command, HostStep

\* The update, on a device that runs and has active the home base.
LEMMA UpdateStep ==
  ASSUME dev \in Device, Update
  PROVE  /\ dev' \in Device
         /\ dev.booted = HomeBase /\ dev.active = HomeBase =>
              /\ dev'.successful[HomeBase] = dev.successful[HomeBase]
              /\ dev'.booted = HomeBase
  <1>1. SshAnswers(dev) \in BOOLEAN
    BY DEF SshAnswers, Reachable, ProbesExhausted
  <1>2. dev' \in {dev, SshUpdate(dev)}
    BY <1>1, AnswersLemma DEF Update
  <1>3. QED
    BY <1>2, SshUpdateLemma

\* At "update" the only step of the host is the update.
LEMMA UpdateOnly ==
  ASSUME pc = "update", Next
  PROVE  Update \/ BootloaderRetry \/ NewProcess
  BY DEF Next, Command, HostStep, CmdStatus, CmdStage, CmdBootExperiment, CmdIterate,
         CmdRecover, CmdPower, Begin, Start, VerifyHomeBase, PushImages,
         AssertArmed, Ping, Bootstrap, Flash, GuardReboot, Drain, RebootToExperiment,
         WaitForBanner, PeekConsole, Recover, ProbeHomeBase, BurnRetry,
         WaitForHomeBase, CycleOff, CycleOn

\* What a host knows of a device that it shares with somebody else: with the
\* home base active and marked successful, no step but the update changes that.
LEMMA HomeStays ==
  ASSUME dev \in Device, Next, pc # "update",
         dev.active = HomeBase, dev.successful[HomeBase]
  PROVE  dev'.active = HomeBase
  <1> DEFINE e == AfterSsh(dev)
  <1>1. MarkedGood(dev) = HomeBase /\ ColdBootSlot(dev) = HomeBase
    BY DEF MarkedGood, ColdBootSlot
  <1>2. e \in Device /\ e.active = HomeBase /\ MarkedGood(e) = HomeBase
    BY <1>1, AfterSshLemma DEF MarkedGood
  <1>3. HomeBase \in Slots /\ Experiment \in Slots
    BY DEF Slots
  <1>4. Reboot(dev).active = HomeBase /\ Reboot(e).active = HomeBase
    BY <1>1, <1>2, RebootLemma
  <1> HIDE DEF e
  <1>5. CASE \/ CmdStage \/ CmdBootExperiment \/ CmdRecover \/ CmdIterate \/ NewProcess
             \/ Ping \/ WaitForBanner \/ PeekConsole \/ Recover
    BY <1>5 DEF CmdStage, CmdBootExperiment, CmdRecover, CmdIterate, NewProcess, Begin,
                Ping, WaitForBanner, PeekConsole, Recover
  <1>6. CASE \/ CmdStatus \/ VerifyHomeBase \/ AssertArmed \/ GuardReboot
             \/ ProbeHomeBase \/ WaitForHomeBase
    <2>1. \E st \in StatusAnswers : dev' = st.dev
      BY <1>6 DEF CmdStatus, VerifyHomeBase, AssertArmed, GuardReboot, ProbeHomeBase,
                  WaitForHomeBase
    <2>2. dev' \in {dev, e}
      BY <2>1 DEF StatusAnswers, Answers, e
    <2>3. QED
      BY <1>2, <2>2
  <1>7. CASE CmdPower \/ CycleOff \/ CycleOn
    <2>1. dev' = dev \/ \E a \in SwitchOff \cup SwitchOn : dev' = a.dev
      BY <1>7 DEF CmdPower, CycleOff, CycleOn
    <2>2. dev' \in {dev, PowerOff(dev), PowerCycle(dev)}
      BY <2>1, RelayLemma
    <2>3. PowerOff(dev).active = HomeBase
      BY DEF PowerOff, Device
    <2>4. PowerCycle(dev).active = HomeBase
      BY <1>1, <1>3, BootAsActiveLemma, BootLemma DEF PowerCycle
    <2>5. QED
      BY <2>2, <2>3, <2>4
  <1>8. CASE PushImages
    BY <1>2, <1>8 DEF PushImages, Answers, e
  <1>9. CASE Bootstrap \/ Flash \/ Drain
    <2>1. \/ dev' \in {dev, UartfsBootstrap(dev), UartRead(dev)}
          \/ \E q \in Kernels \cup {None} : dev' \in {dev, UartfsFlash(dev, q)}
      BY <1>9 DEF Bootstrap, Flash, Drain, Answers
    <2>2. QED
      BY <2>1 DEF UartfsBootstrap, UartfsFlash, UartRead, Device
  <1>10. CASE RebootToExperiment \/ BurnRetry
    <2>1. dev' \in RebootExperiment \cup RebootViaSsh
      BY <1>10 DEF RebootToExperiment, BurnRetry
    <2>2. dev' \in {dev, UartfsReboot(dev), SshReboot(dev)}
      BY <2>1 DEF RebootExperiment, RebootViaSsh, Answers
    <2>3. dev' \in {dev, e, Reboot(dev), Reboot(e)}
      BY <2>2 DEF UartfsReboot, SshReboot, e
    <2>4. QED
      BY <1>2, <1>4, <2>3
  <1>11. CASE BootloaderRetry
    BY <1>4, <1>11 DEF BootloaderRetry
  <1>12. CASE Update
    BY <1>12 DEF Update
  <1>13. QED
    BY <1>5, <1>6, <1>7, <1>8, <1>9, <1>10, <1>11, <1>12 DEF Next, Command, HostStep

\* The update, wherever the device is: with the home base active it is the
\* other slot that is flashed.
LEMMA UpdateSpares ==
  ASSUME dev \in Device, Update, dev.active = HomeBase, dev.successful[HomeBase]
  PROVE  dev' \in Device /\ dev'.successful[HomeBase]
  <1> DEFINE e == AfterSsh(dev)
  <1>1. /\ e \in Device /\ e.active = HomeBase /\ e.successful[HomeBase]
    BY AfterSshLemma DEF MarkedGood
  <1>2. dev' \in {dev, SshUpdate(dev)}
    BY DEF Update, Answers
  <1>3. SshUpdate(dev) \in {e, FlashSlot(e, Experiment, TRUE)}
    BY <1>1 DEF SshUpdate, UpdateTarget
  <1>4. Experiment \in Slots /\ HomeBase \in Slots \ {Experiment}
    BY SlotsAssumption DEF Slots
  <1> HIDE DEF e
  <1>5. FlashSlot(e, Experiment, TRUE) \in Device
        /\ FlashSlot(e, Experiment, TRUE).successful[HomeBase]
    <2>1. FlashSlot(e, Experiment, TRUE) \in Device
      BY <1>1, <1>4, FlashSlotLemma
    <2>2. \A s \in Slots \ {Experiment} :
            FlashSlot(e, Experiment, TRUE).successful[s] = e.successful[s]
      BY <1>1, <1>4, FlashSlotLemma, Zenon
    <2>3. QED
      BY <1>1, <1>4, <2>1, <2>2
  <1>6. QED
    BY <1>1, <1>2, <1>3, <1>5

\* Only a verified home base leads to an update.
LEMMA UpdateVerified ==
  ASSUME dev \in Device, Next, pc' \in {"push", "update"}, pc \notin {"push", "update"}
  PROVE  dev'.active = HomeBase /\ dev'.successful[HomeBase]
  <1>1. VerifyHomeBase
    BY DEF Next, Command, HostStep, CmdStatus, CmdStage, CmdBootExperiment, CmdIterate,
           CmdRecover, CmdPower, NewProcess, Begin, Start, PushImages, Update,
           AssertArmed, Ping, Bootstrap, Flash, GuardReboot, Drain, RebootToExperiment,
           WaitForBanner, PeekConsole, Classified, Recover, RecoverDispatch, ProbeHomeBase,
           BurnRetry, WaitForHomeBase, CycleOff, CycleOn, CycleReturned, BootloaderRetry,
           Goto, Finish
  <1>2. QED
    BY <1>1, StatusLemma DEF VerifyHomeBase, HomeBaseVerified, Goto, Finish

LEMMA DeviceKept ==
  ASSUME dev \in Device, Next
  PROVE  dev' \in Device
  BY FlagsKept, UpdateOnly, UpdateStep, RebootLemma DEF BootloaderRetry, NewProcess

\* A host says that a recovery succeeded of a device that it has just seen
\* answer with the home base active and proven, and nothing else can answer.
LEMMA SaidStep ==
  ASSUME dev \in Device, Next,
         result' # result, result' \in {"rolled-back", "wedged-recovered"}
  PROVE  AnchorUp(dev')
  <1>1. ProbeHomeBase \/ WaitForHomeBase
    BY DEF Next, Command, HostStep, CmdStatus, CmdStage, CmdBootExperiment, CmdIterate,
           CmdRecover, CmdPower, NewProcess, Begin, Start, VerifyHomeBase, PushImages, Update,
           AssertArmed, Ping, Bootstrap, Flash, GuardReboot, Drain, RebootToExperiment,
           WaitForBanner, PeekConsole, Classified, Recover, RecoverDispatch, BurnRetry,
           CycleOff, CycleOn, CycleReturned, BootloaderRetry, Goto, Finish
  <1>2. QED
    BY <1>1, StatusLemma DEF ProbeHomeBase, WaitForHomeBase, HomeBaseUp, AnchorUp, Goto, Finish

-----------------------------------------------------------------------------
(***************************************************************************)
(* Type correctness.  Two counters are decremented, each behind a guard    *)
(* that an earlier step checked.                                           *)
(***************************************************************************)

Typed ==
  /\ TypeOK
  /\ pc = "burn" => tries > 0
  /\ pc \in {"ping", "bootstrap", "reping", "flash"} => images > 0

\* The fields of a configuration that are numbers.
LEMMA ConfigLemma ==
  ASSUME cfg \in Configs
  PROVE  /\ cfg.rollback_reboots \in Int /\ cfg.reboot_budget \in Int
         /\ RollbackPasses \in Nat
         /\ cfg.rollback_reboots >= 0 => RollbackPasses = cfg.rollback_reboots
         /\ cfg.rollback_wait \in Nat /\ cfg.power_cycle_wait \in Nat
         /\ cfg.power \in Backends
         /\ cfg.rollback_via \in {"retry-exhaustion", "power", "fastboot", "unknown"}
  BY ConfigsAssumption DEF Config, RollbackPasses

LEMMA TypedStep ==
  ASSUME Typed, [Next]_vars
  PROVE  Typed'
  <1> USE DEF Typed, TypeOK, DeviceTypeOK, process, locals, Goto, Finish
  <1>1. CASE UNCHANGED vars
    BY <1>1 DEF vars
  <1>2. ASSUME Next
        PROVE  dev' \in Device
    BY <1>2, DeviceKept
  <1> HIDE DEF DeviceTypeOK
  <1>3. CASE CmdStatus \/ CmdStage \/ CmdBootExperiment \/ CmdRecover \/ CmdPower \/ NewProcess
    BY <1>2, <1>3, BoundsAssumption
       DEF CmdStatus, CmdStage, CmdBootExperiment, CmdRecover, CmdPower, NewProcess, Begin, Start,
           Steps, Commands, Results, Classifications, DeviceTypeOK, Next, Command
  <1>4. CASE CmdIterate
    BY <1>2, <1>4, BoundsAssumption
       DEF CmdIterate, Start, Steps, Commands, Results, Classifications, DeviceTypeOK, Next, Command
  <1>5. CASE VerifyHomeBase \/ PushImages \/ Update \/ AssertArmed \/ GuardReboot \/ Drain
    BY <1>2, <1>5
       DEF VerifyHomeBase, PushImages, Update, AssertArmed, GuardReboot, Drain,
           Steps, Results, DeviceTypeOK, Next, HostStep
  <1>6. CASE Ping \/ Bootstrap \/ Flash
    <2>1. CASE Ping \/ Bootstrap
      BY <1>2, <2>1 DEF Ping, Bootstrap, Steps, Results, DeviceTypeOK, Next, HostStep
    <2>2. CASE Flash
      <3>1. images' \in {images, images - 1} /\ images > 0
        BY <2>2 DEF Flash
      <3>2. images' \in 0..MaxImages
        BY <3>1, BoundsAssumption
      <3>3. pc' = "flash" => images' > 0
        BY <2>2, BoundsAssumption DEF Flash
      <3>4. QED
        BY <1>2, <2>2, <3>2, <3>3 DEF Flash, Steps, Results, DeviceTypeOK, Next, HostStep
    <2>3. QED
      BY <1>6, <2>1, <2>2
  <1>7. CASE RebootToExperiment
    BY <1>2, <1>7 DEF RebootToExperiment, Steps, DeviceTypeOK, Next, HostStep
  <1>8. CASE WaitForBanner \/ PeekConsole
    BY <1>2, <1>8
       DEF WaitForBanner, PeekConsole, Classified, Steps, Results, Classifications,
           DeviceTypeOK, Next, HostStep
  <1>9. CASE Recover
    BY <1>2, <1>9, ConfigLemma
       DEF Recover, RecoverDispatch, Steps, Results, DeviceTypeOK, Next, HostStep
  <1>10. CASE ProbeHomeBase \/ BurnRetry
    BY <1>2, <1>10 DEF ProbeHomeBase, BurnRetry, Steps, Results, DeviceTypeOK, Next, HostStep
  <1>11. CASE WaitForHomeBase
    BY <1>2, <1>11, TimesAssumption
       DEF WaitForHomeBase, Steps, Results, DeviceTypeOK, Next, HostStep
  <1>12. CASE CycleOff \/ CycleOn
    BY <1>2, <1>12, ConfigLemma
       DEF CycleOff, CycleOn, CycleReturned, Steps, Results, DeviceTypeOK, Next, HostStep
  <1>13. CASE BootloaderRetry
    BY <1>2, <1>13 DEF BootloaderRetry, DeviceTypeOK, Next
  <1>14. QED
    BY <1>1, <1>3, <1>4, <1>5, <1>6, <1>7, <1>8, <1>9, <1>10, <1>11, <1>12, <1>13
       DEF Next, Command, HostStep

LEMMA TypedInit == Init => Typed
  <1>1. Init => dev \in Device
    BY NewDeviceLemma DEF Init, DeviceInit
  <1>2. QED
    BY <1>1, BoundsAssumption
       DEF Init, Typed, TypeOK, DeviceTypeOK, Steps, Commands, Results, Classifications

\* Every variable keeps its type, the two loops' counters included.
THEOREM TypeCorrect == Spec => []TypeOK
  <1>1. Typed => TypeOK
    BY DEF Typed
  <1>2. QED
    BY <1>1, TypedInit, TypedStep, PTL DEF Spec

-----------------------------------------------------------------------------
(***************************************************************************)
(* Which command may be at which step, and under which configuration.      *)
(***************************************************************************)

Flow ==
  /\ pc # "idle" => result = "none"
  /\ pc \in {"verify", "push", "update", "assert_armed"} =>
       cmd = "stage" \/ (cmd = "iterate" /\ ~InPlace)
  /\ pc = "guard" => cmd = "boot-experiment" \/ (cmd = "iterate" /\ ~InPlace)
  /\ pc \in {"ping", "bootstrap", "reping", "flash"} => InPlace
  /\ pc \in {"drain", "reboot", "wait", "peek"} => cmd \in {"boot-experiment", "iterate"}
  /\ pc \in {"probe", "burn"} => cfg.rollback_via = "retry-exhaustion"
  /\ pc \in {"rollback_wait", "power_wait"} => cfg.rollback_via = "power"
  /\ pc \in {"cycle", "cycle_on"} => cmd = "power" \/ cfg.rollback_via = "power"
  /\ pc \in {"wait", "peek", "recover", "probe", "burn", "rollback_wait", "power_wait"} =>
       cmd # "power"
  /\ pc \in {"cycle", "cycle_on", "power_wait"} => PowerEnabled

LEMMA FlowStep ==
  ASSUME Flow, [Next]_vars
  PROVE  Flow'
  <1> USE DEF Flow, InPlace, PowerEnabled, process, locals, Goto, Finish
  <1>1. CASE UNCHANGED vars
    BY <1>1 DEF vars
  <1>2. CASE CmdStatus \/ CmdStage \/ CmdBootExperiment \/ CmdRecover \/ CmdPower \/ NewProcess
    BY <1>2 DEF CmdStatus, CmdStage, CmdBootExperiment, CmdRecover, CmdPower, NewProcess,
                Begin, Start
  <1>3. CASE CmdIterate
    BY <1>3 DEF CmdIterate, Start
  <1>4. CASE VerifyHomeBase \/ PushImages \/ Update \/ AssertArmed \/ GuardReboot \/ Drain
    BY <1>4 DEF VerifyHomeBase, PushImages, Update, AssertArmed, GuardReboot, Drain
  <1>5. CASE Ping \/ Bootstrap \/ Flash
    BY <1>5 DEF Ping, Bootstrap, Flash
  <1>6. CASE RebootToExperiment \/ WaitForBanner \/ PeekConsole
    BY <1>6 DEF RebootToExperiment, WaitForBanner, PeekConsole, Classified
  <1>7. CASE Recover
    BY <1>7 DEF Recover, RecoverDispatch
  <1>8. CASE ProbeHomeBase \/ BurnRetry \/ CycleOff \/ CycleOn
    BY <1>8 DEF ProbeHomeBase, BurnRetry, CycleOff, CycleOn, CycleReturned
  <1>9. CASE WaitForHomeBase
    BY <1>9 DEF WaitForHomeBase
  <1>10. CASE BootloaderRetry
    BY <1>10 DEF BootloaderRetry
  <1>11. QED
    BY <1>1, <1>2, <1>3, <1>4, <1>5, <1>6, <1>7, <1>8, <1>9, <1>10
       DEF Next, Command, HostStep

-----------------------------------------------------------------------------
(***************************************************************************)
(* The anchor.  What a status said of the device at one step still holds   *)
(* at the steps that rely on it: the device stays on the home base, where  *)
(* neither a further question nor the bootloader disturbs it.              *)
(***************************************************************************)

Anchored ==
  /\ pc \in {"push", "update"} =>
       dev.booted = HomeBase /\ dev.active = HomeBase /\ dev.successful[HomeBase]
  /\ pc = "assert_armed" => dev.booted = HomeBase
  /\ cmd = "iterate" /\ ~InPlace /\ pc \in {"guard", "drain", "reboot"} =>
       /\ dev.booted = HomeBase
       /\ dev.active = Experiment /\ ~dev.successful[Experiment]
  /\ AnchorBeforeReboot
  /\ RecoveredMeansHome

LEMMA AnchoredStep ==
  ASSUME Typed, Flow, Anchored, [Next]_vars
  PROVE  Anchored'
  <1> USE DEF Anchored, AnchorBeforeReboot, RecoveredMeansHome, AnchorUp, Flow, InPlace,
              process, locals, Goto, Finish
  <1>1. CASE UNCHANGED vars
    BY <1>1 DEF vars
  <1>2. dev \in Device
    BY DEF Typed, TypeOK, DeviceTypeOK
  <1>3. CASE CmdStatus \/ CmdStage \/ CmdBootExperiment \/ CmdRecover \/ CmdPower \/ NewProcess
    BY <1>3 DEF CmdStatus, CmdStage, CmdBootExperiment, CmdRecover, CmdPower, NewProcess,
                Begin, Start
  <1>4. CASE CmdIterate
    BY <1>4 DEF CmdIterate, Start
  <1>5. CASE VerifyHomeBase
    BY <1>2, <1>5, StatusLemma DEF VerifyHomeBase, HomeBaseVerified
  <1>6. CASE PushImages
    <2>1. dev' \in {dev, AfterSsh(dev)}
      BY <1>6 DEF PushImages, Answers
    <2>2. dev' = dev
      BY <1>2, <1>6, <2>1, AfterSshLemma DEF PushImages, Reachable
    <2>3. QED
      BY <1>6, <2>2 DEF PushImages
  <1>7. CASE Update
    BY <1>2, <1>7, UpdateStep DEF Update
  <1>8. CASE AssertArmed
    BY <1>2, <1>8, StatusLemma DEF AssertArmed, Armed
  <1>9. CASE GuardReboot
    BY <1>2, <1>9, StatusLemma DEF GuardReboot, RebootGuardOk
  <1>10. CASE Drain
    <2>1. dev' \in {dev, UartRead(dev)}
      BY <1>10 DEF Drain, Answers
    <2>2. None \in Kernels \cup {None}
      OBVIOUS
    <2>3. /\ dev'.successful = dev.successful
          /\ dev'.active = dev.active /\ dev'.booted = dev.booted
      BY <1>2, <2>1, <2>2, UartLemma
    <2>4. QED
      BY <1>10, <2>3 DEF Drain
  <1>11. CASE Ping \/ Bootstrap \/ Flash
    BY <1>11 DEF Ping, Bootstrap, Flash
  <1>12. CASE RebootToExperiment \/ WaitForBanner \/ PeekConsole
    BY <1>12 DEF RebootToExperiment, WaitForBanner, PeekConsole, Classified
  <1>13. CASE Recover
    BY <1>13 DEF Recover, RecoverDispatch
  <1>14. CASE ProbeHomeBase
    BY <1>2, <1>14, StatusLemma DEF ProbeHomeBase, HomeBaseUp
  <1>15. CASE BurnRetry \/ CycleOff \/ CycleOn
    BY <1>15 DEF BurnRetry, CycleOff, CycleOn, CycleReturned
  <1>16. CASE WaitForHomeBase
    BY <1>2, <1>16, StatusLemma DEF WaitForHomeBase, HomeBaseUp
  <1>17. CASE BootloaderRetry
    BY <1>2, <1>17, RebootLemma, SlotsAssumption DEF BootloaderRetry
  <1>18. QED
    BY <1>1, <1>3, <1>4, <1>5, <1>6, <1>7, <1>8, <1>9, <1>10, <1>11, <1>12, <1>13, <1>14,
       <1>15, <1>16, <1>17
       DEF Next, Command, HostStep

\* What of it holds for a device that others may move: as long as nobody clears
\* the flag that the guard saw, every reboot over SSH finds it.
LEMMA GuardedStep ==
  ASSUME dev \in Device, Flow, AnchorBeforeReboot, Next,
         dev.successful[HomeBase] => dev'.successful[HomeBase]
  PROVE  AnchorBeforeReboot'
  <1> USE DEF AnchorBeforeReboot, Flow, InPlace, process, locals, Goto, Finish
  <1>1. CASE CmdStatus \/ CmdStage \/ CmdBootExperiment \/ CmdRecover \/ CmdPower \/ NewProcess
    BY <1>1 DEF CmdStatus, CmdStage, CmdBootExperiment, CmdRecover, CmdPower, NewProcess,
                Begin, Start
  <1>2. CASE CmdIterate
    BY <1>2 DEF CmdIterate, Start
  <1>3. CASE VerifyHomeBase \/ PushImages \/ Update \/ AssertArmed \/ Drain
    BY <1>3 DEF VerifyHomeBase, PushImages, Update, AssertArmed, Drain
  <1>4. CASE GuardReboot
    BY <1>4, StatusLemma DEF GuardReboot, RebootGuardOk
  <1>5. CASE Ping \/ Bootstrap \/ Flash
    BY <1>5 DEF Ping, Bootstrap, Flash
  <1>6. CASE RebootToExperiment \/ WaitForBanner \/ PeekConsole
    BY <1>6 DEF RebootToExperiment, WaitForBanner, PeekConsole, Classified
  <1>7. CASE Recover \/ ProbeHomeBase \/ BurnRetry
    BY <1>7 DEF Recover, RecoverDispatch, ProbeHomeBase, BurnRetry
  <1>8. CASE WaitForHomeBase \/ CycleOff \/ CycleOn
    BY <1>8 DEF WaitForHomeBase, CycleOff, CycleOn, CycleReturned
  <1>9. CASE BootloaderRetry
    BY <1>9 DEF BootloaderRetry
  <1>10. QED
    BY <1>1, <1>2, <1>3, <1>4, <1>5, <1>6, <1>7, <1>8, <1>9 DEF Next, Command, HostStep

-----------------------------------------------------------------------------
(***************************************************************************)
(* The power switch.  power_cycle_count is zero until the rollback window  *)
(* has closed and one while the second window is open, which is where the  *)
(* outcomes that speak of it are decided.                                  *)
(***************************************************************************)

Accounting ==
  /\ CycleAccounting
  /\ pc \in {"probe", "burn", "rollback_wait"} => power_cycle_count = 0
  /\ pc \in {"cycle", "cycle_on"} /\ cmd # "power" => power_cycle_count = 0
  /\ pc = "power_wait" => power_cycle_count = 1

LEMMA AccountingStep ==
  ASSUME Typed, Flow, Accounting, [Next]_vars
  PROVE  Accounting'
  <1> USE DEF Accounting, CycleAccounting, Flow, PowerEnabled, process, locals, Goto, Finish
  <1>1. CASE UNCHANGED vars
    BY <1>1 DEF vars
  <1>2. CASE CmdStatus \/ CmdStage \/ CmdBootExperiment \/ CmdRecover \/ CmdPower \/ NewProcess
    BY <1>2 DEF CmdStatus, CmdStage, CmdBootExperiment, CmdRecover, CmdPower, NewProcess,
                Begin, Start
  <1>3. CASE CmdIterate
    BY <1>3 DEF CmdIterate, Start
  <1>4. CASE VerifyHomeBase \/ PushImages \/ Update \/ AssertArmed \/ GuardReboot \/ Drain
    BY <1>4 DEF VerifyHomeBase, PushImages, Update, AssertArmed, GuardReboot, Drain
  <1>5. CASE Ping \/ Bootstrap \/ Flash
    BY <1>5 DEF Ping, Bootstrap, Flash
  <1>6. CASE RebootToExperiment \/ WaitForBanner \/ PeekConsole
    BY <1>6 DEF RebootToExperiment, WaitForBanner, PeekConsole, Classified
  <1>7. CASE Recover
    BY <1>7 DEF Recover, RecoverDispatch
  <1>8. CASE ProbeHomeBase
    BY <1>8 DEF ProbeHomeBase
  <1>9. CASE BurnRetry \/ BootloaderRetry
    BY <1>9 DEF BurnRetry, BootloaderRetry
  <1>10. CASE WaitForHomeBase
    BY <1>10 DEF WaitForHomeBase
  <1>11. CASE CycleOff \/ CycleOn
    BY <1>11 DEF CycleOff, CycleOn, CycleReturned
  <1>12. QED
    BY <1>1, <1>2, <1>3, <1>4, <1>5, <1>6, <1>7, <1>8, <1>9, <1>10, <1>11
       DEF Next, Command, HostStep

-----------------------------------------------------------------------------
(***************************************************************************)
(* The power.  A relay that did not answer is noticed at once, so that the *)
(* second window of a recovery begins on a device that is on; nothing but  *)
(* the switch turns it off again.                                          *)
(***************************************************************************)

Powered ==
  (pc = "power_wait" \/ (result = "unrecoverable" /\ power_cycle_count = 1)) /\ cfg.power = "http"
    => dev.booted # None

\* A boot, of whatever kind, leaves a device that is on.
LEMMA BootedLemma ==
  ASSUME NEW d \in Device
  PROVE  /\ Reboot(d).booted # None
         /\ PowerCycle(d).booted # None
         /\ d.booted # None => AfterSsh(d).booted # None
  <1>1. \A e \in Device, slot \in Slots : Boot(e, slot).booted # None
    BY BootLemma, NoneAssumption
  <1>2. Experiment \in Slots /\ MarkedGood(d) \in Slots /\ ColdBootSlot(d) \in Slots
    BY MarkedGoodLemma DEF Slots
  <1>3. \A slot \in Slots : BootAsActive(d, slot).booted # None
    BY BootAsActiveLemma, NoneAssumption
  <1>4. Reboot(d).booted # None
    <2>1. CASE d.experiment_retries # None /\ d.active = Experiment /\ d.experiment_retries # 0
      <3> DEFINE e == [d EXCEPT !.experiment_retries = @ - 1]
      <3>1. d.experiment_retries - 1 \in Nat
        BY <2>1 DEF Device
      <3>2. e \in Device
        BY <3>1 DEF Device
      <3>3. Reboot(d) = Boot(e, Experiment)
        BY <2>1 DEF Reboot
      <3> HIDE DEF e
      <3>4. QED
        BY <1>1, <1>2, <3>2, <3>3
    <2>2. QED
      BY <1>1, <1>2, <1>3, <2>1, MarkedGoodLemma DEF Reboot, Rollback
  <1>5. PowerCycle(d).booted # None
    BY <1>1, <1>2, <1>3 DEF PowerCycle
  <1>6. d.booted # None => AfterSsh(d).booted # None
    BY <1>2, <1>3 DEF AfterSsh, Rollback
  <1>7. QED
    BY <1>4, <1>5, <1>6

LEMMA PoweredStep ==
  ASSUME Typed, Flow, Accounting, Powered, [Next]_vars
  PROVE  Powered'
  <1> USE DEF Powered, Flow, process, locals, Goto, Finish
  <1>1. CASE UNCHANGED vars
    BY <1>1 DEF vars
  <1>2. dev \in Device
    BY DEF Typed, TypeOK, DeviceTypeOK
  <1>3. CASE CmdStatus \/ CmdStage \/ CmdBootExperiment \/ CmdRecover \/ CmdPower \/ NewProcess
    BY <1>3 DEF CmdStatus, CmdStage, CmdBootExperiment, CmdRecover, CmdPower, NewProcess,
                Begin, Start
  <1>4. CASE CmdIterate
    BY <1>4 DEF CmdIterate, Start
  <1>5. CASE VerifyHomeBase \/ PushImages \/ Update \/ AssertArmed \/ GuardReboot \/ Drain
    BY <1>5 DEF VerifyHomeBase, PushImages, Update, AssertArmed, GuardReboot, Drain
  <1>6. CASE Ping \/ Bootstrap \/ Flash
    BY <1>6 DEF Ping, Bootstrap, Flash
  <1>7. CASE RebootToExperiment \/ WaitForBanner \/ PeekConsole
    BY <1>7 DEF RebootToExperiment, WaitForBanner, PeekConsole, Classified
  <1>8. CASE Recover
    BY <1>8 DEF Recover, RecoverDispatch
  <1>9. CASE ProbeHomeBase \/ BurnRetry
    BY <1>9 DEF ProbeHomeBase, BurnRetry, Accounting
  <1>10. CASE WaitForHomeBase
    <2>1. dev' \in {dev, AfterSsh(dev)}
      BY <1>10 DEF WaitForHomeBase, StatusAnswers, Answers
    <2>2. dev.booted # None => dev'.booted # None
      BY <1>2, <2>1, BootedLemma
    <2>3. QED
      BY <1>10, <2>2 DEF WaitForHomeBase, Accounting
  <1>11. CASE CycleOff
    BY <1>11 DEF CycleOff
  <1>12. CASE CycleOn
    <2>1. ASSUME NEW a \in SwitchOn, ~a.raised, cfg.power = "http"
          PROVE  a.dev.booted # None
      <3>1. a.dev \in {PowerCycle(dev)} \cup (IF dev.booted = None THEN {} ELSE {dev})
        BY <2>1 DEF SwitchOn, SwitchAnswers
      <3>2. QED
        BY <1>2, <3>1, BootedLemma
    <2>2. QED
      BY <1>12, <2>1 DEF CycleOn, CycleReturned
  <1>13. CASE BootloaderRetry
    BY <1>2, <1>13, BootedLemma DEF BootloaderRetry
  <1>14. QED
    BY <1>1, <1>3, <1>4, <1>5, <1>6, <1>7, <1>8, <1>9, <1>10, <1>11, <1>12, <1>13
       DEF Next, Command, HostStep

-----------------------------------------------------------------------------
(***************************************************************************)
(* The budget.  What an iteration has used and what it may still use       *)
(* together never exceed it.                                               *)
(***************************************************************************)

\* The reboots that the running iteration may still make.
Ahead ==
  CASE pc \in {"verify", "push", "update", "assert_armed", "guard", "ping", "bootstrap",
               "reping", "flash", "drain", "reboot"} -> 1 + RollbackPasses
    [] pc \in {"wait", "peek", "recover"} -> RollbackPasses
    [] pc \in {"probe", "burn"} -> tries
    [] OTHER -> 0

Budgeted ==
  cmd = "iterate" /\ pc # "idle" /\ cfg.reboot_budget > 0 /\ cfg.rollback_reboots >= 0
    => reboots_used + Ahead <= cfg.reboot_budget

LEMMA BudgetedStep ==
  ASSUME Typed, Budgeted, [Next]_vars
  PROVE  Budgeted'
  <1>a. cfg' = cfg => RollbackPasses' = RollbackPasses
    BY DEF RollbackPasses
  <1>b. /\ RollbackPasses \in Nat /\ cfg.rollback_reboots \in Int /\ cfg.reboot_budget \in Int
        /\ cfg.rollback_reboots >= 0 => RollbackPasses = cfg.rollback_reboots
    BY ConfigLemma DEF Typed, TypeOK
  <1> USE <1>a, <1>b DEF Budgeted, Ahead, process, locals, Goto, Finish, Typed, TypeOK
  <1>1. CASE UNCHANGED vars
    BY <1>1 DEF vars
  <1>2. CASE CmdStatus \/ CmdStage \/ CmdBootExperiment \/ CmdRecover \/ CmdPower \/ NewProcess
    BY <1>2 DEF CmdStatus, CmdStage, CmdBootExperiment, CmdRecover, CmdPower, NewProcess,
                Begin, Start
  <1>3. CASE CmdIterate
    BY <1>3 DEF CmdIterate, Start, WithinBudget
  <1>4. CASE VerifyHomeBase \/ PushImages \/ Update \/ AssertArmed \/ GuardReboot \/ Drain
    BY <1>4 DEF VerifyHomeBase, PushImages, Update, AssertArmed, GuardReboot, Drain
  <1>5. CASE Ping \/ Bootstrap \/ Flash
    BY <1>5 DEF Ping, Bootstrap, Flash
  <1>6. CASE RebootToExperiment
    BY <1>6 DEF RebootToExperiment
  <1>7. CASE WaitForBanner \/ PeekConsole
    BY <1>7 DEF WaitForBanner, PeekConsole, Classified
  <1>8. CASE Recover
    BY <1>8 DEF Recover, RecoverDispatch
  <1>9. CASE ProbeHomeBase
    BY <1>9 DEF ProbeHomeBase
  <1>10. CASE BurnRetry
    BY <1>10 DEF BurnRetry
  <1>11. CASE WaitForHomeBase
    BY <1>11 DEF WaitForHomeBase
  <1>12. CASE CycleOff \/ CycleOn \/ BootloaderRetry
    BY <1>12 DEF CycleOff, CycleOn, CycleReturned, BootloaderRetry
  <1>13. QED
    BY <1>1, <1>2, <1>3, <1>4, <1>5, <1>6, <1>7, <1>8, <1>9, <1>10, <1>11, <1>12
       DEF Next, Command, HostStep

-----------------------------------------------------------------------------
(***************************************************************************)
(* The theorems.                                                           *)
(***************************************************************************)

IInv == Typed /\ Flow /\ Anchored /\ Accounting /\ Powered /\ Budgeted

\* The inductive invariant that the theorems below are read off.
THEOREM Inductive == Spec => []IInv
  <1>1. Init => IInv
    BY TypedInit DEF Init, IInv, Flow, Anchored, AnchorBeforeReboot, RecoveredMeansHome,
                     Accounting, CycleAccounting, Powered, Budgeted
  <1>2. IInv /\ [Next]_vars => IInv'
    BY TypedStep, FlowStep, AnchoredStep, AccountingStep, PoweredStep, BudgetedStep DEF IInv
  <1>3. QED
    BY <1>1, <1>2, PTL DEF Spec

\* An A/B iteration reboots a device that is armed for a rollback.
THEOREM IterationArmed == Spec => []RollbackArmed
  <1>1. IInv => RollbackArmed
    BY DEF IInv, Anchored, RollbackArmed
  <1>2. QED
    BY <1>1, Inductive, PTL

\* No A/B reboot without an anchor.
THEOREM RebootAnchored == Spec => []AnchorBeforeReboot
  <1>1. IInv => AnchorBeforeReboot
    BY DEF IInv, Anchored
  <1>2. QED
    BY <1>1, Inductive, PTL

\* A recovery that reports success is one.
THEOREM RecoveryHonest == Spec => []RecoveredMeansHome
  <1>1. IInv => RecoveredMeansHome
    BY DEF IInv, Anchored
  <1>2. QED
    BY <1>1, Inductive, PTL

\* At most one power cycle per recovery, told by the outcome.
THEOREM CyclesAccounted == Spec => []CycleAccounting
  <1>1. IInv => CycleAccounting
    BY DEF IInv, Accounting
  <1>2. QED
    BY <1>1, Inductive, PTL

\* A recovery through an HTTP switch never gives up on a device it left dark.
THEOREM DarknessTold == Spec => []DarkIsTold
  <1>1. IInv => DarkIsTold
    BY DEF IInv, Powered, DarkIsTold
  <1>2. QED
    BY <1>1, Inductive, PTL

\* An iteration stays in the budget it was let start with.
THEOREM BudgetKept == Spec => []IterationStaysInBudget
  <1>1. IInv => IterationStaysInBudget
    <2> SUFFICES ASSUME IInv, cmd = "iterate", pc # "idle", cfg.reboot_budget > 0,
                        cfg.rollback_reboots >= 0
                 PROVE  reboots_used <= cfg.reboot_budget
      BY DEF IterationStaysInBudget
    <2>1. Ahead \in Nat
      BY ConfigLemma DEF IInv, Typed, TypeOK, Ahead
    <2>2. reboots_used + Ahead <= cfg.reboot_budget
      BY DEF IInv, Budgeted
    <2>3. QED
      BY <2>1, <2>2, ConfigLemma DEF IInv, Typed, TypeOK
  <1>2. QED
    BY <1>1, Inductive, PTL

\* The home base's success flag, once set, is never cleared.
THEOREM HomeBaseKept == Spec => HomeBaseNeverCleared
  <1>1. ASSUME IInv, [Next]_vars, dev.successful[HomeBase]
        PROVE  dev'.successful[HomeBase]
    <2>1. dev \in Device
      BY <1>1 DEF IInv, Typed, TypeOK, DeviceTypeOK
    <2>2. CASE UNCHANGED vars
      BY <1>1, <2>2 DEF vars
    <2>3. CASE Next /\ pc # "update"
      BY <1>1, <2>1, <2>3, FlagsKept
    <2>4. CASE BootloaderRetry
      BY <1>1, <2>1, <2>4, RebootLemma DEF BootloaderRetry
    <2>5. CASE Update
      BY <1>1, <2>1, <2>5, UpdateStep DEF IInv, Anchored, Update
    <2>6. CASE NewProcess
      BY <1>1, <2>6 DEF NewProcess
    <2>7. QED
      BY <1>1, <2>2, <2>3, <2>4, <2>5, <2>6, UpdateOnly
  <1>2. IInv /\ [Next]_vars => [dev.successful[HomeBase] => dev'.successful[HomeBase]]_vars
    BY <1>1
  <1>3. QED
    BY <1>2, Inductive, PTL DEF Spec, HomeBaseNeverCleared
=============================================================================
