--------------------------- MODULE ContractProofs ---------------------------
(***************************************************************************)
(* Orchestrator implements Contract: its initial states are initial states *)
(* of the contract, and each of its steps is a step of the contract or     *)
(* leaves it alone.  The invariant of OrchestratorProofs tells which step  *)
(* of the contract it is.                                                  *)
(***************************************************************************)
EXTENDS OrchestratorProofs

\* How the operators of the device move it, in the words of the contract.
Drift(d, e)  == PlaceOf(e) = PlaceOf(d) \/ (PlaceOf(d) = "away" /\ PlaceOf(e) = "home")
Reset(d, e)  == Drift(d, e) \/ PlaceOf(d) = "armed"
Switch(d, e) == PlaceOf(e) = PlaceOf(d) \/ PlaceOf(e) \in {"home", "away"}

\* A device that runs its active slot is at home or away.
LEMMA SettledLemma ==
  ASSUME NEW d, d.booted = d.active
  PROVE  PlaceOf(d) \in {"home", "away"}
  BY DEF PlaceOf

\* A question moves the device only when it lets it roll back.
LEMMA AfterSshPlace ==
  ASSUME NEW d \in Device
  PROVE  Drift(d, AfterSsh(d))
  <1>1. CASE Reachable(d)
    BY <1>1, AfterSshLemma DEF Drift
  <1>2. CASE ~Reachable(d) /\ ProbesExhausted(d)
    <2>1. Rollback(d).booted = Rollback(d).active /\ AfterSsh(d) = Rollback(d)
      BY <1>2, RollbackLemma DEF AfterSsh
    <2>2. PlaceOf(d) = "away"
      BY <1>2 DEF Reachable, PlaceOf
    <2>3. QED
      BY <2>1, <2>2, SettledLemma DEF Drift
  <1>3. CASE ~Reachable(d) /\ ~ProbesExhausted(d)
    <2>1. AfterSsh(d).booted = d.booted /\ AfterSsh(d).active = d.active
      BY <1>3 DEF AfterSsh, Device
    <2>2. QED
      BY <2>1 DEF PlaceOf, Drift
  <1>4. QED
    BY <1>1, <1>2, <1>3

\* A boot runs the active slot, or the experiment.
LEMMA RebootPlace ==
  ASSUME NEW d \in Device
  PROVE  Reset(d, Reboot(d))
  <1>1. CASE ~(d.experiment_retries # None /\ d.active = Experiment)
    <2>1. Reboot(d) = Boot(d, d.active) /\ d.active \in Slots
      BY <1>1, MarkedGoodLemma DEF Reboot
    <2>2. Reboot(d).booted = Reboot(d).active /\ Reboot(d).active = d.active
      BY <2>1, BootLemma
    <2>3. QED
      BY <2>2, SlotsAssumption DEF PlaceOf, Drift, Reset
  <1>2. CASE d.active = Experiment
    <2>1. Reboot(d).booted \in {Experiment, Reboot(d).active}
      <3>1. CASE d.experiment_retries # None /\ d.experiment_retries = 0
        BY <1>2, <3>1, RollbackLemma DEF Reboot
      <3>2. CASE d.experiment_retries = None
        BY <1>2, <3>2, BootLemma, MarkedGoodLemma DEF Reboot
      <3>3. CASE d.experiment_retries # None /\ d.experiment_retries # 0
        <4> DEFINE e == [d EXCEPT !.experiment_retries = @ - 1]
        <4>1. d.experiment_retries - 1 \in Nat
          BY <3>3 DEF Device
        <4>2. e \in Device /\ Experiment \in Slots
          BY <4>1 DEF Device, Slots
        <4>3. Reboot(d) = Boot(e, Experiment)
          BY <1>2, <3>3 DEF Reboot
        <4> HIDE DEF e
        <4>4. QED
          BY <4>2, <4>3, BootLemma
      <3>4. QED
        BY <3>1, <3>2, <3>3
    <2>2. PlaceOf(Reboot(d)) \in {"home", "away"}
      BY <2>1, SlotsAssumption DEF PlaceOf
    <2>3. PlaceOf(d) \in {"armed", "away"}
      BY <1>2, SlotsAssumption DEF PlaceOf
    <2>4. QED
      BY <2>2, <2>3 DEF Drift, Reset
  <1>3. QED
    BY <1>1, <1>2

LEMMA SshRebootPlace ==
  ASSUME NEW d \in Device
  PROVE  Reset(d, SshReboot(d))
  <1>1. AfterSsh(d) \in Device /\ Drift(d, AfterSsh(d))
    BY AfterSshLemma, AfterSshPlace
  <1>2. Reset(AfterSsh(d), Reboot(AfterSsh(d)))
    BY <1>1, RebootPlace
  <1>3. QED
    BY <1>1, <1>2 DEF SshReboot, Drift, Reset

\* The switch brings no armed device about.
LEMMA PowerPlace ==
  ASSUME NEW d \in Device
  PROVE  Switch(d, PowerOff(d)) /\ Switch(d, PowerCycle(d))
  <1>1. PowerOff(d).booted = None
    BY DEF PowerOff, Device
  <1>2. HomeBase # None
    BY NoneAssumption DEF Slots
  <1>3. Experiment \in Slots /\ ColdBootSlot(d) \in Slots
    BY MarkedGoodLemma DEF Slots
  <1>4. PowerCycle(d).booted \in {Experiment, PowerCycle(d).active}
    <2>1. Boot(d, Experiment).booted = Experiment
      BY <1>3, BootLemma
    <2>2. BootAsActive(d, ColdBootSlot(d)).booted = BootAsActive(d, ColdBootSlot(d)).active
      BY <1>3, BootAsActiveLemma
    <2>3. QED
      BY <2>1, <2>2 DEF PowerCycle
  <1>5. QED
    BY <1>1, <1>2, <1>4, SlotsAssumption DEF PlaceOf, Switch

\* The serial line does not move the device.
LEMMA UartPlace ==
  ASSUME NEW d \in Device, NEW q \in Kernels \cup {None}
  PROVE  /\ PlaceOf(UartfsBootstrap(d)) = PlaceOf(d)
         /\ PlaceOf(UartfsFlash(d, q)) = PlaceOf(d)
         /\ PlaceOf(UartRead(d)) = PlaceOf(d)
  BY DEF UartfsBootstrap, UartfsFlash, UartRead, PlaceOf, Device

-----------------------------------------------------------------------------
(***************************************************************************)
(* The calls of the host.                                                  *)
(***************************************************************************)

LEMMA StatusPlace ==
  ASSUME dev \in Device, NEW st \in StatusAnswers
  PROVE  Drift(dev, st.dev)
  <1>1. st.dev \in {dev, AfterSsh(dev)}
    BY DEF StatusAnswers, Answers
  <1>2. QED
    BY <1>1, AfterSshPlace DEF Drift

LEMMA HostRebootPlace ==
  ASSUME dev \in Device, dev' \in RebootExperiment \cup RebootViaSsh
  PROVE  Reset(dev, dev')
  <1>1. dev' \in {dev, Reboot(dev), SshReboot(dev)}
    BY DEF RebootExperiment, RebootViaSsh, Answers, UartfsReboot
  <1>2. QED
    BY <1>1, RebootPlace, SshRebootPlace DEF Drift, Reset

LEMMA RelayPlace ==
  ASSUME dev \in Device, NEW a, a \in SwitchOff \cup SwitchOn
  PROVE  Switch(dev, a.dev)
  BY RelayLemma, PowerPlace DEF Switch

\* Only the update arms, and the flag of the home base never moves.
LEMMA AnchorKept ==
  ASSUME IInv, Next
  PROVE  dev'.successful[HomeBase] = dev.successful[HomeBase]
  <1>1. dev \in Device
    BY DEF IInv, Typed, TypeOK, DeviceTypeOK
  <1>2. QED
    BY <1>1, FlagsKept, UpdateOnly, UpdateStep, RebootLemma
       DEF IInv, Anchored, BootloaderRetry, NewProcess, Update

\* The update of a stage arms a device that is at home, or does nothing.
LEMMA UpdatePlace ==
  ASSUME IInv, Update
  PROVE  PlaceOf(dev) = "home" /\ dev.successful[HomeBase] /\ PlaceOf(dev') \in {"home", "armed"}
  <1>1. dev \in Device
    BY DEF IInv, Typed, TypeOK, DeviceTypeOK
  <1>2. dev.booted = HomeBase /\ dev.active = HomeBase /\ dev.successful[HomeBase]
    BY DEF IInv, Anchored, Update
  <1>3. dev'.booted = HomeBase
    BY <1>1, <1>2, UpdateStep
  <1>4. QED
    BY <1>2, <1>3 DEF PlaceOf

-----------------------------------------------------------------------------
(***************************************************************************)
(* The steps.                                                              *)
(***************************************************************************)

\* The steps of the host, by the step of the contract they are.  Phase and
\* Said are pc and result; where the device goes is what the lemmas say.
LEMMA BeginImplements ==
  ASSUME IInv, Next, CmdStatus \/ CmdStage \/ CmdBootExperiment \/ CmdRecover \/ CmdIterate
                     \/ CmdPower \/ NewProcess
  PROVE  Promise!ContractNext
  <1> USE DEF Phase, Said, Promise!ContractNext, Promise!Enter, Promise!Say,
              process, locals, Goto, Finish
  <1>1. dev \in Device /\ dev'.successful[HomeBase] = dev.successful[HomeBase]
    BY AnchorKept DEF IInv, Typed, TypeOK, DeviceTypeOK
  <1>2. CASE CmdStage \/ CmdBootExperiment \/ CmdRecover \/ CmdIterate
    <2>1. dev' = dev /\ pc = "idle"
      BY <1>2 DEF CmdStage, CmdBootExperiment, CmdRecover, CmdIterate, Begin, Start
    <2>2. \/ pc' \in {"verify", "guard", "recover", "ping"} /\ result' = "none"
          \/ pc' = "idle" /\ result' = "refusal"
      BY <1>2 DEF CmdStage, CmdBootExperiment, CmdRecover, CmdIterate, Begin, Start
    <2>3. QED
      BY <2>1, <2>2 DEF Promise!Begin, Promise!Answer, Promise!Drifts
  <1>3. CASE CmdStatus
    <2>1. Drift(dev, dev')
      BY <1>1, <1>3, StatusPlace DEF CmdStatus
    <2>2. pc = "idle" /\ pc' = "idle" /\ result' = "ok"
      BY <1>3 DEF CmdStatus, Start
    <2>3. Promise!Answer
      BY <1>1, <2>1, <2>2 DEF Promise!Answer, Promise!Drifts, Drift
    <2>4. QED
      BY <2>3
  <1>4. CASE CmdPower
    <2>1. pc = "idle"
      BY <1>4 DEF CmdPower, Start
    <2>2. CASE pc' = "cycle" /\ result' = "none" /\ dev' = dev
      BY <2>1, <2>2 DEF Promise!Begin
    <2>3. CASE pc' = "idle" /\ result' \in {"refusal", "crash", "ok"} /\ Switch(dev, dev')
      BY <1>1, <2>1, <2>3 DEF Promise!Turn, Promise!Switches, Switch
    <2>4. Switch(dev, dev) /\ \A a \in SwitchOff \cup SwitchOn : Switch(dev, a.dev)
      BY <1>1, RelayPlace DEF Switch
    <2>5. QED
      BY <1>4, <2>2, <2>3, <2>4 DEF CmdPower
  <1>5. CASE NewProcess
    BY <1>5 DEF NewProcess, Promise!Restart
  <1>6. QED
    BY <1>2, <1>3, <1>4, <1>5

LEMMA PrepareImplements ==
  ASSUME IInv, Next, VerifyHomeBase \/ PushImages \/ Update \/ AssertArmed \/ Ping \/ Bootstrap
                     \/ Flash \/ GuardReboot \/ Drain \/ RebootToExperiment
  PROVE  Promise!ContractNext
  <1> USE DEF Phase, Said, Promise!ContractNext, Promise!Enter, Promise!Say,
              process, locals, Goto, Finish
  <1>1. /\ dev \in Device /\ dev'.successful[HomeBase] = dev.successful[HomeBase]
        /\ pc # "idle" => result = "none"
    BY AnchorKept DEF IInv, Typed, TypeOK, DeviceTypeOK, Flow
  <1> DEFINE Preparing == {"verify", "push", "update", "assert_armed", "guard", "drain", "reboot",
                           "ping", "bootstrap", "reping", "flash"}
             Words == {"error", "refusal", "ok"}
  <1>2. ASSUME pc \in Preparing, Drift(dev, dev'),
               \/ pc' \in Preparing /\ result' = result
               \/ pc' = "idle" /\ result' \in Words
        PROVE  Promise!ContractNext
    BY <1>1, <1>2 DEF Promise!Prepare, Promise!Drifts, Drift
  <1>3. CASE VerifyHomeBase \/ AssertArmed \/ GuardReboot
    <2>1. Drift(dev, dev')
      BY <1>1, <1>3, StatusPlace DEF VerifyHomeBase, AssertArmed, GuardReboot
    <2>2. QED
      BY <1>2, <1>3, <2>1 DEF VerifyHomeBase, AssertArmed, GuardReboot
  <1>4. CASE PushImages
    <2>1. dev' \in {dev, AfterSsh(dev)}
      BY <1>4 DEF PushImages, Answers
    <2>2. Drift(dev, dev')
      BY <1>1, <2>1, AfterSshPlace DEF Drift
    <2>3. QED
      BY <1>2, <1>4, <2>2 DEF PushImages
  <1>5. CASE Update
    <2>1. /\ pc = "update"
          /\ \/ pc' = "assert_armed" /\ result' = result
             \/ pc' = "idle" /\ result' = "error"
      BY <1>5 DEF Update
    <2>2. Promise!Prepare
      BY <1>1, <1>5, <2>1, UpdatePlace DEF Promise!Prepare, Promise!Drifts, Promise!Arms
    <2>3. QED
      BY <2>2
  <1>6. CASE Ping
    BY <1>2, <1>6 DEF Ping, Drift
  <1>7. CASE Bootstrap \/ Drain
    <2>1. dev' \in {dev, UartfsBootstrap(dev), UartRead(dev)}
      BY <1>7 DEF Bootstrap, Drain, Answers
    <2>2. None \in Kernels \cup {None}
      OBVIOUS
    <2>3. Drift(dev, dev')
      BY <1>1, <2>1, <2>2, UartPlace DEF Drift
    <2>4. QED
      BY <1>2, <1>7, <2>3 DEF Bootstrap, Drain
  <1>8. CASE Flash
    <2>1. dev' \in {dev} \cup {UartfsFlash(dev, quality) : quality \in Kernels \cup {None}}
      BY <1>8 DEF Flash, Answers
    <2>2. Drift(dev, dev')
      BY <1>1, <2>1, UartPlace DEF Drift
    <2>3. QED
      BY <1>2, <1>8, <2>2 DEF Flash
  <1>9. CASE RebootToExperiment
    <2>1. Reset(dev, dev')
      BY <1>1, <1>9, HostRebootPlace DEF RebootToExperiment
    <2>2. Promise!Commit
      BY <1>1, <1>9, <2>1
         DEF RebootToExperiment, Promise!Commit, Promise!Reboots, Promise!Drifts, Drift, Reset
    <2>3. QED
      BY <2>2
  <1>10. QED
    BY <1>3, <1>4, <1>5, <1>6, <1>7, <1>8, <1>9

LEMMA RecoverImplements ==
  ASSUME IInv, IInv', Next, WaitForBanner \/ PeekConsole \/ Recover \/ ProbeHomeBase \/ BurnRetry
                            \/ WaitForHomeBase \/ CycleOff \/ CycleOn
  PROVE  Promise!ContractNext
  <1> USE DEF Phase, Said, Promise!ContractNext, Promise!Enter, Promise!Say,
              process, locals, Goto, Finish
  <1>1. /\ dev \in Device /\ dev'.successful[HomeBase] = dev.successful[HomeBase]
        /\ pc # "idle" => result = "none"
    BY AnchorKept DEF IInv, Typed, TypeOK, DeviceTypeOK, Flow
  <1>2. result' \in {"rolled-back", "wedged-recovered"} =>
          PlaceOf(dev') = "home" /\ dev'.successful[HomeBase]
    BY DEF IInv, Anchored, RecoveredMeansHome, AnchorUp, PlaceOf
  <1> DEFINE Recovering == {"recover", "probe", "burn", "rollback_wait", "cycle"}
             Words == {"rolled-back", "wedged-recovered", "unrecoverable", "refusal"}
  <1>3. CASE WaitForBanner \/ PeekConsole
    <2>1. pc \in {"wait", "peek"} /\ dev' = dev
      BY <1>3 DEF WaitForBanner, PeekConsole
    <2>2. \/ pc' \in {"peek", "recover"} /\ result' = result
          \/ pc' = "idle" /\ result' \in {"ok", "boot-failed", "iterated"}
      BY <1>3 DEF WaitForBanner, PeekConsole, Classified
    <2>3. Promise!Observe
      BY <1>1, <2>1, <2>2 DEF Promise!Observe, Promise!Drifts
    <2>4. QED
      BY <2>3
  <1>4. ASSUME pc \in Recovering \cup {"power_wait"}, Drift(dev, dev'),
               \/ pc \in Recovering /\ pc' \in Recovering /\ result' = result
               \/ pc = "power_wait" /\ pc' = "power_wait" /\ result' = result
               \/ pc' = "idle" /\ result' \in Words
        PROVE  Promise!ContractNext
    <2>1. CASE pc \in Recovering /\ pc' \in Recovering /\ result' = result
      BY <1>1, <1>4, <2>1 DEF Promise!Recover, Promise!Reboots, Promise!Drifts, Drift
    <2>2. CASE pc = "power_wait" /\ pc' = "power_wait" /\ result' = result
      BY <1>1, <1>4, <2>2 DEF Promise!Await, Promise!Drifts, Drift
    <2>3. CASE pc' = "idle" /\ result' \in Words
      BY <1>1, <1>2, <1>4, <2>3 DEF Promise!Conclude, Promise!Drifts, Drift
    <2>4. QED
      BY <1>4, <2>1, <2>2, <2>3
  <1>5. CASE Recover
    BY <1>4, <1>5 DEF Recover, RecoverDispatch, Drift
  <1>6. CASE ProbeHomeBase \/ WaitForHomeBase
    <2>1. Drift(dev, dev')
      BY <1>1, <1>6, StatusPlace DEF ProbeHomeBase, WaitForHomeBase
    <2>2. CASE ProbeHomeBase
      BY <1>4, <2>1, <2>2 DEF ProbeHomeBase
    <2>3. CASE WaitForHomeBase
      BY <1>4, <2>1, <2>3 DEF WaitForHomeBase
    <2>4. QED
      BY <1>6, <2>2, <2>3
  <1>7. CASE BurnRetry
    <2>1. Reset(dev, dev')
      BY <1>1, <1>7, HostRebootPlace DEF BurnRetry
    <2>2. Promise!Recover
      BY <1>1, <1>7, <2>1
         DEF BurnRetry, Promise!Recover, Promise!Reboots, Promise!Drifts, Drift, Reset
    <2>3. QED
      BY <2>2
  <1>8. CASE CycleOff
    <2>1. Switch(dev, dev')
      BY <1>1, <1>8, RelayPlace DEF CycleOff
    <2>2. /\ pc = "cycle"
          /\ \/ pc' = "idle" /\ result' = "crash"
             \/ pc' = "cycle_on" /\ result' = result
      BY <1>8 DEF CycleOff
    <2>3. Promise!PowerDown
      BY <1>1, <2>1, <2>2 DEF Promise!PowerDown, Promise!Switches, Switch
    <2>4. QED
      BY <2>3
  <1>9. CASE CycleOn
    <2>1. Switch(dev, dev')
      BY <1>1, <1>9, RelayPlace DEF CycleOn
    <2>2. /\ pc = "cycle_on"
          /\ \/ pc' = "idle" /\ result' \in {"ok", "crash"}
             \/ pc' = "power_wait" /\ result' = result
      BY <1>9 DEF CycleOn, CycleReturned
    <2>3. Promise!PowerUp
      BY <1>1, <2>1, <2>2 DEF Promise!PowerUp, Promise!Switches, Switch
    <2>4. QED
      BY <2>3
  <1>10. QED
    BY <1>3, <1>5, <1>6, <1>7, <1>8, <1>9

LEMMA BootloaderImplements ==
  ASSUME IInv, Next, BootloaderRetry
  PROVE  Promise!ContractNext
  <1>1. dev \in Device /\ dev'.successful[HomeBase] = dev.successful[HomeBase]
    BY AnchorKept DEF IInv, Typed, TypeOK, DeviceTypeOK
  <1>2. PlaceOf(dev) = "away"
    BY SlotsAssumption DEF BootloaderRetry, PlaceOf
  <1>3. Drift(dev, dev')
    BY <1>1, <1>2, RebootPlace DEF BootloaderRetry, Reset
  <1>4. Promise!Bootloader
    BY <1>1, <1>2, <1>3
       DEF BootloaderRetry, Promise!Bootloader, Promise!Drifts, Drift, Phase, Said, process, locals
  <1>5. QED
    BY <1>4 DEF Promise!ContractNext

LEMMA StepImplements ==
  ASSUME IInv, IInv', [Next]_vars
  PROVE  [Promise!ContractNext]_(Promise!cvars)
  <1>1. CASE UNCHANGED vars
    BY <1>1 DEF vars, locals, process, Promise!cvars, Phase, Said, PlaceOf
  <1>2. CASE Next
    BY <1>2, BeginImplements, PrepareImplements, RecoverImplements, BootloaderImplements
       DEF Next, Command, HostStep
  <1>3. QED
    BY <1>1, <1>2

LEMMA InitImplements == Init => Promise!ContractInit
  <1> SUFFICES ASSUME Init PROVE Promise!ContractInit
    OBVIOUS
  <1>1. dev \in Device /\ dev.booted = dev.active
    BY NewDeviceLemma DEF Init, DeviceInit
  <1>2. HomeBase \in Slots
    BY DEF Slots
  <1>3. dev.successful[HomeBase] \in BOOLEAN
    BY <1>1, <1>2 DEF Device
  <1>4. QED
    BY <1>1, <1>3, SettledLemma DEF Init, Promise!ContractInit, Phase, Said

\* The commands, as they are, keep the contract: for every configuration,
\* scenario, fault and bound.
THEOREM ContractImplemented == Spec => ContractKept
  <1>1. IInv /\ IInv' /\ [Next]_vars => [Promise!ContractNext]_(Promise!cvars)
    BY StepImplements
  <1>2. QED
    BY <1>1, InitImplements, Inductive, PTL DEF Spec, ContractKept, Promise!ContractSpec
=============================================================================
