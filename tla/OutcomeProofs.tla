---------------------------- MODULE OutcomeProofs ----------------------------
(***************************************************************************)
(* How the commands of Orchestrator end, for every configuration, scenario *)
(* and bound: what a success is of; that a command has only so many        *)
(* calls left; and that a recovery which can bring the device home does    *)
(* not end otherwise.  Each theorem names the faults it holds without.     *)
(***************************************************************************)
EXTENDS OrchestratorProofs

-----------------------------------------------------------------------------
(***************************************************************************)
(* What a boot does to the fields that no flag depends on.                 *)
(***************************************************************************)

\* A boot prints one banner, of what it boots, forgets the probes and takes the
\* kernel that was flashed.
LEMMA BootFields ==
  ASSUME NEW d \in Device, NEW slot \in Slots
  PROVE  LET e == Boot(d, slot) IN
         /\ e.unread = d.unread \cup {IF slot = HomeBase THEN "home" ELSE e.experiment_boots}
         /\ e.unreachable_probes = 0
         /\ slot = Experiment => e.pending = None
         /\ e.experiment_boots \in {d.experiment_boots} \cup ({d.pending} \ {None})
         /\ slot # Experiment => e.experiment_boots = d.experiment_boots
         /\ slot # Experiment => e.pending = d.pending
         /\ e.experiment_retries = d.experiment_retries
         /\ e.rollback_after = d.rollback_after
         /\ e.agent_running = d.agent_running
         /\ e.power_cycle_recovers = d.power_cycle_recovers
  <1> DEFINE flashed == slot = Experiment /\ d.pending # None
             kernel  == IF flashed THEN d.pending ELSE d.experiment_boots
             banner  == IF slot = HomeBase THEN "home" ELSE kernel
             pending == IF flashed THEN None ELSE d.pending
             e == [d EXCEPT !.booted = slot, !.unreachable_probes = 0]
             f == [e EXCEPT !.experiment_boots = kernel, !.pending = pending]
  <1>1. Boot(d, slot) = [f EXCEPT !.console = d.console \cup {banner},
                                  !.unread  = d.unread \cup {banner}]
    BY DEF Boot
  <1>2. /\ kernel \in {d.experiment_boots} \cup ({d.pending} \ {None})
        /\ slot # Experiment => kernel = d.experiment_boots /\ pending = d.pending
        /\ slot = Experiment => pending = None
    OBVIOUS
  <1> HIDE DEF flashed, kernel, pending
  <1>3. /\ e.unreachable_probes = 0 /\ e.experiment_retries = d.experiment_retries
        /\ e.rollback_after = d.rollback_after /\ e.agent_running = d.agent_running
        /\ e.power_cycle_recovers = d.power_cycle_recovers
        /\ DOMAIN e = DOMAIN d
    BY DEF Device
  <1> HIDE DEF e
  <1>4. /\ f.unreachable_probes = 0 /\ f.experiment_retries = d.experiment_retries
        /\ f.rollback_after = d.rollback_after /\ f.agent_running = d.agent_running
        /\ f.power_cycle_recovers = d.power_cycle_recovers
        /\ f.experiment_boots = kernel /\ f.pending = pending
        /\ DOMAIN f = DOMAIN d
    BY <1>3 DEF Device
  <1> HIDE DEF f
  <1>5. QED
    BY <1>1, <1>2, <1>4 DEF Device

\* Every boot that the bootloader or the switch brings about is one of a device
\* that has at most its active slot and its retries changed first.
Beside(f, d) ==
  /\ f \in Device /\ f.successful = d.successful
  /\ f.unread = d.unread /\ f.pending = d.pending
  /\ f.experiment_boots = d.experiment_boots /\ f.agent_running = d.agent_running
  /\ f.rollback_after = d.rollback_after
  /\ f.power_cycle_recovers = d.power_cycle_recovers

LEMMA AsActiveBoots ==
  ASSUME NEW d \in Device, NEW slot \in Slots
  PROVE  \E f : Beside(f, d) /\ f.active = slot /\ BootAsActive(d, slot) = Boot(f, slot)
                /\ f.experiment_retries = d.experiment_retries
  <1> DEFINE f == [d EXCEPT !.active = slot]
  <1>1. Beside(f, d) /\ f.active = slot /\ f.experiment_retries = d.experiment_retries
    BY DEF Beside, Device
  <1>2. BootAsActive(d, slot) = Boot(f, slot)
    BY DEF BootAsActive
  <1> HIDE DEF f
  <1>3. QED
    BY <1>1, <1>2

LEMMA RebootBoots ==
  ASSUME NEW d \in Device
  PROVE  \E f, slot : Beside(f, d) /\ slot \in Slots /\ Reboot(d) = Boot(f, slot)
  <1>1. CASE ~(d.experiment_retries # None /\ d.active = Experiment)
    <2>1. Reboot(d) = Boot(d, d.active) /\ d.active \in Slots /\ Beside(d, d)
      BY <1>1 DEF Reboot, Device, Beside
    <2>2. QED
      BY <2>1
  <1>2. CASE d.experiment_retries # None /\ d.active = Experiment /\ d.experiment_retries = 0
    <2>1. Reboot(d) = BootAsActive(d, MarkedGood(d))
      BY <1>2 DEF Reboot, Rollback
    <2>2. QED
      BY <2>1, AsActiveBoots, MarkedGoodLemma
  <1>3. CASE d.experiment_retries # None /\ d.active = Experiment /\ d.experiment_retries # 0
    <2> DEFINE f == [d EXCEPT !.experiment_retries = @ - 1]
    <2>1. d.experiment_retries - 1 \in Nat
      BY <1>3 DEF Device
    <2>2. Beside(f, d)
      BY <2>1 DEF Beside, Device
    <2>3. Reboot(d) = Boot(f, Experiment) /\ Experiment \in Slots
      BY <1>3 DEF Reboot, Slots
    <2> HIDE DEF f
    <2>4. QED
      BY <2>2, <2>3
  <1>4. QED
    BY <1>1, <1>2, <1>3

\* What the commands do to the device is one of its own operations, or nothing;
\* the bootloader reboots it.
Tools(d) ==
  {d, AfterSsh(d), SshReboot(d), SshUpdate(d), PowerOff(d), PowerCycle(d),
   UartfsBootstrap(d), UartfsReboot(d), UartRead(d)}
    \cup {UartfsFlash(d, q) : q \in Kernels \cup {None}}
Moves(d) == Tools(d) \cup {Reboot(d)}

LEMMA HostUsesTools ==
  ASSUME Command \/ HostStep
  PROVE  dev' \in Tools(dev)
  <1>1. CASE \/ CmdStage \/ CmdBootExperiment \/ CmdRecover \/ CmdIterate \/ NewProcess
             \/ Ping \/ WaitForBanner \/ PeekConsole \/ Recover
    BY <1>1 DEF CmdStage, CmdBootExperiment, CmdRecover, CmdIterate, NewProcess, Begin,
                Ping, WaitForBanner, PeekConsole, Recover, Tools
  <1>2. CASE \/ CmdStatus \/ VerifyHomeBase \/ AssertArmed \/ GuardReboot
             \/ ProbeHomeBase \/ WaitForHomeBase
    <2>1. \E st \in StatusAnswers : dev' = st.dev
      BY <1>2 DEF CmdStatus, VerifyHomeBase, AssertArmed, GuardReboot, ProbeHomeBase,
                  WaitForHomeBase
    <2>2. QED
      BY <2>1 DEF StatusAnswers, Answers, Tools
  <1>3. CASE CmdPower \/ CycleOff \/ CycleOn
    <2>1. dev' = dev \/ \E a \in SwitchOff \cup SwitchOn : dev' = a.dev
      BY <1>3 DEF CmdPower, CycleOff, CycleOn
    <2>2. QED
      BY <2>1, RelayLemma DEF Tools
  <1>4. CASE PushImages \/ Update
    BY <1>4 DEF PushImages, Update, Answers, Tools
  <1>5. CASE Bootstrap \/ Flash \/ Drain
    BY <1>5 DEF Bootstrap, Flash, Drain, Answers, Tools
  <1>6. CASE RebootToExperiment \/ BurnRetry
    BY <1>6 DEF RebootToExperiment, BurnRetry, RebootExperiment, RebootViaSsh, Answers, Tools
  <1>7. QED
    BY <1>1, <1>2, <1>3, <1>4, <1>5, <1>6 DEF Command, HostStep

LEMMA DeviceMoves ==
  ASSUME Next
  PROVE  dev' \in Moves(dev)
  BY HostUsesTools DEF Next, Moves, BootloaderRetry

\* The host is a client of the device of FakeDevice: with every fault, whatever
\* it does to the device is an operation of the device, or the bootloader's own.
THEOREM DeviceDriven == Spec => DeviceInit /\ [][DeviceNext \/ BootloaderRetry]_dev
  <1>1. ASSUME dev' \in Tools(dev), dev' # dev
        PROVE  DeviceNext
    BY <1>1 DEF Tools, DeviceNext, SshStatusOp, SshRebootOp, SshUpdateOp, UartfsBootstrapOp,
                UartfsRebootOp, UartfsFlashOp, UartReadOp, PowerOffOp, PowerOnOp
  <1>2. [Next]_vars => [DeviceNext \/ BootloaderRetry]_dev
    BY <1>1, HostUsesTools DEF Next, vars
  <1>3. Init => DeviceInit
    BY DEF Init
  <1>4. QED
    BY <1>2, <1>3, PTL DEF Spec

\* So, where the bootloader does not reboot by itself, what the device promises
\* to any client it promises to this one: a wedge stays until the switch is
\* used, and no unproven slot is fallen back to.
THEOREM PromisesInherited ==
  ASSUME "retry" \notin Faults
  PROVE  Spec => WedgeNeedsPower /\ AnchorSafeWhileActive /\ UnprovenNeverChosen
  <1>1. ~BootloaderRetry
    BY DEF BootloaderRetry
  <1>2. Spec => DeviceSpec
    BY <1>1, DeviceDriven, PTL DEF DeviceSpec
  <1>3. QED
    BY <1>2, WedgeStays, AnchorSafe, ProvenPreferred, PTL

\* None of them changes whether power brings the device home, or after how many
\* probes it comes by itself.
LEMMA MovesKeep ==
  ASSUME NEW d \in Device, NEW e \in Moves(d)
  PROVE  /\ e.power_cycle_recovers = d.power_cycle_recovers
         /\ e.rollback_after = d.rollback_after
  <1> DEFINE Same(f, g) == /\ g.power_cycle_recovers = f.power_cycle_recovers
                           /\ g.rollback_after = f.rollback_after
  <1>1. \A f \in Device, slot \in Slots : Same(f, Boot(f, slot))
    BY BootFields
  <1>2. \A f \in Device, slot \in Slots : Same(f, BootAsActive(f, slot))
    <2> TAKE f \in Device, slot \in Slots
    <2>1. PICK g : Beside(g, f) /\ BootAsActive(f, slot) = Boot(g, slot)
      BY AsActiveBoots
    <2>2. QED
      BY <1>1, <2>1 DEF Beside
  <1>3. \A f \in Device : Same(f, Reboot(f))
    <2> TAKE f \in Device
    <2>1. PICK g, slot : Beside(g, f) /\ slot \in Slots /\ Reboot(f) = Boot(g, slot)
      BY RebootBoots
    <2>2. QED
      BY <1>1, <2>1 DEF Beside
  <1>4. \A f \in Device : Same(f, AfterSsh(f))
    <2> TAKE f \in Device
    <2>1. Same(f, Rollback(f))
      BY <1>2, MarkedGoodLemma DEF Rollback
    <2>2. Same(f, [f EXCEPT !.unreachable_probes = @ + 1])
      BY DEF Device
    <2>3. QED
      BY <2>1, <2>2 DEF AfterSsh
  <1>5. AfterSsh(d) \in Device
    BY AfterSshLemma
  <1>6. Same(d, SshReboot(d)) /\ Same(d, UartfsReboot(d))
    BY <1>3, <1>4, <1>5 DEF SshReboot, UartfsReboot
  <1>7. Same(d, SshUpdate(d))
    <2>1. \A f \in Device, slot \in Slots : Same(f, FlashSlot(f, slot, TRUE))
      BY DEF FlashSlot, Device
    <2>2. UpdateTarget(AfterSsh(d)) \in Slots
      BY DEF UpdateTarget, Slots
    <2>3. QED
      BY <1>4, <1>5, <2>1, <2>2 DEF SshUpdate
  <1>8. Same(d, PowerOff(d)) /\ Same(d, PowerCycle(d))
    <2>1. Experiment \in Slots
      BY DEF Slots
    <2>2. Same(d, PowerOff(d))
      BY DEF PowerOff, Device
    <2>3. QED
      BY <1>1, <1>2, <2>1, <2>2, MarkedGoodLemma DEF PowerCycle
  <1>9. /\ Same(d, UartfsBootstrap(d)) /\ Same(d, UartRead(d))
        /\ \A q \in Kernels \cup {None} : Same(d, UartfsFlash(d, q))
    BY DEF UartfsBootstrap, UartRead, UartfsFlash, Device
  <1>10. QED
    BY <1>3, <1>4, <1>6, <1>7, <1>8, <1>9 DEF Moves, Tools

-----------------------------------------------------------------------------
(***************************************************************************)
(* Success.  A drained console tells of nothing but the boots since: until *)
(* the reboot nothing else boots, because an A/B device is on its home     *)
(* base and in place the kernel that took the flash is up.                 *)
(***************************************************************************)

HeardIsUp ==
  /\ "home" \in dev.unread => dev.booted = HomeBase
  /\ "good" \in dev.unread => ExperimentUp(dev)

Alive ==
  /\ InPlace /\ pc \in {"ping", "bootstrap", "reping", "flash", "drain", "reboot"} => cfg.uartfs
  /\ InPlace /\ pc \in {"drain", "reboot"} => ExperimentUp(dev)
  /\ ~InPlace /\ pc \in {"drain", "reboot"} => dev.booted = HomeBase
  /\ pc = "reboot" => dev.unread = {}
  /\ pc = "wait" => HeardIsUp

\* A reboot of a device whose console is quiet of other boots: it prints what
\* it has booted.
LEMMA RebootHeard ==
  ASSUME NEW d \in Device, "home" \notin d.unread, "good" \notin d.unread
  PROVE  /\ "home" \in Reboot(d).unread => Reboot(d).booted = HomeBase
         /\ "good" \in Reboot(d).unread => ExperimentUp(Reboot(d))
  <1>1. PICK f, slot : Beside(f, d) /\ slot \in Slots /\ Reboot(d) = Boot(f, slot)
    BY RebootBoots
  <1> DEFINE e == Boot(f, slot)
  <1>2. /\ e.unread = d.unread \cup {IF slot = HomeBase THEN "home" ELSE e.experiment_boots}
        /\ e.booted = slot /\ e \in Device
    BY <1>1, BootFields, BootLemma DEF Beside
  <1> HIDE DEF e
  <1>3. e.experiment_boots \in Kernels
    BY <1>2 DEF Device
  <1>4. QED
    BY <1>1, <1>2, <1>3 DEF e, ExperimentUp, Slots, Kernels

LEMMA AliveStep ==
  ASSUME "uart" \notin Faults, IInv, Alive, [Next]_vars
  PROVE  Alive'
  <1> USE DEF Alive, InPlace, process, locals, Goto, Finish
  <1>1. CASE UNCHANGED vars
    BY <1>1 DEF vars, HeardIsUp
  <1>2. /\ dev \in Device /\ cfg.success \subseteq {"home", "good"}
        /\ Flow /\ (pc # "idle" => result = "none")
    BY ConfigsAssumption DEF IInv, Typed, TypeOK, DeviceTypeOK, Config, Flow
  <1>3. CASE CmdStatus \/ CmdStage \/ CmdBootExperiment \/ CmdRecover \/ CmdPower \/ NewProcess
    BY <1>3 DEF CmdStatus, CmdStage, CmdBootExperiment, CmdRecover, CmdPower, NewProcess,
                Begin, Start
  <1>4. CASE CmdIterate
    BY <1>4 DEF CmdIterate, Start
  <1>5. CASE VerifyHomeBase \/ PushImages \/ Update \/ AssertArmed
    BY <1>2, <1>5 DEF VerifyHomeBase, PushImages, Update, AssertArmed
  <1>6. CASE GuardReboot
    BY <1>2, <1>6, StatusLemma DEF GuardReboot, RebootGuardOk, Flow
  <1>7. CASE Ping \/ Bootstrap
    BY <1>2, <1>7 DEF Ping, Bootstrap
  <1>8. CASE Flash
    <2>1. PICK quality, a :
            /\ quality \in Kernels \cup {None}
            /\ a \in Answers("uartfs", AgentReachable(dev), UartfsFlash(dev, quality))
            /\ dev' = a.dev
            /\ \/ ~a.ok /\ Finish("error")
               \/ a.ok /\ images > 1 /\ Goto("flash")
               \/ a.ok /\ images = 1 /\ Goto("drain")
      BY <1>8 DEF Flash
    <2>2. AgentReachable(dev) \in BOOLEAN
      BY <1>2 DEF AgentReachable, ExperimentUp, Device
    <2>3. a.ok => AgentReachable(dev) /\ dev' = UartfsFlash(dev, quality)
      BY <2>1, <2>2, AnswersLemma
    <2>4. a.ok => ExperimentUp(dev')
      BY <1>2, <2>3 DEF UartfsFlash, AgentReachable, ExperimentUp, Device
    <2>5. QED
      BY <1>2, <1>8, <2>1, <2>4 DEF Flash, Flow
  <1>9. CASE Drain
    <2>1. dev' = UartRead(dev)
      BY <1>9 DEF Drain, Answers
    <2>2. /\ dev'.unread = {} /\ dev'.booted = dev.booted
          /\ ExperimentUp(dev) => ExperimentUp(dev')
      BY <1>2, <2>1 DEF UartRead, ExperimentUp, Device
    <2>3. QED
      BY <1>2, <1>9, <2>2 DEF Drain
  <1>10. CASE RebootToExperiment
    <2>1. dev' \in {dev, Reboot(dev)} /\ dev.unread = {}
      <3>1. CASE InPlace
        BY <1>10, <3>1 DEF RebootToExperiment, RebootExperiment, Answers, UartfsReboot
      <3>2. CASE ~InPlace
        <4>1. SshReboot(dev) = Reboot(dev)
          BY <1>2, <1>10, <3>2, AfterSshLemma DEF RebootToExperiment, SshReboot, Reachable
        <4>2. QED
          BY <1>10, <3>2, <4>1 DEF RebootToExperiment, RebootViaSsh, Answers
      <3>3. QED
        BY <3>1, <3>2
    <2>2. HeardIsUp'
      BY <1>2, <2>1, RebootHeard DEF HeardIsUp
    <2>3. QED
      BY <1>2, <1>10, <2>2 DEF RebootToExperiment, Flow
  <1>11. CASE WaitForBanner
    BY <1>11 DEF WaitForBanner, Classified
  <1>12. CASE PeekConsole \/ Recover
    BY <1>2, <1>12 DEF PeekConsole, Classified, Recover, RecoverDispatch, Flow
  <1>13. CASE ProbeHomeBase \/ BurnRetry \/ WaitForHomeBase
    BY <1>2, <1>13 DEF ProbeHomeBase, BurnRetry, WaitForHomeBase, Flow
  <1>14. CASE CycleOff \/ CycleOn
    BY <1>2, <1>14 DEF CycleOff, CycleOn, CycleReturned, Flow
  <1>15. CASE BootloaderRetry
    <2>1. ~ExperimentUp(dev) /\ dev.booted # HomeBase /\ dev' = Reboot(dev)
      BY <1>15, SlotsAssumption DEF BootloaderRetry
    <2>2. ASSUME pc = "wait" PROVE HeardIsUp'
      BY <1>2, <2>1, <2>2, RebootHeard DEF HeardIsUp
    <2>3. QED
      BY <1>15, <2>1, <2>2 DEF BootloaderRetry
  <1>16. QED
    BY <1>1, <1>3, <1>4, <1>5, <1>6, <1>7, <1>8, <1>9, <1>10, <1>11, <1>12, <1>13, <1>14, <1>15
       DEF Next, Command, HostStep

\* The banner that is matched is one that was printed since, if it was heard.
LEMMA SuccessHeard ==
  ASSUME IInv, Alive, [Next]_vars, boot # "success", boot' = "success"
  PROVE  \/ ExperimentUp(dev) /\ "good" \in cfg.success
         \/ dev.booted = HomeBase /\ "home" \in cfg.success
  <1>1. WaitForBanner
    BY DEF vars, Next, Command, HostStep, CmdStatus, CmdStage, CmdBootExperiment, CmdIterate,
           CmdRecover, CmdPower, NewProcess, Begin, Start, VerifyHomeBase, PushImages, Update,
           AssertArmed, Ping, Bootstrap, Flash, GuardReboot, Drain, RebootToExperiment,
           PeekConsole, Classified, Recover, ProbeHomeBase, BurnRetry, WaitForHomeBase,
           CycleOff, CycleOn, BootloaderRetry, locals
  <1>2. PICK a \in Answers("uart", dev.unread \cap cfg.success # {}, dev) :
          IF a.ok THEN Classified("success") ELSE Goto("peek") /\ UNCHANGED boot
    BY <1>1 DEF WaitForBanner
  <1>3. dev.unread \cap cfg.success # {}
    BY <1>2, AnswersLemma
  <1>4. cfg.success \subseteq {"home", "good"}
    BY ConfigsAssumption DEF IInv, Typed, TypeOK, Config
  <1>5. HeardIsUp
    BY <1>1 DEF WaitForBanner, Alive
  <1>6. QED
    BY <1>3, <1>4, <1>5 DEF HeardIsUp

\* Unless the console itself fails, which reads as an empty one, a boot is
\* classified a success by what is up, in whatever order the bootloader and the
\* host reboot the device.
THEOREM SuccessIsCurrent ==
  ASSUME "uart" \notin Faults
  PROVE  Spec => SuccessIsOfThisBoot
  <1>1. Init => Alive
    BY DEF Init, Alive
  <1>2. IInv /\ Alive /\ [Next]_vars => Alive'
    BY AliveStep
  <1>3. ASSUME IInv, Alive, [Next]_vars
        PROVE  [boot # "success" /\ boot' = "success" =>
                  \/ ExperimentUp(dev) /\ "good" \in cfg.success
                  \/ dev.booted = HomeBase /\ "home" \in cfg.success]_vars
    BY <1>3, SuccessHeard
  <1>4. QED
    BY <1>1, <1>2, <1>3, Inductive, PTL DEF Spec, SuccessIsOfThisBoot

-----------------------------------------------------------------------------
(***************************************************************************)
(* The calls that are left.                                                *)
(***************************************************************************)

LEMMA CallsLemma ==
  ASSUME Typed
  PROVE  /\ SwitchCalls \in Nat /\ SwitchCalls = 3 + cfg.power_cycle_wait
         /\ RecoveryCalls \in Nat
         /\ cfg.rollback_via = "retry-exhaustion" => RecoveryCalls = 2 * RollbackPasses + 1
         /\ cfg.rollback_via = "power" => RecoveryCalls = cfg.rollback_wait + 1 + SwitchCalls
         /\ images \in Nat /\ tries \in Nat /\ left \in Nat
  <1>1. /\ RollbackPasses \in Nat /\ cfg.rollback_wait \in Nat
        /\ cfg.power_cycle_wait \in Nat
    BY ConfigLemma DEF Typed, TypeOK
  <1>2. QED
    BY <1>1, BoundsAssumption DEF Typed, TypeOK, SwitchCalls, RecoveryCalls

\* The measure, step by step.
CallsTable ==
  /\ pc = "idle" => CallsAhead = 0
  /\ pc = "verify" => CallsAhead = 10 + images + RecoveryCalls
  /\ pc = "push" => CallsAhead = 9 + images + RecoveryCalls
  /\ pc = "update" => CallsAhead = 8 + images + RecoveryCalls
  /\ pc = "assert_armed" => CallsAhead = 7 + images + RecoveryCalls
  /\ pc = "guard" => CallsAhead = 6 + images + RecoveryCalls
  /\ pc = "ping" => CallsAhead = 9 + images + RecoveryCalls
  /\ pc = "bootstrap" => CallsAhead = 8 + images + RecoveryCalls
  /\ pc = "reping" => CallsAhead = 7 + images + RecoveryCalls
  /\ pc = "flash" => CallsAhead = 6 + images + RecoveryCalls
  /\ pc = "drain" => CallsAhead = 5 + images + RecoveryCalls
  /\ pc = "reboot" => CallsAhead = 4 + images + RecoveryCalls
  /\ pc = "wait" => CallsAhead = 3 + images + RecoveryCalls
  /\ pc = "peek" => CallsAhead = 2 + images + RecoveryCalls
  /\ pc = "recover" => CallsAhead = 1 + images + RecoveryCalls
  /\ pc = "probe" => CallsAhead = 2 * tries + 1
  /\ pc = "burn" => CallsAhead = 2 * tries
  /\ pc = "rollback_wait" => CallsAhead = left + 1 + SwitchCalls
  /\ pc = "cycle" => CallsAhead = SwitchCalls
  /\ pc = "cycle_on" => CallsAhead = SwitchCalls - 1
  /\ pc = "power_wait" => CallsAhead = left + 1

\* Every call of the host brings the measure down: a step forward by one, a
\* loop by its counter or its deadline.
LEMMA CallsStep ==
  ASSUME Typed, Flow, HostStep
  PROVE  CallsAhead' < CallsAhead
  <1> USE CallsLemma DEF CallsTable, process, locals, Goto, Finish
  <1>a. CallsTable /\ CallsTable'
    BY DEF CallsAhead, CallsBeforeRecovery
  <1>b. images' \in Nat /\ tries' \in Nat /\ left' \in Nat
    <2>1. Typed'
      BY TypedStep DEF Next
    <2>2. QED
      BY <2>1, BoundsAssumption DEF Typed, TypeOK
  <1>1. cfg' = cfg /\ RecoveryCalls' = RecoveryCalls /\ SwitchCalls' = SwitchCalls
    BY DEF HostStep, VerifyHomeBase, PushImages, Update, AssertArmed, Ping, Bootstrap, Flash,
           GuardReboot, Drain, RebootToExperiment, WaitForBanner, PeekConsole, Recover,
           ProbeHomeBase, BurnRetry, WaitForHomeBase, CycleOff, CycleOn,
           RecoveryCalls, RollbackPasses, SwitchCalls
  <1>2. CASE VerifyHomeBase \/ PushImages \/ Update \/ AssertArmed \/ GuardReboot \/ Drain
             \/ RebootToExperiment
    <2>1. /\ images' = images
          /\ \/ pc = "verify" /\ pc' \in {"push", "idle"}
             \/ pc = "push" /\ pc' \in {"update", "idle"}
             \/ pc = "update" /\ pc' \in {"assert_armed", "idle"}
             \/ pc = "assert_armed" /\ pc' \in {"guard", "idle"}
             \/ pc = "guard" /\ pc' \in {"drain", "idle"}
             \/ pc = "drain" /\ pc' = "reboot"
             \/ pc = "reboot" /\ pc' = "wait"
      BY <1>2 DEF VerifyHomeBase, PushImages, Update, AssertArmed, GuardReboot, Drain,
                  RebootToExperiment
    <2>2. QED
      BY <1>a, <1>1, <2>1
  <1>3. CASE Ping \/ Bootstrap \/ Flash
    <2>1. \/ images' = images /\ pc = "ping" /\ pc' \in {"bootstrap", "flash", "idle"}
          \/ images' = images /\ pc = "bootstrap" /\ pc' = "reping"
          \/ images' = images /\ pc = "reping" /\ pc' \in {"flash", "idle"}
          \/ images' \in {images, images - 1} /\ pc = "flash" /\ pc' \in {"drain", "idle"}
          \/ images' = images - 1 /\ pc = "flash" /\ pc' = "flash"
      BY <1>3 DEF Ping, Bootstrap, Flash
    <2>2. QED
      BY <1>a, <1>b, <1>1, <2>1
  <1>4. CASE WaitForBanner \/ PeekConsole
    <2>1. /\ images' = images
          /\ \/ pc = "wait" /\ pc' \in {"peek", "recover", "idle"}
             \/ pc = "peek" /\ pc' \in {"recover", "idle"}
      BY <1>4 DEF WaitForBanner, PeekConsole, Classified
    <2>2. QED
      BY <1>a, <1>1, <2>1
  <1>5. CASE Recover
    BY <1>a, <1>b, <1>1, <1>5, ConfigLemma DEF Recover, RecoverDispatch, Typed, TypeOK
  <1>6. CASE ProbeHomeBase \/ BurnRetry
    BY <1>a, <1>b, <1>1, <1>6 DEF ProbeHomeBase, BurnRetry
  <1>7. CASE WaitForHomeBase
    BY <1>a, <1>b, <1>1, <1>7, TimesAssumption DEF WaitForHomeBase
  <1>8. CASE CycleOff \/ CycleOn
    BY <1>a, <1>b, <1>1, <1>8, ConfigLemma DEF CycleOff, CycleOn, CycleReturned, Typed, TypeOK
  <1>9. QED
    BY <1>2, <1>3, <1>4, <1>5, <1>6, <1>7, <1>8 DEF HostStep

\* Every call of a command brings it nearer to its end, whatever fails.
THEOREM CallsBounded == Spec => CallsRunOut
  <1>1. IInv /\ [Next]_vars => [HostStep => CallsAhead' < CallsAhead]_vars
    BY CallsStep DEF IInv
  <1>2. QED
    BY <1>1, Inductive, PTL DEF Spec, CallsRunOut

-----------------------------------------------------------------------------
(***************************************************************************)
(* The switch.  Once it has been off and on, a device that power brings    *)
(* home is home, and the first probe of the second window sees it.         *)
(***************************************************************************)

Curable(d) ==
  d.power_cycle_recovers /\ d.successful[HomeBase] /\ ~d.successful[Experiment]

Switched ==
  /\ pc = "cycle_on" => dev.booted = None
  /\ pc = "power_wait" /\ Curable(dev) => AnchorUp(dev)

\* The switch of a device that power brings home.
LEMMA CureLemma ==
  ASSUME NEW d \in Device, Curable(d)
  PROVE  AnchorUp(PowerCycle(d))
  <1>1. ColdBootSlot(d) = HomeBase /\ HomeBase \in Slots
    BY DEF ColdBootSlot, MarkedGood, Curable, Device, Slots
  <1>2. PowerCycle(d) = BootAsActive(d, HomeBase)
    BY <1>1 DEF PowerCycle, Curable
  <1>3. QED
    BY <1>1, <1>2, BootAsActiveLemma DEF AnchorUp, Curable

LEMMA SwitchedStep ==
  ASSUME "power" \notin Faults, IInv, Switched, [Next]_vars
  PROVE  Switched'
  <1> USE DEF Switched, process, locals, Goto, Finish
  <1>1. CASE UNCHANGED vars
    BY <1>1 DEF vars, Curable
  <1>2. dev \in Device
    BY DEF IInv, Typed, TypeOK, DeviceTypeOK
  <1>3. ASSUME Next, pc # "update" PROVE Curable(dev') => Curable(dev)
    BY <1>2, <1>3, FlagsKept, DeviceMoves, MovesKeep DEF Curable
  <1>4. CASE CmdStatus \/ CmdStage \/ CmdBootExperiment \/ CmdRecover \/ CmdPower \/ NewProcess
    BY <1>4 DEF CmdStatus, CmdStage, CmdBootExperiment, CmdRecover, CmdPower, NewProcess,
                Begin, Start
  <1>5. CASE CmdIterate
    BY <1>5 DEF CmdIterate, Start
  <1>6. CASE VerifyHomeBase \/ PushImages \/ Update \/ AssertArmed \/ GuardReboot \/ Drain
    BY <1>6 DEF VerifyHomeBase, PushImages, Update, AssertArmed, GuardReboot, Drain
  <1>7. CASE Ping \/ Bootstrap \/ Flash
    BY <1>7 DEF Ping, Bootstrap, Flash
  <1>8. CASE RebootToExperiment \/ WaitForBanner \/ PeekConsole
    BY <1>8 DEF RebootToExperiment, WaitForBanner, PeekConsole, Classified
  <1>9. CASE Recover \/ ProbeHomeBase \/ BurnRetry
    BY <1>9 DEF Recover, RecoverDispatch, ProbeHomeBase, BurnRetry
  <1>10. CASE WaitForHomeBase
    <2>1. ASSUME pc = "power_wait", Curable(dev') PROVE AnchorUp(dev')
      <3>1. AnchorUp(dev)
        BY <1>3, <1>10, <2>1 DEF Next, HostStep
      <3>2. dev' = dev
        BY <1>2, <1>10, <3>1, StatusLemma DEF WaitForHomeBase, AnchorUp
      <3>3. QED
        BY <3>1, <3>2
    <2>2. QED
      BY <1>10, <2>1 DEF WaitForHomeBase
  <1>11. CASE CycleOff
    <2>1. dev' = PowerOff(dev)
      BY <1>11 DEF CycleOff, SwitchOff, SwitchAnswers
    <2>2. dev'.booted = None
      BY <1>2, <2>1 DEF PowerOff, Device
    <2>3. QED
      BY <1>11, <2>2 DEF CycleOff
  <1>12. CASE CycleOn
    <2>1. dev' = PowerCycle(dev) /\ pc # "update"
      BY <1>12 DEF CycleOn, SwitchOn, SwitchAnswers
    <2>2. Curable(dev') => AnchorUp(dev')
      BY <1>2, <1>3, <1>12, <2>1, CureLemma DEF Next, HostStep
    <2>3. QED
      BY <1>12, <2>2 DEF CycleOn, CycleReturned
  <1>13. CASE BootloaderRetry
    <2>1. dev.booted = Experiment
      BY <1>13 DEF BootloaderRetry
    <2>2. QED
      BY <1>3, <1>13, <2>1, SlotsAssumption, NoneAssumption
         DEF BootloaderRetry, AnchorUp, Next, Slots
  <1>14. QED
    BY <1>1, <1>4, <1>5, <1>6, <1>7, <1>8, <1>9, <1>10, <1>11, <1>12, <1>13
       DEF Next, Command, HostStep

LEMMA SwitchOwedStep ==
  ASSUME "ssh" \notin Faults, "power" \notin Faults, IInv, Switched, SwitchOwed, Next
  PROVE  SwitchOwed' \/ result' \in {"rolled-back", "wedged-recovered"} \/ NewProcess
  <1> USE DEF process, locals, Goto, Finish
  <1>1. dev \in Device
    BY DEF IInv, Typed, TypeOK, DeviceTypeOK
  <1>2. pc # "update" /\ pc # "idle"
    BY DEF SwitchOwed
  <1>3. Curable(dev) /\ Curable(dev')
    BY <1>1, <1>2, FlagsKept, DeviceMoves, MovesKeep DEF SwitchOwed, Curable
  <1> DEFINE Recovering ==
               pc \in {"recover", "rollback_wait", "cycle", "cycle_on", "power_wait"} /\ cmd # "power"
             Rebooting == pc \in {"reboot", "wait", "peek"} /\ cmd = "iterate" /\ ~InPlace
  <1>4. SUFFICES ASSUME ~NewProcess
                 PROVE  \/ cfg' = cfg /\ (Recovering' \/ Rebooting')
                        \/ result' \in {"rolled-back", "wedged-recovered"}
    BY <1>3 DEF SwitchOwed, Curable, PowerEnabled
  <1>5. cfg.rollback_via = "power" /\ PowerEnabled /\ (Recovering \/ Rebooting)
    BY DEF SwitchOwed
  <1>6. CASE RebootToExperiment \/ WaitForBanner \/ PeekConsole
    BY <1>5, <1>6 DEF RebootToExperiment, WaitForBanner, PeekConsole, Classified, InPlace
  <1>7. CASE Recover
    BY <1>5, <1>7 DEF Recover, RecoverDispatch
  <1>8. CASE WaitForHomeBase
    <2>1. CASE pc = "rollback_wait"
      BY <1>5, <1>8, <2>1 DEF WaitForHomeBase
    <2>2. CASE pc = "power_wait"
      <3>1. AnchorUp(dev)
        BY <1>3, <2>2 DEF Switched
      <3>2. \A st \in StatusAnswers : st = [ok |-> TRUE, dev |-> dev]
        BY <1>1, <3>1, AfterSshLemma DEF StatusAnswers, Answers, AnchorUp, Reachable
      <3>3. \A st \in StatusAnswers : HomeBaseUp(st)
        BY <3>1, <3>2 DEF HomeBaseUp, AnchorUp
      <3>4. QED
        BY <1>8, <2>2, <3>3 DEF WaitForHomeBase
    <2>3. QED
      BY <1>8, <2>1, <2>2 DEF WaitForHomeBase
  <1>9. CASE CycleOff
    BY <1>5, <1>9 DEF CycleOff, SwitchOff, SwitchAnswers
  <1>10. CASE CycleOn
    BY <1>5, <1>10 DEF CycleOn, CycleReturned, SwitchOn, SwitchAnswers
  <1>11. CASE BootloaderRetry
    BY <1>5, <1>11 DEF BootloaderRetry, InPlace
  <1>12. QED
    BY <1>4, <1>5, <1>6, <1>7, <1>8, <1>9, <1>10, <1>11
       DEF Next, Command, HostStep, CmdStatus, CmdStage, CmdBootExperiment, CmdIterate,
           CmdRecover, CmdPower, Begin, Start, VerifyHomeBase, PushImages, Update, AssertArmed,
           Ping, Bootstrap, Flash, GuardReboot, Drain, ProbeHomeBase, BurnRetry

\* A recovery with a switch, and an A/B iteration from its reboot on, end only
\* by reporting the device home, if it is one that power brings home and the
\* switch and the SSH link work.
THEOREM SwitchPays ==
  ASSUME "ssh" \notin Faults, "power" \notin Faults
  PROVE  Spec => SwitchKept
  <1>1. Init => Switched
    BY DEF Init, Switched
  <1>2. IInv /\ Switched /\ [Next]_vars => Switched'
    BY SwitchedStep
  <1>3. IInv /\ Switched /\ [Next]_vars =>
          [SwitchOwed => SwitchOwed' \/ result' \in {"rolled-back", "wedged-recovered"}
                           \/ NewProcess]_vars
    BY SwitchOwedStep
  <1>4. QED
    BY <1>1, <1>2, <1>3, Inductive, PTL DEF Spec, SwitchKept

-----------------------------------------------------------------------------
(***************************************************************************)
(* The retries.  What a device needs to come home by itself only falls: a  *)
(* kernel that panicked has nothing flashed behind it to boot instead, and *)
(* no device is left with its limit of probes passed.                      *)
(***************************************************************************)

SettledDevice(d) ==
  /\ d.booted = Experiment /\ ~ExperimentUp(d) => d.pending = None
  /\ d.rollback_after # None => d.unreachable_probes <= ProbeLimit(d)

Settled == SettledDevice(dev)

LEMMA BootSettles ==
  ASSUME NEW d \in Device, NEW slot \in Slots
  PROVE  SettledDevice(Boot(d, slot))
  <1> DEFINE e == Boot(d, slot)
  <1>1. /\ e.booted = slot /\ e.unreachable_probes = 0
        /\ slot = Experiment => e.pending = None
        /\ e.rollback_after = d.rollback_after
    BY BootFields, BootLemma
  <1> HIDE DEF e
  <1>2. e.rollback_after # None => ProbeLimit(e) \in Nat
    BY <1>1 DEF ProbeLimit, Device
  <1>3. SettledDevice(e)
    BY <1>1, <1>2 DEF SettledDevice
  <1>4. QED
    BY <1>3 DEF e

LEMMA SettledMoves ==
  ASSUME NEW d \in Device, SettledDevice(d), NEW e \in Moves(d)
  PROVE  SettledDevice(e)
  <1>1. \A f \in Device, slot \in Slots : SettledDevice(Boot(f, slot))
    BY BootSettles
  <1>2. \A f \in Device, slot \in Slots : SettledDevice(BootAsActive(f, slot))
    <2> TAKE f \in Device, slot \in Slots
    <2>1. PICK g : Beside(g, f) /\ BootAsActive(f, slot) = Boot(g, slot)
      BY AsActiveBoots
    <2>2. QED
      BY <1>1, <2>1 DEF Beside
  <1>3. \A f \in Device : SettledDevice(Reboot(f))
    <2> TAKE f \in Device
    <2>1. PICK g, slot : Beside(g, f) /\ slot \in Slots /\ Reboot(f) = Boot(g, slot)
      BY RebootBoots
    <2>2. QED
      BY <1>1, <2>1 DEF Beside
  <1>4. SettledDevice(AfterSsh(d)) /\ AfterSsh(d) \in Device
    <2> DEFINE probed == [d EXCEPT !.unreachable_probes = @ + 1]
    <2>1. SettledDevice(Rollback(d))
      BY <1>2, MarkedGoodLemma DEF Rollback
    <2>2. ASSUME d.rollback_after # None, ~ProbesExhausted(d) PROVE SettledDevice(probed)
      <3>1. /\ probed.booted = d.booted /\ probed.experiment_boots = d.experiment_boots
            /\ probed.pending = d.pending /\ probed.rollback_after = d.rollback_after
            /\ probed.unreachable_probes = d.unreachable_probes + 1
        BY DEF Device
      <3> HIDE DEF probed
      <3>2. d.unreachable_probes + 1 <= ProbeLimit(d)
        BY <2>2 DEF ProbesExhausted, ProbeLimit, Device
      <3>3. QED
        BY <3>1, <3>2 DEF SettledDevice, ExperimentUp, ProbeLimit
    <2>3. QED
      BY <2>1, <2>2, AfterSshLemma DEF AfterSsh
  <1>5. SettledDevice(SshReboot(d)) /\ SettledDevice(UartfsReboot(d))
    BY <1>3, <1>4 DEF SshReboot, UartfsReboot
  <1>6. SettledDevice(SshUpdate(d))
    <2>1. \A f \in Device, slot \in Slots :
            SettledDevice(f) => SettledDevice(FlashSlot(f, slot, TRUE))
      BY DEF FlashSlot, SettledDevice, ExperimentUp, ProbeLimit, Device
    <2>2. UpdateTarget(AfterSsh(d)) \in Slots
      BY DEF UpdateTarget, Slots
    <2>3. QED
      BY <1>4, <2>1, <2>2 DEF SshUpdate
  <1>7. SettledDevice(PowerOff(d)) /\ SettledDevice(PowerCycle(d))
    <2>1. SettledDevice(PowerOff(d))
      BY SlotsAssumption, NoneAssumption
         DEF PowerOff, SettledDevice, ExperimentUp, ProbeLimit, Device, Slots
    <2>2. Experiment \in Slots
      BY DEF Slots
    <2>3. QED
      BY <1>1, <1>2, <2>1, <2>2, MarkedGoodLemma DEF PowerCycle
  <1>8. /\ SettledDevice(UartfsBootstrap(d)) /\ SettledDevice(UartRead(d))
        /\ \A q \in Kernels \cup {None} : SettledDevice(UartfsFlash(d, q))
    BY DEF UartfsBootstrap, UartRead, UartfsFlash, AgentReachable, SettledDevice, ExperimentUp,
           ProbeLimit, Device
  <1>9. QED
    BY <1>3, <1>4, <1>5, <1>6, <1>7, <1>8 DEF Moves, Tools

LEMMA SettledInit == Init => Settled
  <1> SUFFICES ASSUME NEW k \in Knobs PROVE SettledDevice(NewDevice(k))
    BY DEF Init, DeviceInit, Settled
  <1> DEFINE flags == [s \in Slots |-> s = HomeBase /\ ~k.home_unhealthy]
             fresh == [active                  |-> HomeBase,
                       booted                  |-> HomeBase,
                       successful              |-> flags,
                       experiment_boots        |-> k.experiment_boots,
                       pending                 |-> None,
                       experiment_retries      |-> k.experiment_retries,
                       rollback_after          |-> k.rollback_after,
                       unreachable_probes      |-> 0,
                       agent_running           |-> ~k.agent_down,
                       update_marks_successful |-> k.update_marks_successful,
                       power_cycle_recovers    |-> k.power_cycle_recovers,
                       console                 |-> {},
                       unread                  |-> {}]
  <1>1. NewDevice(k) = IF k.on_experiment THEN BootAsActive(fresh, Experiment) ELSE fresh
    BY DEF NewDevice
  <1>2. k \in Knob /\ (~k.agent_down) \in BOOLEAN /\ flags \in [Slots -> BOOLEAN]
    BY KnobsAssumption DEF Knob
  <1>3. HomeBase \in Slots /\ Experiment \in Slots
    BY DEF Slots
  <1> HIDE DEF flags
  <1>4. fresh \in Device /\ fresh.booted = HomeBase /\ fresh.unreachable_probes = 0
    BY <1>2, <1>3 DEF Knob, Device
  <1> HIDE DEF fresh
  <1>5. SettledDevice(fresh)
    BY <1>4, SlotsAssumption DEF SettledDevice, ProbeLimit, Device
  <1>6. SettledDevice(BootAsActive(fresh, Experiment))
    <2>1. PICK f : Beside(f, fresh) /\ BootAsActive(fresh, Experiment) = Boot(f, Experiment)
      BY <1>3, <1>4, AsActiveBoots
    <2>2. QED
      BY <1>3, <2>1, BootSettles DEF Beside
  <1>7. QED
    BY <1>1, <1>5, <1>6

LEMMA SettledStep ==
  ASSUME IInv, Settled, [Next]_vars
  PROVE  Settled'
  <1>1. CASE UNCHANGED vars
    BY <1>1 DEF vars, Settled, SettledDevice, ExperimentUp, ProbeLimit
  <1>2. CASE Next
    BY <1>2, DeviceMoves, SettledMoves DEF Settled, IInv, Typed, TypeOK, DeviceTypeOK
  <1>3. QED
    BY <1>1, <1>2

\* The device that retries once more, and the one that has no retry left.
LEMMA RetryLemma ==
  ASSUME NEW d \in Device, d.active = Experiment, d.successful[HomeBase],
         d.experiment_retries # None
  PROVE  LET e == Reboot(d) IN
         IF d.experiment_retries = 0
         THEN AnchorUp(e)
         ELSE /\ e.booted = Experiment /\ e.active = Experiment /\ e.successful[HomeBase]
              /\ e.experiment_retries = d.experiment_retries - 1
              /\ e.experiment_boots \in {d.experiment_boots} \cup ({d.pending} \ {None})
              /\ e.pending = None
              /\ e.unreachable_probes = 0
              /\ e.rollback_after = d.rollback_after
              /\ e.agent_running = d.agent_running
  <1>1. CASE d.experiment_retries = 0
    <2>1. Reboot(d) = Rollback(d) /\ MarkedGood(d) = HomeBase
      BY <1>1 DEF Reboot, MarkedGood
    <2>2. QED
      BY <1>1, <2>1, RollbackLemma DEF AnchorUp
  <1>2. CASE d.experiment_retries # 0
    <2> DEFINE f == [d EXCEPT !.experiment_retries = @ - 1]
    <2>1. d.experiment_retries - 1 \in Nat
      BY <1>2 DEF Device
    <2>2. /\ f \in Device /\ f.active = Experiment /\ f.successful = d.successful
          /\ f.experiment_retries = d.experiment_retries - 1
          /\ f.experiment_boots = d.experiment_boots /\ f.pending = d.pending
          /\ f.rollback_after = d.rollback_after /\ f.agent_running = d.agent_running
      BY <2>1 DEF Device
    <2>3. Reboot(d) = Boot(f, Experiment) /\ Experiment \in Slots
      BY <1>2 DEF Reboot, Slots
    <2> HIDE DEF f
    <2>4. QED
      BY <1>2, <2>2, <2>3, BootFields, BootLemma
  <1>3. QED
    BY <1>1, <1>2

LEMMA Products ==
  ASSUME NEW n \in Nat, NEW l \in Nat
  PROVE  /\ n * l \in Nat /\ (n + 1) * l = n * l + l
         /\ n # 0 => (n - 1) * l = n * l - l
  OBVIOUS

\* What a recovery starts with is enough.
LEMMA EnoughToStart ==
  ASSUME IInv, Settled, pc = "recover",
         cfg.rollback_via = "retry-exhaustion", cfg.uartfs, CanExhaust(dev, RollbackPasses)
  PROVE  RetriesOwed
  <1>1. dev \in Device /\ RebootsLeft = RollbackPasses /\ RollbackPasses \in Nat
    BY ConfigLemma DEF IInv, Typed, TypeOK, DeviceTypeOK, RebootsLeft
  <1>2. CASE AgentReachable(dev)
    BY <1>1, <1>2 DEF CanExhaust, RetriesOwed, RunsOutOfRetries, AgentReachable
  <1>3. CASE ~AgentReachable(dev)
    <2>1. /\ dev.booted = Experiment /\ ~ExperimentUp(dev)
          /\ dev.rollback_after # None /\ OwnReboots(dev) # None
          /\ (OwnReboots(dev) + 1) * (dev.rollback_after - 1) <= RollbackPasses
      BY <1>3 DEF CanExhaust
    <2>2. OwnReboots(dev) \in Nat /\ dev.rollback_after \in Nat /\ dev.unreachable_probes \in Nat
      BY <1>1, <2>1 DEF OwnReboots, Device
    <2>3. dev.unreachable_probes <= ProbeLimit(dev)
      BY <2>1 DEF Settled, SettledDevice
    <2>4. CASE dev.rollback_after = 0
      <3>1. ProbeLimit(dev) = 0 /\ dev.unreachable_probes = 0 /\ OwnReboots(dev) * 0 = 0
        BY <2>2, <2>3, <2>4 DEF ProbeLimit
      <3>2. QED
        BY <1>1, <2>1, <3>1 DEF RetriesOwed, RunsOutOfProbes, CanExhaust
    <2>5. CASE dev.rollback_after # 0
      <3>1. ProbeLimit(dev) \in Nat /\ ProbeLimit(dev) = dev.rollback_after - 1
        BY <2>2, <2>5 DEF ProbeLimit
      <3>2. OwnReboots(dev) * ProbeLimit(dev) \in Nat
            /\ OwnReboots(dev) * ProbeLimit(dev) + ProbeLimit(dev) <= RollbackPasses
        BY <2>1, <2>2, <3>1, Products
      <3> DEFINE product == OwnReboots(dev) * ProbeLimit(dev)
      <3> HIDE DEF product
      <3>3. product + (ProbeLimit(dev) - dev.unreachable_probes) + 0 <= RebootsLeft
        BY <1>1, <2>2, <3>1, <3>2 DEF product
      <3>4. QED
        BY <2>1, <3>3 DEF product, RetriesOwed, RunsOutOfProbes, CanExhaust
    <2>6. QED
      BY <2>4, <2>5
  <1>4. QED
    BY <1>2, <1>3

\* A status that is asked of a device which has its anchor, or has run out of
\* probes, is answered by the home base.
LEMMA HomeAnswers ==
  ASSUME "ssh" \notin Faults, dev \in Device, NEW st \in StatusAnswers,
         AnchorUp(dev) \/ (~Reachable(dev) /\ ProbesExhausted(dev) /\ dev.successful[HomeBase])
  PROVE  HomeBaseUp(st)
  <1>1. st = [ok |-> SshAnswers(dev), dev |-> AfterSsh(dev)]
    BY DEF StatusAnswers, Answers
  <1>2. SshAnswers(dev) /\ AnchorUp(AfterSsh(dev))
    <2>1. CASE AnchorUp(dev)
      BY <2>1, AfterSshLemma DEF AnchorUp, Reachable
    <2>2. CASE ~Reachable(dev) /\ ProbesExhausted(dev) /\ dev.successful[HomeBase]
      <3>1. AfterSsh(dev) = Rollback(dev) /\ MarkedGood(dev) = HomeBase /\ SshAnswers(dev)
        BY <2>2 DEF AfterSsh, MarkedGood, SshAnswers
      <3>2. QED
        BY <2>2, <3>1, RollbackLemma DEF AnchorUp
    <2>3. QED
      BY <2>1, <2>2
  <1>3. QED
    BY <1>1, <1>2 DEF HomeBaseUp, AnchorUp

\* Otherwise it is one probe the fewer.
LEMMA ProbeSpends ==
  ASSUME "ssh" \notin Faults, dev \in Device, NEW st \in StatusAnswers,
         ~Reachable(dev), ~ProbesExhausted(dev)
  PROVE  /\ ~HomeBaseUp(st)
         /\ st.dev = IF dev.rollback_after = None THEN dev
                     ELSE [dev EXCEPT !.unreachable_probes = @ + 1]
  <1>1. st = [ok |-> SshAnswers(dev), dev |-> AfterSsh(dev)]
    BY DEF StatusAnswers, Answers
  <1>2. ~SshAnswers(dev)
    BY DEF SshAnswers
  <1>3. AfterSsh(dev) = IF dev.rollback_after = None THEN dev
                        ELSE [dev EXCEPT !.unreachable_probes = @ + 1]
    BY DEF AfterSsh
  <1>4. QED
    BY <1>1, <1>2, <1>3 DEF HomeBaseUp

LEMMA RetriesOwedStep ==
  ASSUME "ssh" \notin Faults, "uartfs" \notin Faults, IInv, Settled, RetriesOwed, Next
  PROVE  RetriesOwed' \/ result' = "rolled-back" \/ NewProcess
  <1> USE DEF process, locals, Goto, Finish
  <1>1. dev \in Device /\ RollbackPasses \in Nat /\ tries \in Nat
    BY ConfigLemma DEF IInv, Typed, TypeOK, DeviceTypeOK
  <1>2. /\ cfg.rollback_via = "retry-exhaustion" /\ cfg.uartfs
        /\ pc \in {"recover", "probe", "burn"}
        /\ RebootsLeft = (IF pc = "recover" THEN RollbackPasses ELSE tries)
    BY DEF RetriesOwed, RebootsLeft
  <1>3. \/ AnchorUp(dev)
        \/ dev.active = Experiment /\ dev.successful[HomeBase] /\ RunsOutOfRetries(dev)
        \/ dev.active = Experiment /\ dev.successful[HomeBase] /\ RunsOutOfProbes(dev)
    BY DEF RetriesOwed
  <1>4. AnchorUp(dev) => ~AgentReachable(dev) /\ ~(dev.booted = Experiment)
    BY SlotsAssumption DEF AnchorUp, AgentReachable, ExperimentUp
  <1>5. dev.booted = Experiment => ~Reachable(dev)
    BY SlotsAssumption DEF Reachable
  <1>6. CASE Recover
    <2>1. /\ dev' = dev /\ cfg' = cfg /\ pc' = "probe" /\ tries' = RollbackPasses
          /\ pc = "recover"
      BY <1>2, <1>6 DEF Recover, RecoverDispatch
    <2>2. RebootsLeft' = RebootsLeft
      BY <2>1 DEF RebootsLeft
    <2>3. QED
      BY <1>2, <1>3, <2>1, <2>2
         DEF RetriesOwed, RunsOutOfRetries, RunsOutOfProbes, AnchorUp, AgentReachable,
             ExperimentUp, OwnReboots, ProbeLimit
  <1>7. CASE ProbeHomeBase
    <2>1. PICK st \in StatusAnswers :
            /\ dev' = st.dev
            /\ \/ HomeBaseUp(st) /\ Finish("rolled-back")
               \/ ~HomeBaseUp(st) /\ tries > 0 /\ Goto("burn")
               \/ ~HomeBaseUp(st) /\ tries = 0 /\ Finish("unrecoverable")
      BY <1>7 DEF ProbeHomeBase
    <2>2. pc = "probe" /\ cfg' = cfg /\ tries' = tries /\ RebootsLeft = tries
      BY <1>7, <1>2 DEF ProbeHomeBase
    <2>3. CASE AnchorUp(dev)
      BY <1>1, <2>1, <2>3, HomeAnswers
    <2>4. CASE ~Reachable(dev) /\ ProbesExhausted(dev) /\ dev.successful[HomeBase]
      BY <1>1, <2>1, <2>4, HomeAnswers
    <2>5. CASE ~Reachable(dev) /\ ~ProbesExhausted(dev) /\ RunsOutOfRetries(dev)
               /\ dev.active = Experiment /\ dev.successful[HomeBase]
      <3>1. /\ dev'.active = dev.active /\ dev'.successful = dev.successful
            /\ dev'.booted = dev.booted /\ dev'.experiment_boots = dev.experiment_boots
            /\ dev'.agent_running = dev.agent_running /\ dev'.pending = dev.pending
            /\ dev'.experiment_retries = dev.experiment_retries
        BY <1>1, <2>1, <2>5, ProbeSpends DEF Device
      <3>2. dev.experiment_retries \in Nat /\ dev.experiment_retries < tries
        BY <1>1, <2>2, <2>5 DEF RunsOutOfRetries, Device
      <3>3. pc' = "burn" /\ RebootsLeft' = tries
        BY <1>1, <2>1, <2>2, <2>5, <3>2, ProbeSpends DEF RebootsLeft
      <3>4. RunsOutOfRetries(dev)'
        BY <2>5, <3>1, <3>2, <3>3 DEF RunsOutOfRetries, AgentReachable, ExperimentUp
      <3>5. QED
        BY <1>2, <2>2, <2>5, <3>1, <3>3, <3>4 DEF RetriesOwed
    <2>6. CASE ~Reachable(dev) /\ ~ProbesExhausted(dev) /\ RunsOutOfProbes(dev)
               /\ dev.active = Experiment /\ dev.successful[HomeBase]
      <3>1. /\ dev.rollback_after \in Nat /\ OwnReboots(dev) \in Nat
            /\ dev.unreachable_probes \in Nat /\ ProbeLimit(dev) \in Nat
            /\ dev.unreachable_probes < ProbeLimit(dev)
        BY <1>1, <2>6 DEF RunsOutOfProbes, OwnReboots, ProbesExhausted, ProbeLimit, Device
      <3>2. /\ dev'.active = dev.active /\ dev'.successful = dev.successful
            /\ dev'.booted = dev.booted /\ dev'.experiment_boots = dev.experiment_boots
            /\ dev'.rollback_after = dev.rollback_after
            /\ dev'.experiment_retries = dev.experiment_retries
            /\ dev'.unreachable_probes = dev.unreachable_probes + 1
        BY <1>1, <2>1, <2>6, <3>1, NoneAssumption, ProbeSpends DEF Device
      <3> DEFINE product == OwnReboots(dev) * ProbeLimit(dev)
      <3>3. /\ product \in Nat
            /\ product + (ProbeLimit(dev) - dev.unreachable_probes) + 0 <= tries
        BY <2>2, <2>6, <3>1, Products DEF RunsOutOfProbes
      <3>4. OwnReboots(dev)' = OwnReboots(dev) /\ ProbeLimit(dev)' = ProbeLimit(dev)
        BY <3>2 DEF OwnReboots, ProbeLimit
      <3> HIDE DEF product
      <3>5. /\ tries > 0
            /\ product + (ProbeLimit(dev) - (dev.unreachable_probes + 1)) + 1 <= tries
        BY <1>1, <3>1, <3>3
      <3>6. pc' = "burn" /\ RebootsLeft' = tries
        BY <1>1, <2>1, <2>2, <2>6, <3>5, ProbeSpends DEF RebootsLeft
      <3>7. RunsOutOfProbes(dev)'
        BY <2>6, <3>2, <3>4, <3>5, <3>6 DEF RunsOutOfProbes, ExperimentUp, product
      <3>8. QED
        BY <1>2, <2>2, <2>6, <3>2, <3>6, <3>7 DEF RetriesOwed
    <2>7. QED
      BY <1>3, <1>5, <2>3, <2>4, <2>5, <2>6
         DEF RunsOutOfRetries, RunsOutOfProbes, AgentReachable, ExperimentUp
  <1>8. CASE BurnRetry
    <2>1. /\ pc = "burn" /\ pc' = "probe" /\ cfg' = cfg /\ RebootsLeft = tries
          /\ tries' = tries - 1 /\ RebootsLeft' = tries - 1
      BY <1>2, <1>8 DEF BurnRetry, RebootsLeft
    <2>2. dev' = UartfsReboot(dev)
      BY <1>2, <1>8 DEF BurnRetry, RebootExperiment, Answers
    <2>3. CASE AnchorUp(dev)
      BY <1>2, <1>4, <2>1, <2>2, <2>3 DEF UartfsReboot, RetriesOwed, AnchorUp
    <2>4. CASE RunsOutOfRetries(dev) /\ dev.active = Experiment /\ dev.successful[HomeBase]
      <3>1. /\ dev' = Reboot(dev) /\ dev.experiment_retries \in Nat
            /\ dev.experiment_retries < tries /\ dev.experiment_retries # None
            /\ dev.experiment_boots # "bad" /\ dev.pending # "bad" /\ dev.agent_running
        BY <1>1, <2>1, <2>2, <2>4
           DEF RunsOutOfRetries, UartfsReboot, AgentReachable, ExperimentUp, Device
      <3>2. CASE dev.experiment_retries = 0
        <4>1. AnchorUp(dev')
          BY <1>1, <2>4, <3>1, <3>2, RetryLemma
        <4>2. QED
          BY <1>2, <2>1, <4>1 DEF RetriesOwed, AnchorUp
      <3>3. CASE dev.experiment_retries # 0
        <4>1. /\ dev'.booted = Experiment /\ dev'.active = Experiment /\ dev'.successful[HomeBase]
              /\ dev'.experiment_retries = dev.experiment_retries - 1
              /\ dev'.experiment_boots # "bad" /\ dev'.pending = None /\ dev'.agent_running
          BY <1>1, <2>4, <3>1, <3>3, RetryLemma
        <4>2. /\ dev'.experiment_retries # None /\ dev'.experiment_retries < tries - 1
              /\ dev'.pending # "bad"
          BY <1>1, <3>1, <3>3, <4>1, NoneAssumption DEF Kernels
        <4>3. RunsOutOfRetries(dev)'
          BY <2>1, <4>1, <4>2 DEF RunsOutOfRetries, AgentReachable, ExperimentUp
        <4>4. QED
          BY <1>2, <2>1, <4>1, <4>3 DEF RetriesOwed
      <3>4. QED
        BY <3>2, <3>3
    <2>5. CASE RunsOutOfProbes(dev) /\ dev.active = Experiment /\ dev.successful[HomeBase]
      <3>1. dev' = dev
        BY <2>2, <2>5 DEF UartfsReboot, AgentReachable, RunsOutOfProbes
      <3>2. /\ OwnReboots(dev) \in Nat /\ ProbeLimit(dev) \in Nat
            /\ dev.unreachable_probes \in Nat
        BY <1>1, <2>5 DEF RunsOutOfProbes, OwnReboots, ProbeLimit, Device
      <3> DEFINE product == OwnReboots(dev) * ProbeLimit(dev)
      <3>3. /\ product \in Nat
            /\ product + (ProbeLimit(dev) - dev.unreachable_probes) + 1 <= tries
        BY <2>1, <2>5, <3>2, Products DEF RunsOutOfProbes
      <3> HIDE DEF product
      <3>4. product + (ProbeLimit(dev) - dev.unreachable_probes) + 0 <= tries - 1
        BY <1>1, <3>2, <3>3
      <3>5. OwnReboots(dev)' = OwnReboots(dev) /\ ProbeLimit(dev)' = ProbeLimit(dev)
        BY <3>1 DEF OwnReboots, ProbeLimit
      <3>6. RunsOutOfProbes(dev)'
        BY <2>1, <2>5, <3>1, <3>4, <3>5 DEF RunsOutOfProbes, ExperimentUp, product
      <3>7. QED
        BY <1>2, <2>1, <2>5, <3>1, <3>6 DEF RetriesOwed
    <2>6. QED
      BY <1>3, <2>3, <2>4, <2>5
  <1>9. CASE BootloaderRetry
    <2>1. /\ "retry" \in Faults /\ dev' = Reboot(dev) /\ cfg' = cfg /\ pc' = pc /\ tries' = tries
          /\ dev.booted = Experiment /\ ~ExperimentUp(dev) /\ RebootsLeft' = RebootsLeft
      BY <1>9 DEF BootloaderRetry, RebootsLeft, RollbackPasses
    <2>2. RunsOutOfProbes(dev) /\ dev.active = Experiment /\ dev.successful[HomeBase]
      BY <1>3, <1>4, <2>1 DEF RunsOutOfRetries, AgentReachable
    <2>3. /\ OwnReboots(dev) = dev.experiment_retries /\ dev.experiment_retries \in Nat
          /\ dev.experiment_retries # None /\ dev.rollback_after # None
          /\ ProbeLimit(dev) \in Nat /\ dev.unreachable_probes \in Nat /\ RebootsLeft \in Nat
      BY <1>1, <1>2, <2>1, <2>2 DEF RunsOutOfProbes, OwnReboots, ProbeLimit, Device
    <2>4. dev.pending = None /\ dev.unreachable_probes <= ProbeLimit(dev)
      BY <2>1, <2>3 DEF Settled, SettledDevice
    <2>5. CASE dev.experiment_retries = 0
      <3>1. AnchorUp(dev')
        BY <1>1, <2>1, <2>2, <2>3, <2>5, RetryLemma
      <3>2. QED
        BY <1>2, <2>1, <3>1 DEF RetriesOwed, AnchorUp
    <2>6. CASE dev.experiment_retries # 0
      <3>1. /\ dev'.booted = Experiment /\ dev'.active = Experiment /\ dev'.successful[HomeBase]
            /\ dev'.experiment_retries = dev.experiment_retries - 1
            /\ dev'.experiment_boots = dev.experiment_boots
            /\ dev'.unreachable_probes = 0 /\ dev'.rollback_after = dev.rollback_after
        BY <1>1, <2>1, <2>2, <2>3, <2>4, <2>6, RetryLemma
      <3>2. /\ OwnReboots(dev)' = OwnReboots(dev) - 1 /\ ProbeLimit(dev)' = ProbeLimit(dev)
            /\ OwnReboots(dev)' # None
        BY <2>1, <2>3, <2>6, <3>1, NoneAssumption DEF OwnReboots, ProbeLimit
      <3> DEFINE burning == IF pc = "burn" THEN 1 ELSE 0
                 product == OwnReboots(dev) * ProbeLimit(dev)
                 less    == (OwnReboots(dev) - 1) * ProbeLimit(dev)
      <3>3. product \in Nat /\ less = product - ProbeLimit(dev) /\ burning \in Nat
        BY <2>3, <2>6, Products
      <3>4. product + (ProbeLimit(dev) - dev.unreachable_probes) + burning <= RebootsLeft
        BY <2>2 DEF RunsOutOfProbes
      <3>5. burning' = burning
        BY <2>1
      <3> HIDE DEF product, less, burning
      <3>6. less + (ProbeLimit(dev) - 0) + burning <= RebootsLeft
        BY <2>3, <2>4, <3>3, <3>4
      <3>7. RunsOutOfProbes(dev)'
        BY <2>1, <2>3, <3>1, <3>2, <3>6 DEF RunsOutOfProbes, ExperimentUp, less, burning
      <3>8. QED
        BY <1>2, <2>1, <3>1, <3>7 DEF RetriesOwed
    <2>7. QED
      BY <2>5, <2>6
  <1>10. QED
    BY <1>2, <1>6, <1>7, <1>8, <1>9
       DEF Next, Command, HostStep, CmdStatus, CmdStage, CmdBootExperiment, CmdIterate,
           CmdRecover, CmdPower, Begin, Start, VerifyHomeBase, PushImages, Update, AssertArmed,
           Ping, Bootstrap, Flash, GuardReboot, Drain, RebootToExperiment, WaitForBanner,
           PeekConsole, WaitForHomeBase, CycleOff, CycleOn

\* A retry-exhaustion recovery that starts with a reboot more than the retries
\* of the slot, or a probe for each time the bootloader waits for them, ends
\* only by reporting the device rolled back, if its links work: neither the
\* bootloader's own reboots nor the reboots it spends itself use up the margin.
THEOREM RetriesPay ==
  ASSUME "ssh" \notin Faults, "uartfs" \notin Faults
  PROVE  Spec => RetriesKept
  <1>1. IInv /\ Settled /\ [Next]_vars => Settled'
    BY SettledStep
  <1>2. IInv /\ Settled /\ [Next]_vars =>
          [/\ pc = "recover" /\ cfg.rollback_via = "retry-exhaustion" /\ cfg.uartfs
                /\ CanExhaust(dev, RollbackPasses) => RetriesOwed
           /\ RetriesOwed => RetriesOwed' \/ result' = "rolled-back" \/ NewProcess]_vars
    BY EnoughToStart, RetriesOwedStep
  <1>3. QED
    BY <1>1, <1>2, SettledInit, Inductive, PTL DEF Spec, RetriesKept
=============================================================================
