---------------------------- MODULE Orchestrator ----------------------------
(***************************************************************************)
(* The benchctl host: the commands of src/benchctl/cli.py running          *)
(* src/benchctl/orchestrator.py against the device of FakeDevice.          *)
(*                                                                         *)
(* One action is one call that leaves the host (an SSH command, a uartfs   *)
(* or uart invocation, a use of the power switch) together with the        *)
(* decisions the code takes on its answer, so that whatever else may       *)
(* happen to the device happens between two actions.  pc names the next    *)
(* such call; at "idle" no command runs.                                   *)
(***************************************************************************)
EXTENDS FakeDevice, Integers

CONSTANTS
  Configs,       \* the configurations commands may run under: a set of Config records
  Faults,        \* what may go wrong outside the code: a subset of FaultKinds
  PollInterval,  \* timeouts.poll_interval, in units of time
  ProbeLags,     \* how long a reachability probe may take to answer, in those units
  MaxImages,     \* most images named on one command line
  MaxReboots     \* bound: no command starts once reboots_used exceeds it

\* "ssh", "uartfs": a call is lost on its way out or on its way back; "uart":
\* a console call fails; "power": the switch does not answer or does not obey;
\* "retry": the bootloader retries a panicked slot by itself; "kill": the
\* process dies between two calls of a command.
FaultKinds == {"ssh", "uartfs", "uart", "power", "retry", "kill"}

\* power.backend: tasmota and shelly are one relay driven over HTTP.
Backends == {"none", "http", "uhubctl"}

\* The fields of config.py that decide something.  uartfs: the transport to the
\* experiment is wired; success: the banners that the success regex matches
\* (the fail regex matches "bad" alone); the two waits are in the units of
\* PollInterval.  The two integers are taken as they are written, a negative
\* one too.
Config == [flash             : {"uartfs", "pixel-ota", "fastboot"},
           rollback_via      : {"retry-exhaustion", "power", "fastboot", "unknown"},
           rollback_reboots  : Int,
           reboot_budget     : Int,
           power             : Backends,
           auto_bootstrap    : BOOLEAN,
           uartfs            : BOOLEAN,
           success           : SUBSET {"home", "good"},
           rollback_wait     : Nat,
           power_cycle_wait  : Nat]

ASSUME ConfigsAssumption == Configs \subseteq Config
ASSUME FaultsAssumption  == Faults \subseteq FaultKinds
ASSUME TimesAssumption   == PollInterval \in Nat \ {0} /\ ProbeLags \subseteq Nat
ASSUME BoundsAssumption  == MaxImages \in Nat \ {0} /\ MaxReboots \in Nat

Commands == {"none", "status", "stage", "boot-experiment", "iterate", "recover", "power"}
Steps == {"idle", "verify", "push", "update", "assert_armed", "guard",
          "drain", "reboot", "wait", "peek",
          "ping", "bootstrap", "reping", "flash",
          "recover", "probe", "burn", "rollback_wait", "cycle", "cycle_on", "power_wait"}
Classifications == {"none", "success", "failed", "timeout"}
\* What the command reported: the exit status of cli.py, or the outcome of a
\* recovery.  "crash" is an exception that main() does not catch.
Results == {"none", "ok", "error", "refusal", "unrecoverable", "boot-failed",
            "rolled-back", "wedged-recovered", "iterated", "crash"}

VARIABLES
  cfg,                \* the configuration of this process
  reboots_used,       \* Orchestrator.reboots_used
  power_cycle_count,  \* Orchestrator.power_cycle_count
  pc,                 \* the next call of the running command
  cmd,                \* the command running, or the last one that ran
  boot,               \* classification of its experiment boot
  images,             \* images it has still to flash over uartfs
  tries,              \* reboots its retry loop may still spend
  left,               \* time to the deadline of its wait for the home base
  result              \* what it reported

process == <<cfg, reboots_used, power_cycle_count>>
locals  == <<cmd, boot, images, tries, left>>
vars    == <<dev, process, pc, locals, result>>

Goto(step)  == pc' = step /\ UNCHANGED result
Finish(res) == pc' = "idle" /\ result' = res

-----------------------------------------------------------------------------
(***************************************************************************)
(* Calls that leave the host, and what the host decides on their answers.  *)
(***************************************************************************)

\* What a call over a link may come to: `after' and its true status, or, on a
\* faulty link, a failure reported whether or not the device did the work.
Answers(link, ok, after) ==
  {[ok |-> ok, dev |-> after]} \cup
  (IF link \in Faults THEN {[ok |-> FALSE, dev |-> d] : d \in {dev, after}} ELSE {})

StatusAnswers == Answers("ssh", SshAnswers(dev), AfterSsh(dev))

\* PowerConfig.enabled and _power_reachable
PowerEnabled == cfg.power # "none"
PowerReachable ==
  IF PowerEnabled /\ "power" \in Faults THEN BOOLEAN ELSE {TRUE}

\* One command to the switch, in a backend's off, on and cycle.  An HTTP
\* request that fails raises, before or after the relay acted; uhubctl's
\* failure is an exit status that nobody reads.
SwitchAnswersIgnored(afters) ==
  [raised : {FALSE}, dev : afters \cup (IF "power" \in Faults THEN {dev} ELSE {})]
SwitchAnswers(afters) ==
  [raised : {FALSE}, dev : afters] \cup
  (IF "power" \notin Faults THEN {}
   ELSE [raised : {cfg.power = "http"}, dev : {dev} \cup (IF cfg.power = "http" THEN afters ELSE {})])

\* A relay that is on already stays on; the simulated one cycles.
SwitchOff == SwitchAnswers({PowerOff(dev)})
SwitchOn  == SwitchAnswers({PowerCycle(dev)} \cup (IF dev.booted = None THEN {} ELSE {dev}))

\* The three readings of a slot status: verify_home_base, _guard_reboot and
\* _home_base_up; and the assertion at the end of stage.
HomeBaseVerifiedAnySlot(st, power) ==
  st.ok /\ st.dev.successful[HomeBase] /\ power
HomeBaseVerified(st, power) ==
  st.ok /\ st.dev.active = HomeBase /\ st.dev.successful[HomeBase] /\ power

RebootGuardOkNoAnchor(st, power) == st.ok /\ power
RebootGuardOk(st, power) == st.ok /\ st.dev.successful[HomeBase] /\ power

HomeBaseUpFlagOnly(st) == st.ok /\ st.dev.successful[HomeBase]
HomeBaseUpNoFlag(st) == st.ok /\ st.dev.active = HomeBase
HomeBaseUp(st) ==
  st.ok /\ st.dev.active = HomeBase /\ st.dev.successful[HomeBase]

ArmedActiveOnly(st) == st.dev.active = Experiment
Armed(st) == st.dev.active = Experiment /\ ~st.dev.successful[Experiment]

\* _check_reboot_budget for one iteration: its own reboot and the recovery's.
WithinBudgetRecoveryOnly ==
  cfg.reboot_budget = 0 \/ reboots_used + cfg.rollback_reboots <= cfg.reboot_budget
WithinBudget ==
  \/ cfg.reboot_budget = 0
  \/ reboots_used + 1 + cfg.rollback_reboots <= cfg.reboot_budget

\* The passes of `for _ in range(rollback_reboots)'.
RollbackPasses == IF cfg.rollback_reboots > 0 THEN cfg.rollback_reboots ELSE 0

\* The in-place loop, as opposed to A/B: every other flash backend is A/B.
InPlace == cmd = "iterate" /\ cfg.flash = "uartfs"

\* _reboot_via_ssh and _reboot_experiment: the answer is not looked at.
RebootViaSsh == {a.dev : a \in Answers("ssh", TRUE, SshReboot(dev))}
RebootExperiment ==
  IF cfg.uartfs
  THEN {a.dev : a \in Answers("uartfs", TRUE, UartfsReboot(dev))}
  ELSE RebootViaSsh

-----------------------------------------------------------------------------
(***************************************************************************)
(* Commands start.                                                         *)
(***************************************************************************)

Start(c) ==
  /\ pc = "idle"
  /\ reboots_used <= MaxReboots
  /\ cmd' = c
  /\ boot' = "none" /\ tries' = 0 /\ left' = 0

Begin(c, step) ==
  /\ Start(c) /\ pc' = step /\ result' = "none" /\ images' = 0
  /\ UNCHANGED <<dev, process>>

CmdStatus ==
  /\ Start("status") /\ Finish("ok") /\ images' = 0
  /\ \E st \in StatusAnswers : dev' = st.dev
  /\ UNCHANGED process

CmdStage          == Begin("stage", "verify")
CmdBootExperiment == Begin("boot-experiment", "guard")
CmdRecover        == Begin("recover", "recover")

CmdIterate ==
  /\ Start("iterate")
  /\ \/ /\ WithinBudget /\ (cfg.flash = "uartfs" => cfg.uartfs)
        /\ images' \in 1..MaxImages
        /\ pc' = IF cfg.flash = "uartfs" THEN "ping" ELSE "verify"
        /\ result' = "none"
     \/ /\ ~(WithinBudget /\ (cfg.flash = "uartfs" => cfg.uartfs))
        /\ images' = 0 /\ Finish("refusal")
  /\ UNCHANGED <<dev, process>>

\* off and on are one command to the switch; cycle is both, with a pause.
CmdPower ==
  /\ Start("power") /\ images' = 0
  /\ \/ ~PowerEnabled /\ Finish("refusal") /\ UNCHANGED dev
     \/ /\ PowerEnabled
        /\ \E a \in SwitchOff \cup SwitchOn :
             dev' = a.dev /\ Finish(IF a.raised THEN "crash" ELSE "ok")
     \/ PowerEnabled /\ pc' = "cycle" /\ result' = "none" /\ UNCHANGED dev
  /\ UNCHANGED process

\* A new process builds a new Orchestrator; with the same process, commands
\* share one (main's orchestrator argument).  A killed one leaves its command
\* where it was.
NewProcess ==
  /\ pc = "idle" \/ "kill" \in Faults
  /\ cfg' \in Configs
  /\ reboots_used' = 0 /\ power_cycle_count' = 0
  /\ cmd' = "none" /\ boot' = "none" /\ images' = 0 /\ tries' = 0 /\ left' = 0
  /\ Finish("none")
  /\ UNCHANGED dev

-----------------------------------------------------------------------------
(***************************************************************************)
(* stage: the A/B flash.                                                   *)
(***************************************************************************)

VerifyHomeBase ==
  /\ pc = "verify"
  /\ \E st \in StatusAnswers, power \in PowerReachable :
       /\ dev' = st.dev
       /\ IF HomeBaseVerified(st, power) THEN Goto("push") ELSE Finish("refusal")
  /\ UNCHANGED <<process, locals>>

\* mkdir, whose answer is not looked at, and one scp per image.
PushImages ==
  /\ pc = "push"
  /\ \E push \in Answers("ssh", TRUE, AfterSsh(dev)) :
       /\ dev' = push.dev
       /\ IF push.ok THEN Goto("update") ELSE Finish("error")
  /\ UNCHANGED <<process, locals>>

Update ==
  /\ pc = "update"
  /\ \E ota \in Answers("ssh", SshAnswers(dev), SshUpdate(dev)) :
       /\ dev' = ota.dev
       /\ IF ota.ok THEN Goto("assert_armed") ELSE Finish("error")
  /\ UNCHANGED <<process, locals>>

AssertArmed ==
  /\ pc = "assert_armed"
  /\ \E st \in StatusAnswers :
       /\ dev' = st.dev
       /\ \/ ~st.ok /\ Finish("error")
          \/ st.ok /\ ~Armed(st) /\ Finish("refusal")
          \/ st.ok /\ Armed(st) /\ cmd = "stage" /\ Finish("ok")
          \/ st.ok /\ Armed(st) /\ cmd = "iterate" /\ Goto("guard")
  /\ UNCHANGED <<process, locals>>

-----------------------------------------------------------------------------
(***************************************************************************)
(* iterate_uartfs: the in-place flash.                                     *)
(***************************************************************************)

Ping ==
  /\ pc \in {"ping", "reping"}
  /\ \E up \in {a.ok : a \in Answers("uartfs", AgentReachable(dev), dev)} :
       \/ up /\ Goto("flash")
       \/ ~up /\ pc = "ping" /\ cfg.auto_bootstrap /\ Goto("bootstrap")
       \/ ~up /\ ~(pc = "ping" /\ cfg.auto_bootstrap) /\ Finish("refusal")
  /\ UNCHANGED <<dev, process, locals>>

Bootstrap ==
  /\ pc = "bootstrap"
  /\ \E a \in Answers("uartfs", TRUE, UartfsBootstrap(dev)) : dev' = a.dev
  /\ Goto("reping")
  /\ UNCHANGED <<process, locals>>

\* One image; what it will do when booted is not known to the host.
Flash ==
  /\ pc = "flash"
  /\ \E quality \in Kernels \cup {None} :
     \E a \in Answers("uartfs", AgentReachable(dev), UartfsFlash(dev, quality)) :
       /\ dev' = a.dev
       /\ images' = IF a.ok THEN images - 1 ELSE images
       /\ \/ ~a.ok /\ Finish("error")
          \/ a.ok /\ images > 1 /\ Goto("flash")
          \/ a.ok /\ images = 1 /\ Goto("drain")
  /\ UNCHANGED <<process, cmd, boot, tries, left>>

-----------------------------------------------------------------------------
(***************************************************************************)
(* boot_experiment and _classify_after: one reboot, one classification.    *)
(***************************************************************************)

GuardReboot ==
  /\ pc = "guard"
  /\ \E st \in StatusAnswers, power \in PowerReachable :
       /\ dev' = st.dev
       /\ IF RebootGuardOk(st, power) THEN Goto("drain") ELSE Finish("refusal")
  /\ UNCHANGED <<process, locals>>

\* uart read: a failure reads as an empty console and is not noticed.
DrainNothing == pc = "drain" /\ Goto("reboot") /\ UNCHANGED <<dev, process, locals>>
Drain ==
  /\ pc = "drain"
  /\ \E a \in Answers("uart", TRUE, UartRead(dev)) : dev' = a.dev
  /\ Goto("reboot")
  /\ UNCHANGED <<process, locals>>

RebootToExperiment ==
  /\ pc = "reboot"
  /\ dev' \in (IF InPlace THEN RebootExperiment ELSE RebootViaSsh)
  /\ reboots_used' = reboots_used + 1
  /\ Goto("wait")
  /\ UNCHANGED <<cfg, power_cycle_count, locals>>

Classified(class) ==
  /\ boot' = class
  /\ IF cmd = "boot-experiment"
     THEN Finish(IF class = "success" THEN "ok" ELSE "boot-failed")
     ELSE IF InPlace /\ class = "success" THEN Finish("iterated") ELSE Goto("recover")

\* uart wait: a failed call and a regex that never matched are one UartTimeout.
WaitForBanner ==
  /\ pc = "wait"
  /\ \E heard \in {a.ok : a \in Answers("uart", dev.unread \cap cfg.success # {}, dev)} :
       IF heard THEN Classified("success") ELSE Goto("peek") /\ UNCHANGED boot
  /\ UNCHANGED <<dev, process, cmd, images, tries, left>>

\* uart peek shows the whole console.
PeekConsole ==
  /\ pc = "peek"
  /\ \E shown \in {a.ok : a \in Answers("uart", TRUE, dev)} :
       Classified(IF shown /\ "bad" \in dev.console THEN "failed" ELSE "timeout")
  /\ UNCHANGED <<dev, process, cmd, images, tries, left>>

-----------------------------------------------------------------------------
(***************************************************************************)
(* recover.                                                                *)
(***************************************************************************)

RecoverDispatch ==
  \/ /\ cfg.rollback_via = "retry-exhaustion"
     /\ tries' = RollbackPasses /\ UNCHANGED left /\ Goto("probe")
  \/ /\ cfg.rollback_via = "power"
     /\ left' = cfg.rollback_wait /\ UNCHANGED tries /\ Goto("rollback_wait")
  \/ /\ cfg.rollback_via \in {"fastboot", "unknown"}
     /\ UNCHANGED <<tries, left>> /\ Finish("refusal")

RecoverKeepingCount ==
  /\ pc = "recover"
  /\ RecoverDispatch
  /\ UNCHANGED <<dev, process, cmd, boot, images>>
Recover ==
  /\ pc = "recover"
  /\ power_cycle_count' = 0
  /\ RecoverDispatch
  /\ UNCHANGED <<dev, cfg, reboots_used, cmd, boot, images>>

\* _recover_retry_exhaustion: a probe before every reboot and one after the last.
ProbeHomeBaseOffByOne ==
  /\ pc = "probe"
  /\ \E st \in StatusAnswers :
       /\ dev' = st.dev
       /\ IF HomeBaseUp(st) THEN Finish("rolled-back") ELSE Goto("burn")
  /\ UNCHANGED <<process, locals>>
ProbeHomeBaseNotLast ==
  /\ pc = "probe"
  /\ \E st \in StatusAnswers :
       /\ dev' = st.dev
       /\ \/ HomeBaseUp(st) /\ tries > 0 /\ Finish("rolled-back")
          \/ ~HomeBaseUp(st) /\ tries > 0 /\ Goto("burn")
          \/ tries = 0 /\ Finish("unrecoverable")
  /\ UNCHANGED <<process, locals>>
ProbeHomeBase ==
  /\ pc = "probe"
  /\ \E st \in StatusAnswers :
       /\ dev' = st.dev
       /\ \/ HomeBaseUp(st) /\ Finish("rolled-back")
          \/ ~HomeBaseUp(st) /\ tries > 0 /\ Goto("burn")
          \/ ~HomeBaseUp(st) /\ tries = 0 /\ Finish("unrecoverable")
  /\ UNCHANGED <<process, locals>>

BurnRetry ==
  /\ pc = "burn"
  /\ dev' \in RebootExperiment
  /\ reboots_used' = reboots_used + 1
  /\ tries' = tries - 1
  /\ Goto("probe")
  /\ UNCHANGED <<cfg, power_cycle_count, cmd, boot, images, left>>

\* _wait_for_home_base, in both windows of _recover_power: probe, give up if
\* the deadline has passed, sleep, probe again.
WaitForHomeBaseForever ==
  /\ pc \in {"rollback_wait", "power_wait"}
  /\ \E st \in StatusAnswers :
       /\ dev' = st.dev
       /\ IF HomeBaseUp(st) THEN Finish("rolled-back") ELSE Goto(pc)
  /\ UNCHANGED <<process, locals>>
WaitForHomeBase ==
  /\ pc \in {"rollback_wait", "power_wait"}
  /\ \E st \in StatusAnswers, lag \in ProbeLags :
       /\ dev' = st.dev
       /\ \/ /\ HomeBaseUp(st) /\ UNCHANGED left
             /\ Finish(IF pc = "rollback_wait" THEN "rolled-back" ELSE "wedged-recovered")
          \/ /\ ~HomeBaseUp(st) /\ left <= lag /\ left' = 0
             /\ IF pc = "rollback_wait" /\ PowerEnabled
                THEN Goto("cycle") ELSE Finish("unrecoverable")
          \/ /\ ~HomeBaseUp(st) /\ left > lag /\ Goto(pc)
             /\ left' = IF left > lag + PollInterval THEN left - lag - PollInterval ELSE 0
  /\ UNCHANGED <<process, cmd, boot, images, tries>>

\* cycle: off, a pause, on.  The recovery counts it once it has returned.
CycleOff ==
  /\ pc = "cycle"
  /\ \E a \in SwitchOff :
       dev' = a.dev /\ IF a.raised THEN Finish("crash") ELSE Goto("cycle_on")
  /\ UNCHANGED <<process, locals>>

CycleReturnedToWindow ==
  IF cmd = "power"
  THEN Finish("ok") /\ UNCHANGED <<power_cycle_count, left>>
  ELSE /\ power_cycle_count' = power_cycle_count + 1
       /\ left' = cfg.rollback_wait
       /\ Goto("rollback_wait")
CycleReturned ==
  IF cmd = "power"
  THEN Finish("ok") /\ UNCHANGED <<power_cycle_count, left>>
  ELSE /\ power_cycle_count' = power_cycle_count + 1
       /\ left' = cfg.power_cycle_wait
       /\ Goto("power_wait")

CycleOnNever ==
  /\ pc = "cycle_on"
  /\ CycleReturned
  /\ UNCHANGED <<dev, cfg, reboots_used, cmd, boot, images, tries>>
CycleOn ==
  /\ pc = "cycle_on"
  /\ \E a \in SwitchOn :
       /\ dev' = a.dev
       /\ \/ ~a.raised /\ CycleReturned
          \/ a.raised /\ Finish("crash") /\ UNCHANGED <<power_cycle_count, left>>
  /\ UNCHANGED <<cfg, reboots_used, cmd, boot, images, tries>>

-----------------------------------------------------------------------------
\* The bootloader reboots a slot that panicked, whatever the host is doing.
BootloaderRetry ==
  /\ "retry" \in Faults
  /\ dev.booted = Experiment /\ ~ExperimentUp(dev)
  /\ dev' = Reboot(dev)
  /\ UNCHANGED <<process, pc, locals, result>>

Init ==
  /\ DeviceInit
  /\ cfg \in Configs
  /\ reboots_used = 0 /\ power_cycle_count = 0
  /\ pc = "idle" /\ cmd = "none" /\ result = "none"
  /\ boot = "none" /\ images = 0 /\ tries = 0 /\ left = 0

\* A command that starts, and a step of a command that runs.
Command ==
  \/ CmdStatus \/ CmdStage \/ CmdBootExperiment \/ CmdIterate \/ CmdRecover
  \/ CmdPower \/ NewProcess
HostStep ==
  \/ VerifyHomeBase \/ PushImages \/ Update \/ AssertArmed
  \/ Ping \/ Bootstrap \/ Flash
  \/ GuardReboot \/ Drain \/ RebootToExperiment \/ WaitForBanner \/ PeekConsole
  \/ Recover \/ ProbeHomeBase \/ BurnRetry \/ WaitForHomeBase
  \/ CycleOff \/ CycleOn

Next == Command \/ HostStep \/ BootloaderRetry

Spec == Init /\ [][Next]_vars

\* Every call of a running command returns: SSHDevice bounds each of its own
\* (device.py), and the local binaries are assumed to.
Fairness == WF_vars(HostStep)
FairSpec == Spec /\ Fairness

-----------------------------------------------------------------------------
(***************************************************************************)
(* What the commands guarantee.                                            *)
(***************************************************************************)

\* Every variable keeps its type; in particular the retry loop and the flash
\* loop never count below zero.
TypeOK ==
  /\ DeviceTypeOK
  /\ cfg \in Configs
  /\ reboots_used \in Nat /\ power_cycle_count \in Nat
  /\ pc \in Steps /\ cmd \in Commands /\ result \in Results
  /\ boot \in Classifications
  /\ images \in 0..MaxImages /\ tries \in Nat /\ left \in Nat

\* The home base is up and is what any later reboot or rollback falls back to.
AnchorUp(d) ==
  d.booted = HomeBase /\ d.active = HomeBase /\ d.successful[HomeBase]

\* README.md: "Home base slot stays successful; never cleared."  No step of
\* the host, of the device it drives or of the bootloader clears the flag:
\* pixel-ota is run only where it flashes the other slot.
HomeBaseNeverCleared ==
  [][dev.successful[HomeBase] => dev'.successful[HomeBase]]_vars

\* From the assertion of stage to the reboot of the same A/B iteration, the
\* device stays armed for a rollback: the experiment is active and unproven.
RollbackArmed ==
  cmd = "iterate" /\ ~InPlace /\ pc \in {"guard", "drain", "reboot"}
    => dev.active = Experiment /\ ~dev.successful[Experiment]

\* A reboot into the experiment by boot-experiment or by an A/B iteration
\* finds the home base a valid anchor, on the device as it is by then.
AnchorBeforeReboot ==
  pc \in {"drain", "reboot"} /\ ~InPlace => dev.successful[HomeBase]

\* A recovery that reports success has the home base booted, active and
\* marked successful, and it is still so when the next command starts.
RecoveredMeansHome ==
  result \in {"rolled-back", "wedged-recovered"} => AnchorUp(dev)

\* plan.md: "exactly one power-cycle".  The switch is used at most once per
\* recovery, the outcome says whether it was, and the power strategy never
\* gives up without having used the switch it has.
CycleAccounting ==
  /\ power_cycle_count <= 1
  /\ result = "rolled-back" => power_cycle_count = 0
  /\ result = "wedged-recovered" => power_cycle_count = 1
  /\ result = "unrecoverable" =>
       (power_cycle_count = 1 <=> cfg.rollback_via = "power" /\ PowerEnabled)

\* A recovery that used an HTTP switch and gave up has left the power on: a
\* relay that did not answer is an exception, never a silent outcome.  (With
\* uhubctl it is one; and a killed process leaves what it left.)
DarkIsTold ==
  result = "unrecoverable" /\ power_cycle_count = 1 /\ cfg.power = "http"
    => dev.booted # None

\* An iteration that the budget check let start never makes more reboots than
\* the budget has left, its recovery included.  (A negative rollback_reboots
\* would take the iteration's own reboot out of the estimate.)
IterationStaysInBudget ==
  cmd = "iterate" /\ pc # "idle" /\ cfg.reboot_budget > 0 /\ cfg.rollback_reboots >= 0
    => reboots_used <= cfg.reboot_budget

\* orchestrator.py in _classify_after: "so we classify *this* boot".  A boot is
\* classified a success by the banner of what is up: a kernel that has a shell,
\* or a home base, where the success regex admits it.  No banner of an earlier
\* boot, which the console still shows, is taken for it.
SuccessIsOfThisBoot ==
  [][boot # "success" /\ boot' = "success" =>
       \/ ExperimentUp(dev) /\ "good" \in cfg.success
       \/ dev.booted = HomeBase /\ "home" \in cfg.success]_vars

\* Every command ends, whatever fails around it (plan.md: "never hangs").
CommandTerminates == pc # "idle" ~> pc = "idle"

\* The promise of the A/B loop: once it reboots into the experiment, whatever
\* that kernel does, and with a switch that works, the home base comes back.
GuaranteedReturn ==
  /\ pc = "reboot" /\ cmd = "iterate" /\ ~InPlace
  /\ cfg.rollback_via = "power" /\ PowerEnabled /\ dev.power_cycle_recovers
  ~> result \in {"rolled-back", "wedged-recovered"}

\* The promise of the switch: a recovery that has one brings home any device
\* with a proven home base and an unproven experiment, be it dark because an
\* earlier power cycle was cut short.
SwitchBringsHome ==
  /\ pc = "recover" /\ cfg.rollback_via = "power" /\ PowerEnabled
  /\ dev.power_cycle_recovers
  /\ dev.successful[HomeBase] /\ ~dev.successful[Experiment]
  ~> result \in {"rolled-back", "wedged-recovered"}

\* The promise of the in-place loop's recovery: with one more reboot allowed
\* than the slot has retries left, or one probe for each that the bootloader
\* waits for, the home base comes back without a power switch.  A bootloader
\* that reboots by itself sets the count of probes back, at most once for each
\* retry it has.
OwnReboots(d) == IF "retry" \in Faults THEN d.experiment_retries ELSE 0

CanExhaust(d, reboots) ==
  /\ d.active = Experiment /\ d.successful[HomeBase]
  /\ \/ /\ AgentReachable(d) /\ d.pending # "bad"
        /\ d.experiment_retries # None /\ d.experiment_retries < reboots
     \/ /\ d.booted = Experiment /\ ~ExperimentUp(d)
        /\ d.rollback_after # None /\ OwnReboots(d) # None
        /\ (OwnReboots(d) + 1) * (d.rollback_after - 1) <= reboots

RetryExhaustionSuffices ==
  /\ pc = "recover" /\ cfg.rollback_via = "retry-exhaustion" /\ cfg.uartfs
  /\ CanExhaust(dev, RollbackPasses)
  ~> result = "rolled-back"

-----------------------------------------------------------------------------
(***************************************************************************)
(* Why they come about, step by step: a command has only so many calls     *)
(* left, and what it owes it owes until it has paid.                       *)
(***************************************************************************)

\* The calls that a power cycle and the second window may take, and those of a
\* recovery once it is under way.
SwitchCalls == 3 + cfg.power_cycle_wait
RecoveryCalls ==
  CASE cfg.rollback_via = "retry-exhaustion" -> 2 * RollbackPasses + 1
    [] cfg.rollback_via = "power"            -> cfg.rollback_wait + 1 + SwitchCalls
    [] OTHER                                 -> 0

CallsBeforeRecovery ==
  [verify |-> 10, push |-> 9, update |-> 8, assert_armed |-> 7, guard |-> 6,
   ping |-> 9, bootstrap |-> 8, reping |-> 7, flash |-> 6,
   drain |-> 5, reboot |-> 4, wait |-> 3, peek |-> 2, recover |-> 1]

\* The most calls that the running command still makes.
CallsAhead ==
  CASE pc \in DOMAIN CallsBeforeRecovery -> CallsBeforeRecovery[pc] + images + RecoveryCalls
    [] pc = "probe"         -> 2 * tries + 1
    [] pc = "burn"          -> 2 * tries
    [] pc = "rollback_wait" -> left + 1 + SwitchCalls
    [] pc = "cycle"         -> SwitchCalls
    [] pc = "cycle_on"      -> SwitchCalls - 1
    [] pc = "power_wait"    -> left + 1
    [] OTHER                -> 0

\* plan.md: "never hangs".  Whatever fails around it, every call brings a
\* command nearer to its end, which the configuration and the number of images
\* put at a known distance.
CallsRunOut == [][HostStep => CallsAhead' < CallsAhead]_vars

\* A switch that works, and a device for it to bring home.
SwitchOwed ==
  /\ cfg.rollback_via = "power" /\ PowerEnabled /\ dev.power_cycle_recovers
  /\ dev.successful[HomeBase] /\ ~dev.successful[Experiment]
  /\ \/ pc \in {"recover", "rollback_wait", "cycle", "cycle_on", "power_wait"} /\ cmd # "power"
     \/ pc \in {"reboot", "wait", "peek"} /\ cmd = "iterate" /\ ~InPlace

\* With a switch and an SSH link that work, neither a recovery nor an A/B
\* iteration that has come to its reboot ends, unless killed, but by reporting
\* the device home.
SwitchKept ==
  [][SwitchOwed =>
       SwitchOwed' \/ result' \in {"rolled-back", "wedged-recovered"} \/ NewProcess]_vars

\* Reboots that a retry-exhaustion recovery has left, and what a device needs
\* of them: one more than the retries of a slot that runs, a probe each time
\* for one that waits for them.
RebootsLeft == IF pc = "recover" THEN RollbackPasses ELSE tries
ProbeLimit(d) == IF d.rollback_after = 0 THEN 0 ELSE d.rollback_after - 1

RunsOutOfRetries(d) ==
  /\ AgentReachable(d) /\ d.pending # "bad"
  /\ d.experiment_retries # None /\ d.experiment_retries < RebootsLeft
RunsOutOfProbes(d) ==
  /\ d.booted = Experiment /\ ~ExperimentUp(d)
  /\ d.rollback_after # None /\ OwnReboots(d) # None
  /\ OwnReboots(d) * ProbeLimit(d) + (ProbeLimit(d) - d.unreachable_probes)
       + (IF pc = "burn" THEN 1 ELSE 0) <= RebootsLeft

RetriesOwed ==
  /\ cfg.rollback_via = "retry-exhaustion" /\ cfg.uartfs
  /\ pc \in {"recover", "probe", "burn"}
  /\ \/ AnchorUp(dev)
     \/ /\ dev.active = Experiment /\ dev.successful[HomeBase]
        /\ RunsOutOfRetries(dev) \/ RunsOutOfProbes(dev)

\* With links that work, a retry-exhaustion recovery that starts with enough
\* reboots has enough at every later call, and ends, unless killed, but by
\* reporting the device rolled back.
RetriesKept ==
  [][/\ pc = "recover" /\ cfg.rollback_via = "retry-exhaustion" /\ cfg.uartfs
           /\ CanExhaust(dev, RollbackPasses) => RetriesOwed
     /\ RetriesOwed => RetriesOwed' \/ result' = "rolled-back" \/ NewProcess]_vars

-----------------------------------------------------------------------------
(***************************************************************************)
(* The commands implement the contract.                                    *)
(***************************************************************************)

Phase ==
  CASE pc = "idle" -> "idle"
    [] pc \in {"wait", "peek"} -> "observing"
    [] pc \in {"recover", "probe", "burn", "rollback_wait", "cycle"} -> "recovering"
    [] pc = "cycle_on" -> "switching"
    [] pc = "power_wait" -> "backstop"
    [] OTHER -> "preparing"

PlaceOf(d) ==
  IF d.booted # HomeBase THEN "away"
  ELSE IF d.active = HomeBase THEN "home" ELSE "armed"

Said ==
  CASE result = "none" -> "nothing"
    [] result \in {"rolled-back", "wedged-recovered"} -> "came home"
    [] result = "unrecoverable" -> "lost"
    [] OTHER -> "other"

Promise == INSTANCE Contract
  WITH phase <- Phase, place <- PlaceOf(dev), anchored <- dev.successful[HomeBase], said <- Said

\* Whatever the calls and their failures, the device leaves a booted home base
\* only by an armed reboot or the switch, the switch is used once in a recovery
\* and after the waiting, and "came home" is said of a device that has.
ContractKept == Promise!ContractSpec

-----------------------------------------------------------------------------
(***************************************************************************)
(* What the repository's documents say and the code does not do.           *)
(***************************************************************************)

\* README.md: "Post-stage, pre-reboot (A/B): experiment slot must be
\* active-but-not-successful."
RebootsOnlyUnproven ==
  pc = "reboot" /\ ~InPlace /\ dev.active = Experiment => ~dev.successful[Experiment]

\* orchestrator.py on IterateResult: "iterated" is "success, still on
\* experiment".
IteratedMeansOnExperiment == result = "iterated" => dev.booted = Experiment

\* orchestrator.py in _classify_after: "so we classify *this* boot, not a
\* marker left over from a previous one".
FailureIsOfThisBoot == boot = "failed" => "bad" \in dev.unread

\* orchestrator.py in _home_base_up: "Recovery is done only when the home base
\* is a valid rollback anchor again: booted on the home base slot AND still
\* marked successful."  Unrecoverable says that this did not come about.
UnrecoverableMeansLost ==
  result = "unrecoverable" => ~(dev.booted = HomeBase /\ dev.successful[HomeBase])
=============================================================================
