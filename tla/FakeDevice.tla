----------------------------- MODULE FakeDevice -----------------------------
(***************************************************************************)
(* The A/B device that benchctl drives, as src/benchctl/sim/fake_device.py *)
(* implements it: two slots, a bootloader that burns retries and rolls     *)
(* back, the tools reached over SSH, the uartfs agent reached over the     *)
(* serial line, the console, and the power switch of sim/fake_power.py.    *)
(*                                                                         *)
(* The device is one record, dev; every method of the Python class is an   *)
(* operator from a device to the device it leaves behind, so that a client *)
(* module (Orchestrator) can compose them.  At the end of the module the   *)
(* same operators are the actions of a device with an arbitrary client.    *)
(***************************************************************************)
EXTENDS Naturals

CONSTANTS
  HomeBase,     \* the slot holding the known-good system
  Experiment,   \* the other slot
  None,         \* "no value": no slot booted, nothing pending, no limit
  Knobs         \* the scenarios a device may start in: a set of Knob records

Slots   == {HomeBase, Experiment}
Kernels == {"good", "bad"}

\* What a boot leaves on the console; the text itself is abstracted.
Banners == {"home"} \cup Kernels

\* The constructor's arguments, and what cli.py does to a fresh device.
Knob == [experiment_boots        : Kernels,
         rollback_after          : Nat \cup {None},
         experiment_retries      : Nat \cup {None},
         update_marks_successful : BOOLEAN,
         power_cycle_recovers    : BOOLEAN,
         home_unhealthy          : BOOLEAN,
         on_experiment           : BOOLEAN,
         agent_down              : BOOLEAN]

ASSUME SlotsAssumption == HomeBase # Experiment
ASSUME NoneAssumption  == None \notin Nat \cup Slots \cup Kernels
ASSUME KnobsAssumption == Knobs \subseteq Knob

Device == [active                  : Slots,
           booted                  : Slots \cup {None},  \* None: dark
           successful              : [Slots -> BOOLEAN],
           experiment_boots        : Kernels,            \* kernel in the experiment slot
           pending                 : Kernels \cup {None},\* flashed, not booted yet
           experiment_retries      : Nat \cup {None},
           rollback_after          : Nat \cup {None},
           unreachable_probes      : Nat,
           agent_running           : BOOLEAN,
           update_marks_successful : BOOLEAN,
           power_cycle_recovers    : BOOLEAN,
           console                 : SUBSET Banners,     \* everything ever printed
           unread                  : SUBSET Banners]     \* printed since the last uart read

VARIABLE dev

-----------------------------------------------------------------------------
(***************************************************************************)
(* Connectivity.                                                           *)
(***************************************************************************)

\* SSH works only on the booted home base.
Reachable(d) == d.booted = HomeBase

\* The experiment has a shell; a panicked kernel has none.
ExperimentUpAlways(d) == d.booted = Experiment
ExperimentUp(d) == d.booted = Experiment /\ d.experiment_boots # "bad"

AgentReachable(d) == ExperimentUp(d) /\ d.agent_running

-----------------------------------------------------------------------------
(***************************************************************************)
(* The bootloader.                                                         *)
(***************************************************************************)

Boot(d, slot) ==
  LET flashed == slot = Experiment /\ d.pending # None
      kernel  == IF flashed THEN d.pending ELSE d.experiment_boots
      banner  == IF slot = HomeBase THEN "home" ELSE kernel
  IN  [d EXCEPT !.booted             = slot,
                !.unreachable_probes = 0,
                !.experiment_boots   = kernel,
                !.pending            = IF flashed THEN None ELSE @,
                !.console            = @ \cup {banner},
                !.unread             = @ \cup {banner}]

\* The slot that a rollback or a cold boot falls back to.
MarkedGoodActive(d) == d.active
MarkedGood(d) == IF d.successful[HomeBase] THEN HomeBase ELSE Experiment

BootAsActive(d, slot) == Boot([d EXCEPT !.active = slot], slot)

Rollback(d) == BootAsActive(d, MarkedGood(d))

RebootPastZero(d) ==
  IF d.experiment_retries # None /\ d.active = Experiment
  THEN Boot([d EXCEPT !.experiment_retries = @ - 1], Experiment)
  ELSE Boot(d, d.active)
Reboot(d) ==
  IF d.experiment_retries # None /\ d.active = Experiment
  THEN IF d.experiment_retries = 0
       THEN Rollback(d)
       ELSE Boot([d EXCEPT !.experiment_retries = @ - 1], Experiment)
  ELSE Boot(d, d.active)

ColdBootSlotActive(d) == d.active
ColdBootSlot(d) == IF d.successful[d.active] THEN d.active ELSE MarkedGood(d)

PowerOff(d) == [d EXCEPT !.booted = None]

PowerCycle(d) ==
  IF d.power_cycle_recovers
  THEN BootAsActive(d, ColdBootSlot(d))
  ELSE Boot(d, Experiment)     \* a wedge that not even a cold boot cures

-----------------------------------------------------------------------------
(***************************************************************************)
(* SSH.  A command sent to an unreachable device counts as a probe; the    *)
(* probe that exhausts rollback_after finds the device rolled back, and    *)
(* the command is then answered.  The count is kept only where a limit     *)
(* exists, since nothing else reads it.                                    *)
(***************************************************************************)

ProbesExhausted(d) ==
  d.rollback_after # None /\ d.unreachable_probes + 1 >= d.rollback_after

SshAnswers(d) == Reachable(d) \/ ProbesExhausted(d)

AfterSsh(d) ==
  IF Reachable(d) THEN d
  ELSE IF ProbesExhausted(d) THEN Rollback(d)
  ELSE IF d.rollback_after # None THEN [d EXCEPT !.unreachable_probes = @ + 1]
  ELSE d

SshReboot(d) == IF SshAnswers(d) THEN Reboot(AfterSsh(d)) ELSE AfterSsh(d)

\* pixel-ota update without --slot: the slot that is not active.
UpdateTarget(d) == IF d.active = HomeBase THEN Experiment ELSE HomeBase

FlashSlotUnguarded(d, slot, switch) ==
  [d EXCEPT !.successful[slot] = d.update_marks_successful,
            !.active           = IF switch THEN slot ELSE @]
FlashSlot(d, slot, switch) ==
  IF slot = d.active THEN d                           \* refused
  ELSE [d EXCEPT !.successful[slot] = d.update_marks_successful,
                 !.active           = IF switch THEN slot ELSE @]

SshUpdate(d) ==
  IF SshAnswers(d)
  THEN FlashSlot(AfterSsh(d), UpdateTarget(AfterSsh(d)), TRUE)
  ELSE AfterSsh(d)

\* pixel-bootctl mark-successful and pixel-ota confirm: the booted slot.
MarkBooted(d) ==
  IF d.booted = None THEN d ELSE [d EXCEPT !.successful[d.booted] = TRUE]

-----------------------------------------------------------------------------
(***************************************************************************)
(* The serial line: the uartfs agent and the console.                      *)
(***************************************************************************)

UartfsBootstrap(d) ==
  IF ExperimentUp(d) THEN [d EXCEPT !.agent_running = TRUE] ELSE d

UartfsReboot(d) == IF AgentReachable(d) THEN Reboot(d) ELSE d

\* quality: what the image will do on the next boot (None: same as before).
UartfsFlash(d, quality) ==
  IF AgentReachable(d) /\ quality # None
  THEN [d EXCEPT !.pending = quality]
  ELSE d

UartRead(d) == [d EXCEPT !.unread = {}]

-----------------------------------------------------------------------------
(***************************************************************************)
(* A device with an arbitrary client.                                      *)
(***************************************************************************)

NewDevice(k) ==
  LET fresh == [active                  |-> HomeBase,
                booted                  |-> HomeBase,
                successful              |-> [s \in Slots |->
                                               s = HomeBase /\ ~k.home_unhealthy],
                experiment_boots        |-> k.experiment_boots,
                pending                 |-> None,
                experiment_retries      |-> k.experiment_retries,
                rollback_after          |-> k.rollback_after,
                unreachable_probes      |-> 0,
                agent_running           |-> ~k.agent_down,
                update_marks_successful |-> k.update_marks_successful,
                power_cycle_recovers    |-> k.power_cycle_recovers,
                console                 |-> {},
                unread                  |-> {}]
  IN  IF k.on_experiment THEN BootAsActive(fresh, Experiment) ELSE fresh

DeviceInit == \E k \in Knobs : dev = NewDevice(k)

SshStatusOp == dev' = AfterSsh(dev)
SshRebootOp == dev' = SshReboot(dev)
SshSetActiveOp ==
  /\ SshAnswers(dev)
  /\ \E slot \in Slots : dev' = [AfterSsh(dev) EXCEPT !.active = slot]
SshMarkOp == SshAnswers(dev) /\ dev' = MarkBooted(AfterSsh(dev))

\* With and without --slot and --no-switch; --dry-run does nothing but probe.
SshUpdateOp ==
  \/ dev' = SshUpdate(dev)
  \/ /\ SshAnswers(dev)
     /\ \E slot \in Slots, switch \in BOOLEAN :
          dev' = FlashSlot(AfterSsh(dev), slot, switch)

UartfsBootstrapOp == dev' = UartfsBootstrap(dev)
UartfsRebootOp    == dev' = UartfsReboot(dev)
UartfsFlashOp     == \E q \in Kernels \cup {None} : dev' = UartfsFlash(dev, q)
UartReadOp        == dev' = UartRead(dev)
PowerOffOp        == dev' = PowerOff(dev)
PowerOnOp         == dev' = PowerCycle(dev)      \* SimPower.on and .cycle

DeviceNext ==
  \/ SshStatusOp \/ SshRebootOp \/ SshSetActiveOp \/ SshMarkOp \/ SshUpdateOp
  \/ UartfsBootstrapOp \/ UartfsRebootOp \/ UartfsFlashOp \/ UartReadOp
  \/ PowerOffOp \/ PowerOnOp

DeviceSpec == DeviceInit /\ [][DeviceNext]_dev

-----------------------------------------------------------------------------
(***************************************************************************)
(* What the device promises to any client.                                 *)
(***************************************************************************)

\* Every field keeps its type, whatever the client does.
DeviceTypeOK == dev \in Device

\* A panicked experiment on a device that never rolls back by itself stays
\* where it is until the power switch is used: no command over SSH or over
\* the serial line moves it (fake_device.py: "a wedge never rolls back and
\* needs a power cycle").
Wedged(d) ==
  /\ d.booted = Experiment
  /\ d.experiment_boots = "bad"
  /\ d.rollback_after = None

WedgeNeedsPower ==
  [][Wedged(dev) /\ ~Wedged(dev') => PowerOffOp \/ PowerOnOp]_dev

\* The home base loses its success flag only while the experiment is the
\* active slot: pixel-ota refuses to flash the active slot, so an update can
\* reach the home base only after the slots were switched.
AnchorSafeWhileActive ==
  [][dev.successful[HomeBase] /\ ~dev'.successful[HomeBase]
       => dev.active = Experiment]_dev

\* The bootloader gives an active experiment up when a reboot finds no retry
\* left, a device that does not answer when its probes are used up, and
\* whatever was active when a cold boot works.
OutOfRetries(d) == d.active = Experiment /\ d.experiment_retries = 0
OutOfProbes(d)  == ~Reachable(d) /\ ProbesExhausted(d)

FallsBack ==
  \/ /\ OutOfRetries(dev)
     /\ (Reachable(dev) /\ SshRebootOp) \/ (AgentReachable(dev) /\ UartfsRebootOp)
  \/ OutOfProbes(dev) /\ (SshStatusOp \/ SshRebootOp \/ SshMarkOp)
  \/ dev.power_cycle_recovers /\ PowerOnOp

\* While the home base is marked successful and the experiment is not, every
\* fallback ends on the home base, booted and active, from whichever slot is
\* active then (fake_device.py: "rolls back to the marked-good slot").  An
\* experiment that is not booted is booted only as the active slot with a
\* retry left, or by a device that power does not cure; and it is made active
\* only by an update or by switching the slots.
UnprovenNeverChosen ==
  [][dev.successful[HomeBase] /\ ~dev.successful[Experiment]
       => /\ FallsBack => dev'.booted = HomeBase /\ dev'.active = HomeBase
          /\ dev.booted # Experiment /\ dev'.booted = Experiment
               => \/ dev.active = Experiment /\ ~OutOfRetries(dev)
                  \/ PowerOnOp /\ ~dev.power_cycle_recovers
          /\ dev.active = HomeBase /\ dev'.active = Experiment
               => SshUpdateOp \/ SshSetActiveOp]_dev
=============================================================================
