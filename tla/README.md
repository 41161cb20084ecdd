# benchctl in TLA+

benchctl is a host-side orchestrator for kernel iteration on a phone with two
boot slots. It flashes an experiment, reboots into it, classifies the boot from
the serial console, and promises that the device comes back to its known-good
slot, the *home base*. This directory models the orchestrator and the device it
drives, the way it comes by its configuration and reads the device's status, and
the contents it flashes; it checks the models with TLC, and proves their safety
properties, and what the liveness ones rest on, with TLAPS.

Paths below are relative to the repository; `orchestrator.py` and the like are
in `src/benchctl/`.

## 1. The system

| component | state | operations | talks to |
|---|---|---|---|
| Orchestrator (`orchestrator.py`) | `reboots_used`, `power_cycle_count`, the delta base cache `_flash_base`, the configuration; the running call's locals | `status`, `stage`, `boot_experiment`, `iterate` (A/B), `iterate_uartfs` (in place), `recover` with two autonomous strategies | everything below, through injected seams |
| Command line (`cli.py`) | none of its own; builds an Orchestrator per process, or reuses one | six subcommands, exit statuses, the wiring of real and simulated backends | Orchestrator |
| Simulated device (`sim/fake_device.py`) | active and booted slot, success flags, retries, probes, agent, kernels, console | `reboot`, `pixel-bootctl`, `pixel-ota`, the uartfs agent, cold boot | driven by the seams |
| Simulated power, uart, uartfs (`sim/fake_*.py`) | the read offset of the console | off/on/cycle; read/peek/wait; ping/bootstrap/run/flash | simulated device |
| pixel-bootctl and pixel-ota wrappers (`bootctl.py`, `ota.py`) | none | `status`, `update` | the device over SSH |
| uart and uartfs clients (`uart.py`, `uartfs.py`) | none | console and in-place transport | local binaries |
| Transports (`device.py`) | none | SSH with a time limit per command; local runner; UART as a device | subprocesses |
| Power backends (`power/`) | none | off, on, cycle, reachable for tasmota, shelly, uhubctl | HTTP, local binary |
| Configuration (`config.py`) | none | merges defaults, file and environment | cli |
| Clock, errors | none | time and sleep; exception classes | everything |

What is hard about it:

* **Two actors move the device.** The host probes, flashes and reboots; the
  bootloader reboots a panicked slot, burns its retries and rolls back by
  itself. Every fact the host reads may be old by the time it acts on it.
* **Answers are lost.** An SSH or uartfs call may fail before or after the
  device did the work, and some answers (the reboot's) are not looked at.
* **The rollback is armed by a flag that anyone can spoil.** It depends on the
  experiment being active and *not* marked successful, and on the home base
  being marked successful, from the update to the end of the recovery.
* **The console is a log.** Banners of earlier boots are still on it.
* **Budgets and deadlines.** Reboots cost battery; recovery windows end while a
  probe is pending; the power switch is to be used once.
* **Sequences of commands.** `stage`, `boot-experiment`, `recover` may be called
  in any order, in one process (which keeps the counters) or in several, one
  after the other or at once: there is no lock. A process may be killed anywhere.
* **The switch has a middle.** A power cycle is off, a pause, on; each request may
  fail, and what a failure does differs from one backend to the other.
* **Deltas have a base.** An in-place flash ships the difference to a file that
  the host believes is on the device.
* **A text decides.** The slot status is parsed from lines that a bad link may
  lose or cut, and the configuration from three sources that may contradict.

What would make each component correct:

* Orchestrator: it never clears the home base's flag, never starts an A/B
  reboot without an anchor and without an armed rollback, keeps its iterations
  inside the budget, reports only outcomes that are true, ends, and brings the
  device home.
* Device: a wedge needs power; a rollback or cold boot never picks an unproven
  slot while a proven one exists; the active slot cannot be flashed.
* Power: a cycle that starts ends with the power on, or is reported.
* Flash cache: what boots is what was named, however wrong the base of a delta.
* Configuration: the value that wins is the one of the highest precedence.
* Parser: a status that cannot decide a check never passes it.

## 2. The modules

| module | models | |
|---|---|---|
| `FakeDevice` | the device of `sim/`, as a record and operators on it, with an arbitrary client | component |
| `Orchestrator` | the command handlers, the orchestrator and the power backends, composed with `FakeDevice` and with a bootloader that acts on its own | component, composition |
| `Contract` | what benchctl promises its user | abstract specification that `Orchestrator` implements |
| `TwoHosts` | two Orchestrators on one device | composition |
| `FlashCache` | files, partitions, delta flashes and the cache of their bases | component |
| `Settings` | the merge, the coercions and the power factory, as operators, with a reference | pure algorithms |
| `Preflight` | a process that loads its `Settings`, then parses slot statuses and decides on them | component, composition |
| `MCFakeDevice`, `MCOrchestrator`, `MCTwoHosts`, `MCFlashCache`, `MCPreflight` | small scenarios and configurations | for TLC |
| `FakeDeviceProofs`, `OrchestratorProofs`, `OutcomeProofs`, `ContractProofs`, `TwoHostsProofs`, `FlashCacheProofs`, `PreflightProofs` | the theorems | for TLAPS |

A definition whose name is another's with a suffix (`ArmedActiveOnly` beside
`Armed`) is that code with a plausible slip in it. The specifications do not use
it; putting it in the other's place shows that a property notices.

### FakeDevice

`dev` is one record with the fields of `SimDevice`. Each method is an operator
from the device before to the device after, so that `Orchestrator` can compose
them with a lost call; `DeviceNext` is the device with a client that uses every
tool in any order. Three things are abstracted:

* The console is the set of banners ever printed (`console`) and the set
  printed since the last `uart read` (`unread`); a regex is the set of banners
  it matches. `EXP_GOOD_BOOT` and `HOME_BASE_BOOT` both match the default
  success regex, and the model keeps that.
* `_unreachable_probes` is counted only when `rollback_after` sets a limit;
  otherwise no code reads it.
* A slot's `retries` are printed and never read; they are left out.
  `experiment_retries`, which drives the rollback, is kept.

`flash_outcome`, which in the simulation is fixed per run, is chosen anew at
every in-place flash: the host does not know what an image will do. As in the
simulation, probes of a device that does not answer count towards its rollback
even when it is dark.

### Orchestrator

One action is one call that leaves the host, with the decisions that the code
takes on its answer. The bootloader's `BootloaderRetry` and lost answers come
between two such actions, which is where they can come in the program. `pc`
names the next call:

    stage            verify -> push -> update -> assert_armed
    boot-experiment  guard -> drain -> reboot -> wait [-> peek]
    iterate (A/B)    stage, then boot-experiment, then recover
    iterate (uartfs) ping [-> bootstrap -> reping] -> flash ... -> drain -> reboot
                     -> wait [-> peek] [-> recover]
    recover          probe -> burn -> probe ...                (retry-exhaustion)
                     rollback_wait ... [-> cycle -> cycle_on -> power_wait ...]  (power)
    power cycle      cycle -> cycle_on

`reboots_used` and `power_cycle_count` are the Orchestrator's fields and survive
from one command to the next; `NewProcess` builds a new Orchestrator, with any
configuration, around the same device. `boot`, `images`, `tries` and `left` are
the locals of the running call; `result` is what it reported (exit status of
`cli.py`, or the outcome of a recovery).

`Answers(link, ok, after)` is what a call may come to. On a link in `Faults` the
call may fail, with or without its effect on the device; otherwise the answer is
the true one. A console call that fails reads as an empty console (`uart.py`
does not look at the exit status of `read` and `peek`), a `wait` that fails is a
timeout, a reboot's answer is dropped.

`SwitchAnswers` is a command to the power switch. tasmota and shelly are one HTTP
relay: a request that fails raises, before or after the relay acted, and `main`
does not catch that (`"crash"`). A failure of uhubctl is an exit status nobody
reads. `CycleOff` and `CycleOn` are the two halves of `cycle`.

With `"kill"` in `Faults` a process may end between any two of its calls, in the
middle of a power cycle too, and the next one starts from the device it left.
That covers every exception the code does not catch at such a point, such as the
one a garbled status raises. What is not covered: a remote command that was under
way when its process died and that has its effect later.

`rollback_reboots` and `reboot_budget` are any integers, as `config.py` takes them:
a negative number of reboots is no pass of the loop (`RollbackPasses`) but lowers
the estimate of the budget check, and a negative budget refuses every iteration.

Times are counted in units of `poll_interval`; `left` is what remains to the
deadline of `_wait_for_home_base`, and a probe takes any `lag \in ProbeLags`.

### Contract

Four variables: what the running command is about to do (`phase`), where the
device is (`place`: home, armed, away), whether the home base is a valid anchor,
and what was last said of it. The contract lets a device leave a booted home base
only by the reboot of a device armed over an anchor, or by the switch; lets a
recovery use the switch once, after it waited; lets "came home" be said only of a
device that has. `Promise` in `Orchestrator` is the refinement mapping, and
`ContractKept` the property that every behaviour of it is one of the contract.

### TwoHosts

Two instances of `Orchestrator` that share `dev`. With `BothStage` false the
second never runs a command that switches the slots; it may ask, reboot, recover,
flash in place and use the switch at any moment; so may the bootloader reboot a
panicked slot (`Bootloader`). The hosts are instances of
`OrchestratorProofs`, which extends `Orchestrator`, so that what is proved of one
host can be cited for either.

### FlashCache

`disk` holds the contents of the host's files, `slot` those of the partitions,
`base` is `_flash_base`. `FlashAnswers` is `uartfs flash`: a delta against
anything but the present content of the partition does not verify, and a call
that fails may leave the old content, the new one, or garbage. `Stage` writes the
same slot past the cache: it pushes into `remote_dir`, which nothing empties but
the loss of the device's `/tmp`, and pixel-ota flashes all that is there, what
earlier stages left and what a push cut short included. `Rebuild` is the user's
build, `NewProcess` starts with an empty cache, perhaps after a flash that was
killed. `written`, `named` and `unsure` are history variables for the properties;
the first two are forgotten when their command line ends.

### Settings and Preflight

`Settings` takes a source as a dict of dicts and an environment variable as its
section and key; it has one field of each kind for the sections that decide
something here. A text that is no number, or none of the words for true, is
`Junk`; a number may be negative, which `int` accepts. `Effective` is the reference: field by field, the highest source that
names it.

`Preflight` is one process: `Load` is `_build_real`; then the device, which may be
any other at each question, is asked, and its answer is read one line at a time.
A line may be lost, repeated, out of order, or cut after an equals sign; the text
may be of any length. `Decide` takes each decision of the orchestrator on what
the parser has seen. A missing slot is the KeyError of `flags`, a cut count the
ValueError of `int`.

## 3. What is checked

Symmetry is used in `flash_cache`, of the contents and of the two builds of one
image; the slots and the hosts play different roles.
Deadlock is checked in every run but `preflight`, whose process ends, when it
cannot start or a reading raises.

| run | question | scope |
|---|---|---|
| `device` | does the device keep its promises to any client? | 384 scenarios |
| `commands` | do all sequences of commands keep the contract, the flag and the counters, and hear only this boot? | 7 configurations, 256 scenarios, processes killed anywhere, bootloader retries |
| `faults` | and when everything around the host fails? does every command end, and how far off? | 4 configurations (strategies, transports, both kinds of switch), 64 scenarios, all faults but the kill, two images |
| `return` | does the device come home, and does no step lose what that takes? | 7 configurations, liveness, console faults, bootloader retries |
| `flash_cache` | is what boots what was named? | three files for two partitions, two contents, all faults, leftovers of earlier stages |
| `two_hosts` | what survives a second process? | an A/B and an in-place configuration each, the second host never stages, bootloader retries |
| `preflight` | do the sources and the text decide right? | every file of up to 3 settings with every environment of up to 2 variables, 4 sets of flags |

**Bounds.** `MaxReboots` stops commands from *starting* once this process has
made more reboots; a command that runs is never cut short, and `NewProcess`
sets the count back, so that sequences of commands over several processes are
unbounded. With 2 it lets an iteration, its recovery and further commands share
one Orchestrator, which is what the counters are about; with 1 an iteration and
one more; with 0, in the liveness run and with two hosts, one process runs
commands up to the first that rebooted. Two retries to exhaust
(`experiment_retries` 1, `rollback_reboots` 2), a rollback after two probes,
windows of one and two polls, probes that outlast a window (lag 2) and two images
per command line are the smallest values at which each loop runs through its
first, middle and last iteration. A budget of 3 fits exactly one iteration, and
none after any reboot; a budget of 1, with a negative `rollback_reboots`, admits
what it should not, which `IterationStaysInBudget` excludes by name. With two hosts the loops are as short as they can
be, since each host alone is checked with longer ones: what is new there are the
interleavings, of which all are explored.

Two builds of one image in two directories, the same partition and another one
are the smallest set of files in which a base can be wrong in each way (rebuilt,
of another path, of another partition's flash), and two images per command line
the smallest in which the second fails. Three file settings and two variables let
each source give a part of a switch and contradict the other one.

**Fairness.** `WF_vars(HostStep)`: a call that a running command makes is
eventually answered. `SSHDevice.run` and `push` give every call a
`command_timeout`; the local `uart` and `uartfs` binaries take a timeout for
`wait` and are assumed to return otherwise (`LocalRunner` sets none). Nothing is
assumed of the user, who need not start a command, or of the bootloader, which
need not retry.

### Properties

| property | says |
|---|---|
| `DeviceTypeOK`, `TypeOK` | types; no counter below zero; no text left where a number is wanted |
| `WedgeNeedsPower` | only the power switch moves a panicked device that does not roll back |
| `AnchorSafeWhileActive` | the home base's flag can be lost only while the experiment is active |
| `UnprovenNeverChosen` | every rollback and every cold boot that works ends on the proven slot, whichever was active |
| `HomeBaseNeverCleared` | the host's use of those tools never clears the home base's flag |
| `RollbackArmed` | from stage's assertion to the reboot of an A/B iteration the experiment is active and unproven, on the device itself |
| `AnchorBeforeReboot` | every A/B reboot finds the anchor in place |
| `RecoveredMeansHome` | success of a recovery is true of the device |
| `CycleAccounting` | at most one power cycle per recovery, and outcomes that tell |
| `DarkIsTold` | a recovery with an HTTP switch that gives up has left the power on |
| `IterationStaysInBudget` | an admitted iteration, recovery included, never exceeds the budget, if `rollback_reboots` is not negative |
| `SuccessIsOfThisBoot` | a boot is called a success by what is up, not by what an earlier boot printed |
| `ContractKept` | the commands implement `Contract` |
| `CommandTerminates` | every command ends |
| `CallsRunOut` | every call brings its command nearer to its end, by a measure that configuration and images fix |
| `RetryExhaustionSuffices` | one more reboot than retries, or enough probes, brings the home base back |
| `GuaranteedReturn` | an A/B iteration with a working switch ends on the home base |
| `SwitchBringsHome` | any recovery with a working switch does, from a dark device too |
| `SwitchKept` | what a working switch owes it owes at every step until "home" is said; nothing but a kill ends it otherwise |
| `RetriesKept` | so for retry exhaustion: reboots enough at the start are enough at every later call |
| `NamedImagesBoot` | the in-place reboot starts whole images of this command in every partition it named |
| `CorruptionTold` | a broken partition was told of (its flash failed, or the push of what it was flashed with), or its process was killed |
| `CacheLostOnlyBy` | the three ways the cache goes out of date |
| `AnchorShared`, `RebootsShared`, `SaidWhenTrue` | the flag, the guard and the word of a recovery, with two processes |
| `LoadedRight` | every field has the value of the highest source that names it |
| `StartsAddressed` | a process that starts can address the switch it has |
| `AnchorNeverInvented`, `ArmedNeverInvented`, `WholeTextDecides` | what a damaged, an uncut and a complete status may decide |

`AnchorBeforeReboot`, `RollbackArmed` and `HomeBaseNeverCleared` relate what the
host read some calls ago to what the device is when it acts. That they hold with
lost answers and with a bootloader that reboots in between is not by the shape
of the model: a rollback can only move the device to the home base while its
flag is set, and pixel-ota picks the slot that is not active *when it runs*.
`SuccessIsOfThisBoot` needs a console that answers: with console faults, the
drain may be lost and an old banner matched, and the property is not listed in
that run. It says what was up when the banner was heard, and not that this is the
experiment (`doc_iterated`) or that it stays up: the bootloader may reboot it at
the next moment. `RollbackArmed`, `AnchorBeforeReboot` and `RecoveredMeansHome` are
checked where they are hard, in `faults`. The `return` run has no ssh and power faults, under which nothing can
be promised. `DarkIsTold` is not true of uhubctl, whose failures nobody sees.

`CallsRunOut`, `SwitchKept` and `RetriesKept` are the step-by-step halves of the
liveness properties. `CallsAhead` counts the most calls that a command still
makes: so many fixed ones, the images, and for each strategy its reboots twice
over, or its two windows and the switch. `SwitchOwed` and `RetriesOwed` are the
states in which a recovery has all it takes. The second is the delicate one: each
reboot may burn a retry, the bootloader may burn one by itself and set the count
of probes back, and a probe may or may not be the last; `RunsOutOfRetries` and
`RunsOutOfProbes` say how many reboots the device still needs, and no step may
leave fewer. Together: a command makes only so many calls, each happens by the
fairness, and what is owed can end only by being paid.

With two processes `RollbackArmed` is not true and not listed: the second may
recover the device that the first has armed. What the second cannot spoil by
anything but staging is in `two_hosts`; that it can by staging is
`doc_two_stagers`.

`ArmedNeverInvented` is claimed of texts without a cut line. A flag that was cut
reads as unsuccessful, which is the safe side for the anchor. For the assertion of
`stage` it is the unsafe one, and no property covers it.

The premise of `RetryExhaustionSuffices` is stricter than the sample file's
comment ("reboots to burn before the slot's retry budget is exhausted"):
`rollback_reboots` must exceed the retries left, because the reboot that rolls
back comes after the one that burns the last retry.

### Where the documents and the code differ

Each of these runs checks one sentence of the repository and finds a behaviour
of the code that breaks it. They are recorded as differences, not judged.

| run | the sentence | the behaviour |
|---|---|---|
| `doc_unproven` | `README.md:43` experiment slot must be active-but-not-successful before a reboot | `stage` refuses and leaves the slots switched; `boot-experiment` checks only the home base |
| `doc_stale` | `orchestrator.py:210` classify this boot, not a marker of a previous one | the fail regex is searched in the whole console |
| `doc_lost` | `orchestrator.py:438` *booted* on the home base | `active` is read: a healthy booted home base is given up |
| `doc_iterated` | `orchestrator.py:69` "iterated" is success, *still on experiment* | the iteration's reboot finds no retry left, and the home base's banner matches the default regex |
| `doc_two_stagers` | `README.md:42` the home base stays successful, never cleared | two processes that stage: one switches the slots between the other's check and its update |

More can be read off the model without a run:

* `orchestrator.py:103` the cached image *is* the on-device content: the cache keeps
  a path, and the file is rebuilt (`Rebuild`; `CacheLostOnlyBy` lists the ways).
* `README.md:46` never exceed the reboot budget: `recover` and `boot-experiment`
  do not check it (`BurnRetry`, `GuardReboot`).
* `README.md:45` before any device-losing reboot the home base is an anchor:
  `iterate_uartfs` never asks (`Ping`, `Flash`, `Drain`, `RebootToExperiment`).
* `errors.py:3` says of a refusal "safe, no device touched": `AssertArmed`, and
  `GuardReboot` and `Recover` in an iteration, refuse after `Update` flashed the
  experiment and switched the slots.
* `README.md:106` calls the fastboot backend an interactive cable swap:
  `CmdIterate`, as `cli.py:242`, sends every backend but uartfs to the A/B loop.

## 4. What is proved

The theorems hold for every set of configurations, every subset of the fault
kinds, any windows, lags, budgets, retries and bounds, any files, partitions and
contents, any length of a status. They assume only what the modules state: the
two slots differ, `None` is not a number, a slot or a kernel, `Knobs` and
`Configs` are sets of such records, `Faults` a subset of `FaultKinds`, a positive
poll interval; garbage is no content; what a value of a source says where a truth
value or a number is wanted is one or `Junk`, and `Junk` is neither. A theorem that
needs a link to work says so in its statement: the absence of a kind of fault is
an assumption of that theorem alone.

`FakeDeviceProofs` has one lemma per operator: its result is a `Device`, and what
it may do to the active slot, the booted slot and the flags. From them follow
`DeviceTypeCorrect` and the device's three action properties, which need no
invariant but the typing. `ProvenPreferred` is about the result of a fallback,
whichever slot was active: `FallsBackLemma` goes through its causes (no retry left,
probes used up, a cold boot that works), `RebootLandsLemma` and `LandsLemma` through
every other operation that may boot the experiment. `OrchestratorProofs` proves

    IInv == Typed /\ Flow /\ Anchored /\ Accounting /\ Powered /\ Budgeted

inductive. None of the safety properties is inductive by itself:

* `Typed` is `TypeOK` with the bounds of the locals that make the loops' counters
  natural numbers.
* `Flow` ties `pc` to the command and configuration that can be there. Without
  it a state at `reboot` of a `status` command would have to keep the others.
* `Anchored` is what the host has established of the device at each step: from
  `push` to `update` the home base is booted and active, so that the update
  reaches the other slot; from `guard` on an A/B iteration is armed with the home
  base booted; before an A/B reboot the anchor is there; after a reported recovery
  the home base is up. *Booted* is the strengthening that the host cannot read but
  that an SSH answer implies (`StatusLemma`): with it, probes and the bootloader's
  retries change nothing at these steps (`FlagsKept`, `DeviceKept`, `UpdateStep`).
* `Accounting` relates `power_cycle_count` to the step of the recovery.
* `Powered`: from the return of a cycle by an HTTP switch on, some slot is booted.
* `Budgeted` says that what the running command may still spend, with what it
  has spent, fits in the budget the check admitted.

Each part has a lemma that every step keeps it, with one case per action that can
disturb it.

`OutcomeProofs` is about how commands end. `HostUsesTools` says that whatever the
host does to the device is an operation of `FakeDevice` or nothing, and the lemmas
on what all of them keep (`MovesKeep`, `SettledMoves`) follow operator by operator.
On top of `IInv` each theorem has the strengthening it needs:

* `SuccessIsCurrent` needs `Alive`: from the last flash to the reboot of an in-place
  iteration the experiment is up, before the reboot of an A/B one the home base is
  booted, at either reboot nothing is unread, and while the host waits an unread
  banner is one of what is booted. It is assumed that the console does not fail,
  since a drain that fails reads as an empty console, and an old banner is then
  matched: the property is false with it.
* `CallsBounded` needs `IInv` alone: `CallsAhead` written out step by step
  (`CallsTable`) is a natural number that every host action lowers.
* `SwitchPays` needs `Switched`: between the halves of a cycle the device is dark,
  and after a working one a device that power cures has its anchor up. The SSH
  link and the switch are assumed to work; the console, the agent and the
  bootloader are not.
* `RetriesPay` needs `Settled`: a kernel that panicked has no flashed one pending
  behind it, so that a retry boots the same, and no device has passed its limit of
  probes. Its step is arithmetic: with `n` retries of the bootloader's own and a
  limit of `l` probes, a device needs `n * l + (l - u)` reboots after `u` probes;
  a probe takes one off, a reboot spends one, and a retry of the bootloader turns
  `n` into `n - 1` and `u` into 0, which is never more.

`ContractProofs` has one lemma per operator on the `place` it may move
the device to, and one per kind of step that it is a step of the contract under
the mapping; `IInv` supplies what the contract's guards ask. `TwoHostsProofs` needs
no invariant of two whole hosts: of the first it takes that from `push` to
`update` the home base is booted and active on the *shared* device, which no step
of a host that does not stage undoes (`HomeStays`, `UpdateSpares`). For `RebootsShared` it adds the flow of each
host's own steps, which the other cannot touch, and that neither clears the flag
the guard saw; `RecoveryHonestShared` needs the typing only, and holds even if both
stage: what is newly said rests on one answer and not on the past.
`FlashCacheProofs` ties `written` to `slot` for the images flashed so far, and
`todo` to the partitions still to come. `PreflightProofs` proves that whatever the
parser has stored was true of the device or is the default of a cut line, by a
step per line, which is why no bound on the text is needed; and looks one key up
through environment, merge, build and override (`RawLookup`, `LoadLookup`,
`OverrideLookup`). `TypeCorrect` follows from the precedence: the value that wins
is a flag's, or a source's that `int` accepted, or a default.

| theorem | property |
|---|---|
| `FakeDeviceProofs!DeviceTypeCorrect` | `DeviceTypeOK` |
| `FakeDeviceProofs!WedgeStays` | `WedgeNeedsPower` |
| `FakeDeviceProofs!AnchorSafe` | `AnchorSafeWhileActive` |
| `FakeDeviceProofs!ProvenPreferred` | `UnprovenNeverChosen` |
| `OrchestratorProofs!TypeCorrect` | `TypeOK` |
| `OrchestratorProofs!IterationArmed` | `RollbackArmed` |
| `OrchestratorProofs!RebootAnchored` | `AnchorBeforeReboot` |
| `OrchestratorProofs!RecoveryHonest` | `RecoveredMeansHome` |
| `OrchestratorProofs!CyclesAccounted` | `CycleAccounting` |
| `OrchestratorProofs!DarknessTold` | `DarkIsTold` |
| `OrchestratorProofs!BudgetKept` | `IterationStaysInBudget` |
| `OrchestratorProofs!HomeBaseKept` | `HomeBaseNeverCleared` |
| `OutcomeProofs!DeviceDriven` | `DeviceInit`, and every step of the device `DeviceNext` or the bootloader's |
| `OutcomeProofs!PromisesInherited` | `WedgeNeedsPower`, `AnchorSafeWhileActive` and `UnprovenNeverChosen` under the host, if the bootloader does not reboot by itself |
| `OutcomeProofs!SuccessIsCurrent` | `SuccessIsOfThisBoot`, if the console does not fail |
| `OutcomeProofs!CallsBounded` | `CallsRunOut` |
| `OutcomeProofs!SwitchPays` | `SwitchKept`, if SSH and the switch do not fail |
| `OutcomeProofs!RetriesPay` | `RetriesKept`, if SSH and uartfs do not fail |
| `ContractProofs!ContractImplemented` | `ContractKept` |
| `FlashCacheProofs!TypeCorrect` | `TypeOK` |
| `FlashCacheProofs!NamedBoot` | `NamedImagesBoot` |
| `FlashCacheProofs!CorruptionNeverSilent` | `CorruptionTold` |
| `FlashCacheProofs!CacheLost` | `CacheLostOnlyBy` |
| `TwoHostsProofs!AnchorSafeShared` | `AnchorShared`, if `~BothStage` |
| `TwoHostsProofs!RebootAnchoredShared` | `RebootsShared`, if `~BothStage` |
| `TwoHostsProofs!RecoveryHonestShared` | `SaidWhenTrue` |
| `PreflightProofs!TypeCorrect` | `TypeOK` |
| `PreflightProofs!NoAnchorInvented` | `AnchorNeverInvented` |
| `PreflightProofs!NoRollbackInvented` | `ArmedNeverInvented` |
| `PreflightProofs!WholeTextRead` | `WholeTextDecides` |
| `PreflightProofs!PrecedenceKept` | `LoadedRight` |
| `PreflightProofs!StartedAddressed` | `StartsAddressed` |

Only model-checked: the four liveness properties `CommandTerminates`,
`GuaranteedReturn`, `SwitchBringsHome` and `RetryExhaustionSuffices`. What they say
beyond the theorems is that a call which is enabled happens, which takes fairness
and ENABLED, out of the prover's reach; that calls run out, and that what is owed
is not lost, is proved. (`GuaranteedReturn` starts at the reboot of an A/B
iteration, where `IterationArmed` and `RebootAnchored` give what `SwitchOwed` asks
of the device.) Every other property of a passing run is a theorem.

## 5. What is not modelled

* Console lines, regexes and command lines as text; argument parsing, JSON
  output, timings; the TOML syntax and the splitting of a command text.
* `recover_on_fail=False` of `iterate_uartfs`: no caller in the repository sets it.
* A remote command that outlives the process that sent it.
* A local binary that never returns, which the fairness excludes: with one a
  command need not end, and the code does not prevent it.
* A poll interval of zero, which `TimesAssumption` excludes because the model
  counts time in poll intervals. The wait then probes without a pause, and ends at
  its deadline all the same.
* The JSON of `uart` and the digests in the messages of `uartfs`, which decide
  nothing.
* A real device, beyond what the simulation implements and what `Faults` adds.
* Tests, packaging and the flake: they hold no program state.

## 6. Plan

Done, in this order: `FakeDevice`, `Orchestrator`, `Contract`, the switch in two
halves, `FlashCache`, `TwoHosts`, `Settings` and `Preflight`; their runs and their
proofs. What is left:

1. A liveness half of `Contract`: that it is left idle again and again, as
   `CommandTerminates` says of the detailed specification, and the measure of
   `CallsBounded` as what shows it.
2. Two hosts against `Contract`: which of its promises each still keeps when the
   other moves the device, as a contract with an environment.
3. `Transport`: the time limits of the runners, and what a hung local binary does
   to `CommandTerminates`.
4. `uart.py`'s answers (JSON, exit status, an empty console) as a parser like
   that of the slot status.

A run that shows a difference with the documents goes when its module says more:
the suite is meant to stay quick to run.
