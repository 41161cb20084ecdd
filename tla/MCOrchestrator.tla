--------------------------- MODULE MCOrchestrator ---------------------------
(***************************************************************************)
(* Orchestrator on small scenarios and configurations.                     *)
(***************************************************************************)
EXTENDS Orchestrator

\* The in-place loop with a recovery that can exhaust two retries, with and
\* without a budget of exactly one iteration, and its stricter success regex.
InPlaceConfig ==
  [flash |-> "uartfs", rollback_via |-> "retry-exhaustion", rollback_reboots |-> 2,
   reboot_budget |-> 0, power |-> "none", auto_bootstrap |-> TRUE, uartfs |-> TRUE,
   success |-> {"home", "good"}, rollback_wait |-> 0, power_cycle_wait |-> 0]

BudgetConfig   == [InPlaceConfig EXCEPT !.reboot_budget = 3, !.success = {"good"}]
\* A negative number of reboots: none for the loop, and an iteration for nothing
\* to the budget.
NegativeConfig == [InPlaceConfig EXCEPT !.reboot_budget = 1, !.rollback_reboots = -1]
FastbootConfig == [InPlaceConfig EXCEPT !.flash = "fastboot", !.rollback_via = "fastboot",
                                        !.auto_bootstrap = FALSE]
\* A host without the uartfs transport, which reboots the experiment over SSH.
NoUartfsConfig == [InPlaceConfig EXCEPT !.uartfs = FALSE]

\* The A/B loop with the power switch as the backstop, and without one.
ABConfig ==
  [InPlaceConfig EXCEPT !.flash = "pixel-ota", !.rollback_via = "power",
                        !.power = "http", !.rollback_wait = 2, !.power_cycle_wait = 1]
UhubctlConfig  == [ABConfig EXCEPT !.power = "uhubctl"]
NoSwitchConfig == [ABConfig EXCEPT !.power = "none", !.reboot_budget = 3]

MCConfigs == {InPlaceConfig, BudgetConfig, NegativeConfig, FastbootConfig, NoUartfsConfig,
              ABConfig, NoSwitchConfig}

MCKnobs ==
  [experiment_boots        : Kernels,
   rollback_after          : {2, None},
   experiment_retries      : {1, None},
   update_marks_successful : BOOLEAN,
   power_cycle_recovers    : BOOLEAN,
   home_unhealthy          : BOOLEAN,
   on_experiment           : BOOLEAN,
   agent_down              : BOOLEAN]

\* Fewer scenarios for the runs with faults: every flash is given its own
\* kernel, and the switch, when it obeys, works.
MCFaultKnobs ==
  [experiment_boots        : Kernels,
   rollback_after          : {2, None},
   experiment_retries      : {1, None},
   update_marks_successful : BOOLEAN,
   power_cycle_recovers    : {TRUE},
   home_unhealthy          : BOOLEAN,
   on_experiment           : BOOLEAN,
   agent_down              : {FALSE}]
MCFaultConfigs == {BudgetConfig, NoUartfsConfig, ABConfig, UhubctlConfig}
=============================================================================
