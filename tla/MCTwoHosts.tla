----------------------------- MODULE MCTwoHosts -----------------------------
(***************************************************************************)
(* TwoHosts with an A/B host and one more, on a few scenarios.              *)
(***************************************************************************)
EXTENDS TwoHosts

\* Both loops' configurations have the power switch and no reboot to spare in
\* a recovery, which Orchestrator is checked with.
ABConfig ==
  [flash |-> "pixel-ota", rollback_via |-> "power", rollback_reboots |-> 1,
   reboot_budget |-> 0, power |-> "http", auto_bootstrap |-> FALSE, uartfs |-> TRUE,
   success |-> {"home", "good"}, rollback_wait |-> 0, power_cycle_wait |-> 0]
InPlaceConfig == [ABConfig EXCEPT !.flash = "uartfs", !.rollback_via = "retry-exhaustion"]

MCConfigs == {ABConfig, InPlaceConfig}

MCKnobs ==
  [experiment_boots        : Kernels,
   rollback_after          : {None},
   experiment_retries      : {1, None},
   update_marks_successful : {FALSE},
   power_cycle_recovers    : {TRUE},
   home_unhealthy          : BOOLEAN,
   on_experiment           : BOOLEAN,
   agent_down              : {FALSE}]
=============================================================================
