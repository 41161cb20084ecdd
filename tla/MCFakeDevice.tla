---------------------------- MODULE MCFakeDevice ----------------------------
(***************************************************************************)
(* FakeDevice with an arbitrary client, on every scenario built from small *)
(* limits: at most two probes before a rollback, at most two retries.      *)
(***************************************************************************)
EXTENDS FakeDevice

MCKnobs ==
  [experiment_boots        : Kernels,
   rollback_after          : {2, None},
   experiment_retries      : {0, 2, None},
   update_marks_successful : BOOLEAN,
   power_cycle_recovers    : BOOLEAN,
   home_unhealthy          : BOOLEAN,
   on_experiment           : BOOLEAN,
   agent_down              : BOOLEAN]
=============================================================================
