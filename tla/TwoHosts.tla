------------------------------ MODULE TwoHosts ------------------------------
(***************************************************************************)
(* Two benchctl processes on one device.  Nothing in the code keeps the    *)
(* second from starting while the first runs: there is no lock, and each   *)
(* trusts what it read of the device a few calls ago.  Each host is an     *)
(* Orchestrator of its own, and comes with what is proved of one; they     *)
(* share dev and nothing else.                                             *)
(***************************************************************************)
EXTENDS FakeDevice

CONSTANTS
  Configs, Faults, PollInterval, ProbeLags, MaxImages, MaxReboots,  \* as in Orchestrator
  BothStage   \* whether the second host may stage too

VARIABLES
  cfg1, reboots_used1, power_cycle_count1, pc1, cmd1, boot1, images1, tries1, left1, result1,
  cfg2, reboots_used2, power_cycle_count2, pc2, cmd2, boot2, images2, tries2, left2, result2

A == INSTANCE OrchestratorProofs
  WITH cfg <- cfg1, reboots_used <- reboots_used1, power_cycle_count <- power_cycle_count1,
       pc <- pc1, cmd <- cmd1, boot <- boot1, images <- images1, tries <- tries1, left <- left1,
       result <- result1
B == INSTANCE OrchestratorProofs
  WITH cfg <- cfg2, reboots_used <- reboots_used2, power_cycle_count <- power_cycle_count2,
       pc <- pc2, cmd <- cmd2, boot <- boot2, images <- images2, tries <- tries2, left <- left2,
       result <- result2

ASSUME ConfigsAssumption == Configs \subseteq A!Config
ASSUME FaultsAssumption  == Faults \subseteq A!FaultKinds
ASSUME TimesAssumption   == PollInterval \in Nat \ {0} /\ ProbeLags \subseteq Nat
ASSUME BoundsAssumption  == MaxImages \in Nat \ {0} /\ MaxReboots \in Nat

first  == <<cfg1, reboots_used1, power_cycle_count1, pc1, cmd1, boot1, images1, tries1, left1, result1>>
second == <<cfg2, reboots_used2, power_cycle_count2, pc2, cmd2, boot2, images2, tries2, left2, result2>>
vars   == <<dev, first, second>>

Init == A!Init /\ B!Init

\* The commands that flash with pixel-ota, which switches the slots.
Stages(cmd, cfg) == cmd = "stage" \/ (cmd = "iterate" /\ cfg.flash # "uartfs")

First == (A!Command \/ A!HostStep) /\ UNCHANGED second
Second ==
  /\ B!Command \/ B!HostStep
  /\ Stages(cmd2', cfg2') => BothStage
  /\ UNCHANGED first
\* The bootloader waits for neither.
Bootloader == B!BootloaderRetry /\ UNCHANGED first
Next == First \/ Second \/ Bootloader

Spec == Init /\ [][Next]_vars

-----------------------------------------------------------------------------
\* With one host that stages, and another that asks, reboots, recovers, turns
\* the switch and flashes in place at the worst of times, the anchor is safe:
\* the flag of the home base is never cleared ...
AnchorShared == [][dev.successful[HomeBase] => dev'.successful[HomeBase]]_vars

\* ... and neither host reboots the device over SSH without it, though the
\* other may have changed everything since it looked.
RebootsShared == A!AnchorBeforeReboot /\ B!AnchorBeforeReboot

\* What a host says of a recovery was true of the shared device when it said so.
SaidWhenTrue ==
  [][/\ result1' # result1 /\ result1' \in {"rolled-back", "wedged-recovered"} => A!AnchorUp(dev')
     /\ result2' # result2 /\ result2' \in {"rolled-back", "wedged-recovered"} => A!AnchorUp(dev')]_vars
=============================================================================
