------------------------------ MODULE Contract ------------------------------
(***************************************************************************)
(* What benchctl promises to the person at the bench, without the calls it *)
(* makes to keep it: where the device may be, what may move it, and what   *)
(* may be said of it.  Orchestrator implements it.                         *)
(*                                                                         *)
(* The device is at "home" (the home base is booted and will boot again),  *)
(* "armed" (the home base is booted, the experiment boots next) or "away"  *)
(* (anything else, darkness included).                                     *)
(***************************************************************************)

VARIABLES
  phase,     \* what the running command is about to do
  place,     \* where the device is
  anchored,  \* the home base is what a rollback falls back to
  said       \* what the last command said of the device

cvars == <<phase, place, anchored, said>>

Places == {"home", "armed", "away"}

\* A command prepares a boot of the experiment, or has rebooted and observes,
\* or recovers: by waiting and rebooting, then by turning the power off and on
\* ("switching"), and then by waiting alone ("backstop").
Phases == {"idle", "preparing", "observing", "recovering", "switching", "backstop"}

Sayings == {"nothing", "came home", "lost", "other"}

ContractInit ==
  /\ phase = "idle" /\ said = "nothing"
  /\ place \in {"home", "away"} /\ anchored \in BOOLEAN

-----------------------------------------------------------------------------
(***************************************************************************)
(* How the device may move.                                                *)
(***************************************************************************)

\* Alone, or asked something: only homewards, and never from a booted home base.
Drifts == place' = place \/ (place = "away" /\ place' = "home")

\* Rebooted: an unarmed home base comes back, an armed device may go anywhere.
Reboots == Drifts \/ place = "armed"

\* Flashed and switched, over a proven home base alone.
Arms == place = "home" /\ anchored /\ place' = "armed"

\* Switched off and on: anywhere, but arming takes more than power.
Switches == place' = place \/ place' \in {"home", "away"}

Enter(next) == phase' = next /\ said' = "nothing" /\ UNCHANGED anchored
Say(word)   == phase' = "idle" /\ said' = word /\ UNCHANGED anchored

-----------------------------------------------------------------------------
\* A command starts, or a new process does, whatever the old one was doing.
Begin ==
  /\ phase = "idle"
  /\ Enter("preparing") \/ Enter("recovering")
  /\ UNCHANGED place
Restart == phase' = "idle" /\ said' = "nothing" /\ UNCHANGED <<place, anchored>>

\* A question, or one turn of the switch, is a whole command.
Answer == phase = "idle" /\ Say("other") /\ Drifts
Turn   == phase = "idle" /\ Say("other") /\ Switches

\* Until its reboot a command may only arm the device, or stop.
Prepare == phase = "preparing" /\ (Drifts \/ Arms) /\ (Enter("preparing") \/ Say("other"))
Commit  == phase = "preparing" /\ Reboots /\ Enter("observing")

Observe ==
  /\ phase = "observing" /\ Drifts
  /\ Enter("observing") \/ Enter("recovering") \/ Say("other")

\* The end of a recovery: success is said of a device at home, with an anchor.
Conclude ==
  /\ phase \in {"recovering", "backstop"} /\ Drifts
  /\ \/ Say("came home") /\ place' = "home" /\ anchored
     \/ Say("lost")
     \/ Say("other")

\* A recovery waits and reboots; it turns to the switch once, off and on, and
\* then waits.  What fails on the way is said.
Recover   == phase = "recovering" /\ Reboots /\ Enter("recovering")
PowerDown == phase = "recovering" /\ Switches /\ (Enter("switching") \/ Say("other"))
PowerUp   == phase = "switching" /\ Switches /\ (Enter("backstop") \/ Say("other"))
Await     == phase = "backstop" /\ Drifts /\ Enter("backstop")

\* The bootloader, at any time.
Bootloader == place = "away" /\ Drifts /\ UNCHANGED <<phase, anchored, said>>

ContractNext ==
  \/ Begin \/ Restart \/ Answer \/ Turn \/ Prepare \/ Commit \/ Observe
  \/ Conclude \/ Recover \/ PowerDown \/ PowerUp \/ Await \/ Bootloader

ContractSpec == ContractInit /\ [][ContractNext]_cvars
=============================================================================
