---------------------------- MODULE MCPreflight -----------------------------
(***************************************************************************)
(* The sources of a configuration for TLC: every file of at most FileSize  *)
(* settings, every environment of at most EnvSize variables, and some      *)
(* flags.  The settings contradict each other on purpose.                  *)
(***************************************************************************)
EXTENDS Preflight, FiniteSetsExt

CONSTANTS FileSize, EnvSize

\* A setting: section, key, value.
Toml(s, k, v) == [at |-> <<s, k>>, raw |-> Raw(FALSE, v)]
Var(s, k, v)  == [at |-> <<s, k>>, raw |-> Raw(TRUE, v)]

FileSettings ==
  {Toml("ssh", "host", "phone"), Toml("ssh", "sudo", FALSE),
   Toml("slots", "home_base", "b"), Toml("slots", "rollback_reboots", 2),
   Toml("battery", "reboot_budget", 9), Toml("power", "backend", "uhubctl"),
   Toml("power", "backend", "tasmota"), Toml("power", "address", "plug"),
   Toml("power", "options", "located")}

EnvSettings ==
  {Var("ssh", "host", "other"), Var("ssh", "host", ""),
   Var("ssh", "sudo", TRUE), Var("ssh", "sudo", FALSE), Var("ssh", "sudo", Junk),
   Var("slots", "home_base", "b"), Var("slots", "home_base", "c"),
   Var("slots", "rollback_via", "power"), Var("flash", "backend", "pixel-ota"),
   Var("battery", "reboot_budget", 4), Var("battery", "reboot_budget", Junk),
   Var("power", "backend", "none"), Var("power", "backend", "shelly"),
   Var("power", "backend", "other"), Var("power", "options", "located"),
   Var("reboot", "budget", 4), Var("slots", "", "b"), Var("slots", "home", "b")}

\* The sets of at most n settings, no place set twice.
Selections(settings, n) ==
  {c \in UNION {kSubset(k, settings) : k \in 0..n} :
     \A x, y \in c : x.at = y.at => x = y}

RawAt(c, at) == (CHOOSE x \in c : x.at = at).raw

AsFile(c) ==
  [s \in {x.at[1] : x \in c} |->
     [k \in {x.at[2] : x \in {y \in c : y.at[1] = s}} |-> RawAt(c, <<s, k>>)]]
AsEnv(c) == [at \in {x.at : x \in c} |-> RawAt(c, at)]

\* No file, and files that name the host with and without more settings.
MCFiles    == {AsFile(c) : c \in Selections(FileSettings, FileSize)}
MCEnvs     == {AsEnv(c) : c \in Selections(EnvSettings, EnvSize)}
MCFlagSets == {<<>>, [reboot_budget |-> 0], [reboot_budget |-> 3],
               [rollback_via |-> "power", flash |-> "fastboot"]}
=============================================================================
