------------------------------ MODULE Settings ------------------------------
(***************************************************************************)
(* How src/benchctl/config.py and the flags of src/benchctl/cli.py make    *)
(* one configuration of three sources: the TOML file, the environment and  *)
(* the command line.                                                       *)
(*                                                                         *)
(* A source of settings is a dict of dicts, here a function of functions;  *)
(* the environment is a function from a variable's section and key, so     *)
(* <<"slots", "home_base">> is BENCHCTL_SLOTS_HOME_BASE.  A raw value is   *)
(* what it says and whether it is a text: what a text says is a number, a  *)
(* truth value or a word, or it is Junk where one of the first two is      *)
(* wanted.                                                                 *)
(***************************************************************************)
EXTENDS Naturals

CONSTANT Junk     \* a text that is no number and none of the words for true

Raw(text, says) == [text |-> text, says |-> says]

\* One field of each kind for the sections whose values decide something here:
\* the required ssh.host stands for ssh.user too.  The sections experiment,
\* uart and timeouts are merged and built in the same way, and left out.
FieldType ==
  [ssh     |-> [host |-> "str", sudo |-> "bool"],
   slots   |-> [home_base |-> "str", rollback_via |-> "str", rollback_reboots |-> "int"],
   flash   |-> [backend |-> "str"],
   battery |-> [reboot_budget |-> "int"],
   power   |-> [backend |-> "str", address |-> "str", options |-> "dict"]]

Sections == DOMAIN FieldType

\* The dataclasses' defaults; "" is a field that has none, or whose is None.
Default ==
  [ssh     |-> [host |-> "", sudo |-> TRUE],
   slots   |-> [home_base |-> "a", rollback_via |-> "retry-exhaustion", rollback_reboots |-> 7],
   flash   |-> [backend |-> "uartfs"],
   battery |-> [reboot_budget |-> 0],
   power   |-> [backend |-> "", address |-> "", options |-> ""]]

-----------------------------------------------------------------------------

\* _deep_merge, on dicts of dicts: the overlay wins key by key.
DeepMergeShallow(base, overlay) ==
  [s \in DOMAIN base \cup DOMAIN overlay |->
     IF s \in DOMAIN overlay THEN overlay[s] ELSE base[s]]
DeepMerge(base, overlay) ==
  [s \in DOMAIN base \cup DOMAIN overlay |->
     IF s \notin DOMAIN overlay THEN base[s]
     ELSE IF s \notin DOMAIN base THEN overlay[s]
     ELSE [k \in DOMAIN base[s] \cup DOMAIN overlay[s] |->
             IF k \in DOMAIN overlay[s] THEN overlay[s][k] ELSE base[s][k]]]

\* _env_to_dict: a variable of no section, or of a section and no key, is
\* somebody else's.
EnvToDict(env) ==
  LET kept    == {v \in DOMAIN env : v[1] \in Sections /\ v[2] # ""}
      keys(s) == {v[2] : v \in {u \in kept : u[1] = s}}
  IN  [s \in {v[1] : v \in kept} |-> [k \in keys(s) |-> env[<<s, k>>]]]

\* _coerce_bool: of a text, only the words for true are true.
CoerceBoolTruthy(raw) == raw.text \/ raw.says = TRUE
CoerceBool(raw) == raw.says = TRUE

\* What is read as a dict must be one: a text stays a text.
Coerce(type, raw) ==
  CASE type = "bool"                                 -> CoerceBool(raw)
    [] type = "dict" /\ raw.text /\ raw.says # "" -> Junk
    [] OTHER                                         -> raw.says

\* _build_section: a key that is no field is ignored.
BuildSection(s, raw) ==
  [k \in DOMAIN FieldType[s] |->
     IF k \in DOMAIN raw THEN Coerce(FieldType[s][k], raw[k]) ELSE Default[s][k]]

\* int() of a text that is no number raises.
UnbuildableNever(s, raw) == FALSE
Unbuildable(s, raw) ==
  \E k \in DOMAIN FieldType[s] \cap DOMAIN raw :
    FieldType[s][k] = "int" /\ raw[k].says = Junk

SectionOf(merged, s) == IF s \in DOMAIN merged THEN merged[s] ELSE <<>>

MergedSwapped(file, env) == DeepMerge(EnvToDict(env), file)
Merged(file, env) == DeepMerge(file, EnvToDict(env))

\* load_config: ConfigError without a host, ValueError for a number that is
\* none; main catches neither.
LoadRaises(file, env) ==
  LET merged == Merged(file, env)
      ssh    == SectionOf(merged, "ssh")
  IN  \/ "host" \notin DOMAIN ssh
      \/ "host" \in DOMAIN ssh /\ ssh["host"].says = ""
      \/ \E s \in Sections : Unbuildable(s, SectionOf(merged, s))
LoadConfig(file, env) ==
  [s \in Sections |-> BuildSection(s, SectionOf(Merged(file, env), s))]

\* _apply_overrides: flags is a function from the flags given.
ApplyOverridesTruthy(c, flags) ==
  [c EXCEPT !.battery.reboot_budget =
     IF "reboot_budget" \in DOMAIN flags /\ flags["reboot_budget"] # 0
     THEN flags["reboot_budget"] ELSE @,
            !.flash.backend = IF "flash" \in DOMAIN flags THEN flags["flash"] ELSE @,
            !.slots.rollback_via =
     IF "rollback_via" \in DOMAIN flags THEN flags["rollback_via"] ELSE @]
ApplyOverrides(c, flags) ==
  [c EXCEPT !.flash.backend =
              IF "flash" \in DOMAIN flags THEN flags["flash"] ELSE @,
            !.slots.rollback_via =
              IF "rollback_via" \in DOMAIN flags THEN flags["rollback_via"] ELSE @,
            !.battery.reboot_budget =
              IF "reboot_budget" \in DOMAIN flags THEN flags["reboot_budget"] ELSE @]

-----------------------------------------------------------------------------
(***************************************************************************)
(* create_power.                                                           *)
(***************************************************************************)

SwitchEnabled(c) == c.power.backend \notin {"", "none"}

\* The switch a process is built with: none, one it can address, or the
\* exception of building it: UnknownBackend, which main reports, or one that it
\* does not: of options that are a text, or of uhubctl's that are missing.
CreatePowerAddressless(c) ==
  IF ~SwitchEnabled(c) THEN "none"
  ELSE IF c.power.options = Junk THEN "crash"
  ELSE IF c.power.backend \in {"tasmota", "shelly"} THEN "built"
  ELSE IF c.power.backend = "uhubctl"
       THEN IF c.power.options = "located" THEN "built" ELSE "crash"
  ELSE "error"
CreatePower(c) ==
  IF ~SwitchEnabled(c) THEN "none"
  ELSE IF c.power.options = Junk THEN "crash"
  ELSE IF c.power.backend \in {"tasmota", "shelly"}
       THEN IF c.power.address # "" THEN "built" ELSE "error"
  ELSE IF c.power.backend = "uhubctl"
       THEN IF c.power.options = "located" THEN "built" ELSE "crash"
  ELSE "error"

-----------------------------------------------------------------------------
(***************************************************************************)
(* The reference, field by field: config.py's "Precedence (low to high):   *)
(* built-in defaults < TOML file < environment < flag overrides."          *)
(***************************************************************************)

FlagFor(s, k) ==
  CASE s = "flash"   /\ k = "backend"       -> "flash"
    [] s = "slots"   /\ k = "rollback_via"  -> "rollback_via"
    [] s = "battery" /\ k = "reboot_budget" -> "reboot_budget"
    [] OTHER                                -> ""

Says(type, raw) ==
  IF type = "bool" /\ raw.says = Junk THEN FALSE
  ELSE IF type = "dict" /\ raw.text /\ raw.says # "" THEN Junk ELSE raw.says

Effective(file, env, flags) ==
  [s \in Sections |-> [k \in DOMAIN FieldType[s] |->
     IF FlagFor(s, k) \in DOMAIN flags THEN flags[FlagFor(s, k)]
     ELSE IF <<s, k>> \in DOMAIN env THEN Says(FieldType[s][k], env[<<s, k>>])
     ELSE IF s \in DOMAIN file /\ k \in DOMAIN SectionOf(file, s)
          THEN Says(FieldType[s][k], file[s][k])
     ELSE Default[s][k]]]
=============================================================================
