----------------------------- MODULE Preflight ------------------------------
(***************************************************************************)
(* What stands between the operator, the device and the host's decisions:  *)
(* one benchctl process loads its configuration (Settings), then asks the  *)
(* device for its slot status again and again, reads the text line by line *)
(* as src/benchctl/bootctl.py does, and decides.  A process that cannot    *)
(* start, or whose reading raises, has ended: pc is "stopped".             *)
(*                                                                         *)
(* Orchestrator takes the configuration and the status as they are; this   *)
(* module shows what that rests on.  A text may lose lines, repeat them,   *)
(* bring them in any order and cut them short; it never holds a value that *)
(* the device did not print.                                               *)
(***************************************************************************)
EXTENDS Settings, Integers

CONSTANTS
  Files,    \* the configuration files an operator may name (the empty one: none)
  Envs,     \* the environments a process may start in
  FlagSets  \* the flags it may be given

\* What a TOML value, a variable or a flag can say where a truth value or a
\* number is wanted.
SaysAsWanted(s, k, raw) ==
  /\ s = "ssh" /\ k = "sudo" => raw.says \in BOOLEAN \cup {Junk}
  /\ <<s, k>> \in {<<"slots", "rollback_reboots">>, <<"battery", "reboot_budget">>}
       => raw.says \in Int \cup {Junk}

ASSUME JunkAssumption == Junk \notin BOOLEAN \cup Int
ASSUME FilesAssumption ==
  \A f \in Files : \A s \in DOMAIN f : \A k \in DOMAIN f[s] : SaysAsWanted(s, k, f[s][k])
ASSUME EnvsAssumption ==
  \A e \in Envs : \A v \in DOMAIN e :
    v = <<v[1], v[2]>> /\ SaysAsWanted(v[1], v[2], e[v])     \* a section and a key
ASSUME FlagsAssumption ==
  \A g \in FlagSets :
    /\ DOMAIN g \subseteq {"flash", "rollback_via", "reboot_budget"}
    /\ "reboot_budget" \in DOMAIN g => g["reboot_budget"] \in Int

Slots    == {"a", "b"}
Readings == {"verify", "guard", "home", "armed"}
Seen     == {"missing", "successful", "unsuccessful"}

DeviceState == [active : Slots, successful : [Slots -> BOOLEAN]]

VARIABLES
  pc,                \* "load", "ready", "reading", "decided", or "stopped"
  file, env, flags,  \* the sources of the configuration, until it is loaded
  cfg,               \* the configuration
  dev,               \* what is true of the device while it is asked
  active, slots,     \* the locals of _parse_status
  whole,             \* every line so far came whole
  asked, verdict     \* the last decision taken on a status

sources == <<file, env, flags>>
parser  == <<active, slots, whole>>
answer  == <<asked, verdict>>
vars    == <<pc, sources, cfg, dev, parser, answer>>

Home == cfg.slots.home_base

\* Orchestrator.experiment
OtherSlotAlwaysB(home) == "b"
OtherSlot(home) == IF home = "a" THEN "b" ELSE "a"

-----------------------------------------------------------------------------
(***************************************************************************)
(* A process starts.                                                       *)
(***************************************************************************)

\* _build_real
Load ==
  /\ pc = "load"
  /\ LET loaded == ApplyOverrides(LoadConfig(file, env), flags) IN
       IF LoadRaises(file, env) \/ CreatePower(loaded) \in {"error", "crash"}
       THEN pc' = "stopped" /\ UNCHANGED cfg
       ELSE pc' = "ready" /\ cfg' = loaded
  /\ file' = <<>> /\ env' = <<>> /\ flags' = <<>>
  /\ UNCHANGED <<dev, parser, answer>>

-----------------------------------------------------------------------------
(***************************************************************************)
(* Bootctl.status: the text of one answer, line by line.  A line that is   *)
(* empty or starts with anything else is skipped, which is a step that     *)
(* changes nothing.                                                        *)
(***************************************************************************)

\* Between two answers the device may have become any other.
Ask ==
  /\ pc \in {"ready", "decided"}
  /\ pc' = "reading"
  /\ dev' \in DeviceState
  /\ active' = "" /\ slots' = [s \in Slots |-> "missing"] /\ whole' = TRUE
  /\ asked' = "none" /\ verdict' = "none"
  /\ UNCHANGED <<sources, cfg>>

\* "active=a", or that line cut after the equals sign.
ReadActiveLine ==
  /\ pc = "reading"
  /\ \E cut \in BOOLEAN :
       /\ active' = IF cut THEN "" ELSE dev.active
       /\ whole' = (whole /\ ~cut)
  /\ UNCHANGED <<pc, sources, cfg, dev, slots, answer>>

\* _parse_bool of the token, and of its default where the token is cut off.
FlagReadTrusting(printed, cut) ==
  IF cut \/ printed THEN "successful" ELSE "unsuccessful"
FlagRead(printed, cut) ==
  IF ~cut /\ printed THEN "successful" ELSE "unsuccessful"

ReadSlotLine ==
  /\ pc = "reading"
  /\ \E s \in Slots, cut \in BOOLEAN :
       /\ slots' = [slots EXCEPT ![s] = FlagRead(dev.successful[s], cut)]
       /\ whole' = (whole /\ ~cut)
  /\ UNCHANGED <<pc, sources, cfg, dev, active, answer>>

\* "retries=" with nothing after it: int() raises, whoever asked.
ReadCutCount ==
  /\ pc = "reading"
  /\ pc' = "stopped" /\ verdict' = "crash"
  /\ whole' = FALSE
  /\ UNCHANGED <<sources, cfg, dev, active, slots, asked>>

-----------------------------------------------------------------------------
(***************************************************************************)
(* The decisions: verify_home_base, _guard_reboot, _home_base_up (which is *)
(* also what status reports) and the assertion at the end of stage.        *)
(***************************************************************************)

Unparseable == active = "" \/ \A s \in Slots : slots[s] = "missing"

\* SlotStatus.flags: a slot that was not seen raises KeyError.
FlagsDefaulting(slot) ==
  IF slot \in Slots /\ slots[slot] # "missing" THEN slots[slot] ELSE "unsuccessful"
Flags(slot) == IF slot \in Slots THEN slots[slot] ELSE "missing"

FlagIs(slot, wanted) ==
  IF Flags(slot) = "missing" THEN "crash"
  ELSE IF Flags(slot) = wanted THEN "yes" ELSE "no"

\* What a reading asks of the active slot, and of the flag of which slot.
ActiveAsWanted(reading) ==
  CASE reading = "guard" -> TRUE
    [] reading = "armed" -> active = OtherSlot(Home)
    [] OTHER             -> active = Home
FlagAsWanted(reading) ==
  IF reading = "armed" THEN FlagIs(OtherSlot(Home), "unsuccessful")
  ELSE FlagIs(Home, "successful")

\* power: the answer of _power_reachable, asked last and by two of them.
Decision(reading, power) ==
  IF Unparseable \/ ~ActiveAsWanted(reading) THEN "no"
  ELSE IF FlagAsWanted(reading) = "yes" /\ ~power THEN "no"
  ELSE FlagAsWanted(reading)

PowerAnswers(reading) ==
  IF reading \in {"verify", "guard"} /\ SwitchEnabled(cfg) THEN BOOLEAN ELSE {TRUE}

Decide ==
  /\ pc = "reading"
  /\ \E reading \in Readings : \E power \in PowerAnswers(reading) :
       /\ asked' = reading
       /\ verdict' = Decision(reading, power)
       /\ pc' = IF Decision(reading, power) = "crash" THEN "stopped" ELSE "decided"
  /\ UNCHANGED <<sources, cfg, dev, parser>>

Init ==
  /\ pc = "load"
  /\ file \in Files /\ env \in Envs /\ flags \in FlagSets
  /\ cfg = Default
  /\ dev = [active |-> "a", successful |-> [s \in Slots |-> s = "a"]]
  /\ active = "" /\ slots = [s \in Slots |-> "missing"] /\ whole = TRUE
  /\ asked = "none" /\ verdict = "none"

Next ==
  \/ Load \/ Ask \/ ReadActiveLine \/ ReadSlotLine \/ ReadCutCount \/ Decide

Spec == Init /\ [][Next]_vars

-----------------------------------------------------------------------------

\* Every variable keeps its type; in particular no text is left where a
\* decision counts or asks for a truth value.
TypeOK ==
  /\ pc \in {"load", "ready", "reading", "decided", "stopped"}
  /\ cfg.battery.reboot_budget \in Int /\ cfg.slots.rollback_reboots \in Int
  /\ cfg.ssh.sudo \in BOOLEAN
  /\ dev \in DeviceState
  /\ active \in Slots \cup {""} /\ slots \in [Slots -> Seen] /\ whole \in BOOLEAN
  /\ asked \in Readings \cup {"none"} /\ verdict \in {"none", "yes", "no", "crash"}

\* Every field of a configuration that was loaded has the value of the highest
\* source that names it (config.py: "Precedence (low to high): built-in
\* defaults < TOML file < environment < flag overrides"), whatever else the
\* sources hold; nothing of another section or key is lost or let in.
LoadedRight ==
  [][Load /\ pc' = "ready" => cfg' = Effective(file, env, flags)]_vars

\* A process that started with a switch enabled has one that it can address,
\* and a host to reach, from whichever sources the parts came.
StartsAddressed ==
  pc \in {"ready", "reading", "decided"} =>
    /\ cfg.ssh.host # ""
    /\ cfg.power.backend \in {"tasmota", "shelly"} => cfg.power.address # ""
    /\ cfg.power.backend = "uhubctl" => cfg.power.options = "located"
    /\ cfg.power.backend \notin {"", "none"} => cfg.power.options # Junk
    /\ cfg.power.backend \in {"", "none", "tasmota", "shelly", "uhubctl"}

\* What is true of the device, of the slots that the configuration names.
Truth(reading) ==
  CASE reading = "guard" -> Home \in Slots /\ dev.successful[Home]
    [] reading = "armed" -> dev.active # Home /\ ~dev.successful[dev.active]
    [] OTHER             -> dev.active = Home /\ dev.successful[Home]

\* However the text was lost, repeated, reordered or cut, no reading takes the
\* home base for an anchor that it is not.
AnchorNeverInvented ==
  verdict = "yes" /\ asked \in {"verify", "guard", "home"} => Truth(asked)

\* A device is called armed only if it is, provided that no line was cut: a
\* line that is lost is an exception, but a cut one reads as unsuccessful.
ArmedNeverInvented ==
  verdict = "yes" /\ asked = "armed" /\ whole => Truth("armed")

\* A text that came whole is never misread: the answer is the truth, or a no
\* for want of the switch.
WholeTextDecides ==
  /\ asked # "none" /\ whole /\ active # ""
  /\ \A s \in Slots : slots[s] # "missing"
  /\ Home \in Slots
  => /\ verdict \in {"yes", "no"}
     /\ verdict = "yes" => Truth(asked)
     /\ verdict = "no" /\ Truth(asked) =>
          asked \in {"verify", "guard"} /\ SwitchEnabled(cfg)
=============================================================================
