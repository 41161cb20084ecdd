-------------------------- MODULE PreflightProofs ---------------------------
(***************************************************************************)
(* Proofs about Preflight: no reading of a slot status invents an anchor   *)
(* or an armed rollback, for texts of any length and for every             *)
(* configuration; and the configuration is the one that the precedence of  *)
(* its sources says.                                                       *)
(***************************************************************************)
EXTENDS Preflight, TLAPS

\* Types of the part that reads and decides.
ReadingTypes ==
  /\ pc \in {"load", "ready", "reading", "decided", "stopped"}
  /\ dev \in DeviceState
  /\ active \in Slots \cup {""} /\ slots \in [Slots -> Seen] /\ whole \in BOOLEAN
  /\ asked \in Readings \cup {"none"}

\* What the parser holds is what the device printed.
ParsedIsPrinted ==
  /\ active \in {"", dev.active}
  /\ \A s \in Slots : slots[s] = "successful" => dev.successful[s]
  /\ whole => \A s \in Slots : slots[s] = "unsuccessful" => ~dev.successful[s]

\* The last verdict is the decision on what the parser still holds.
Answered ==
  /\ asked # "none" =>
       /\ pc \in {"decided", "stopped"}
       /\ \E power \in PowerAnswers(asked) : verdict = Decision(asked, power)
  /\ asked = "none" => verdict \in {"none", "crash"}

IInv == ReadingTypes /\ ParsedIsPrinted /\ Answered

\* The invariant holds at the start and every step keeps it.
THEOREM ReadingInductive ==
  /\ Init => IInv
  /\ IInv /\ [Next]_vars => IInv'
<1>1. ASSUME Init PROVE IInv
  <2> USE <1>1 DEF Init
  <2>1. ReadingTypes
    BY DEF ReadingTypes, DeviceState, Slots, Seen
  <2>2. ParsedIsPrinted
    BY DEF ParsedIsPrinted
  <2>3. Answered
    BY DEF Answered
  <2> QED BY <2>1, <2>2, <2>3 DEF IInv
<1>2. ASSUME IInv, [Next]_vars PROVE IInv'
  <2> USE <1>2 DEF IInv
  <2>1. CASE Load
    BY <2>1 DEF Load, ReadingTypes, ParsedIsPrinted, Answered, parser, answer
  <2>2. CASE Ask
    BY <2>2 DEF Ask, ReadingTypes, ParsedIsPrinted, Answered, Slots, Seen, DeviceState
  <2>3. CASE ReadActiveLine
    BY <2>3 DEF ReadActiveLine, ReadingTypes, ParsedIsPrinted, Answered, DeviceState, answer
  <2>4. CASE ReadSlotLine
    <3>1. PICK s \in Slots, cut \in BOOLEAN :
            /\ slots' = [slots EXCEPT ![s] = FlagRead(dev.successful[s], cut)]
            /\ whole' = (whole /\ ~cut)
      BY <2>4 DEF ReadSlotLine
    <3>2. FlagRead(dev.successful[s], cut) \in Seen
      BY DEF FlagRead, Seen
    <3>3. ReadingTypes'
      BY <2>4, <3>1, <3>2 DEF ReadSlotLine, ReadingTypes, answer
    <3>4. ParsedIsPrinted'
      BY <2>4, <3>1 DEF ReadSlotLine, ReadingTypes, ParsedIsPrinted, FlagRead
    <3>5. Answered'
      BY <2>4 DEF ReadSlotLine, Answered, answer
    <3> QED BY <3>3, <3>4, <3>5
  <2>5. CASE ReadCutCount
    BY <2>5 DEF ReadCutCount, ReadingTypes, ParsedIsPrinted, Answered
  <2>6. CASE Decide
    <3>1. PICK reading \in Readings : \E power \in PowerAnswers(reading) :
            /\ asked' = reading
            /\ verdict' = Decision(reading, power)
            /\ pc' = IF Decision(reading, power) = "crash" THEN "stopped" ELSE "decided"
      BY <2>6 DEF Decide
    <3>2. PICK power \in PowerAnswers(reading) :
            /\ asked' = reading
            /\ verdict' = Decision(reading, power)
            /\ pc' = IF Decision(reading, power) = "crash" THEN "stopped" ELSE "decided"
      BY <3>1
    <3>3. UNCHANGED <<cfg, dev, active, slots, whole>>
      BY <2>6 DEF Decide, parser
    <3>4. ReadingTypes' /\ ParsedIsPrinted'
      BY <3>2, <3>3 DEF ReadingTypes, ParsedIsPrinted
    <3>5. (PowerAnswers(reading))' = PowerAnswers(reading)
      BY <3>3 DEF PowerAnswers, SwitchEnabled
    <3>6. (Decision(reading, power))' = Decision(reading, power)
      BY <3>3 DEF Decision, Unparseable, ActiveAsWanted, FlagAsWanted, FlagIs, Flags, Home
    <3>7. reading # "none" /\ asked' # "none"
      BY <3>2 DEF Readings
    <3>8. Answered'
      BY <3>2, <3>3, <3>5, <3>6, <3>7
         DEF Answered, PowerAnswers, SwitchEnabled, Decision, Unparseable, ActiveAsWanted,
             FlagAsWanted, FlagIs, Flags, Home
    <3> QED BY <3>4, <3>8
  <2>7. CASE UNCHANGED vars
    BY <2>7 DEF vars, sources, parser, answer, ReadingTypes, ParsedIsPrinted, Answered,
                PowerAnswers, SwitchEnabled, Decision, Unparseable, ActiveAsWanted,
                FlagAsWanted, FlagIs, Flags, Home
  <2> QED BY <2>1, <2>2, <2>3, <2>4, <2>5, <2>6, <2>7 DEF Next
<1> QED BY <1>1, <1>2

LEMMA ReadingInvariant == Spec => []IInv
BY ReadingInductive, PTL DEF Spec

-----------------------------------------------------------------------------

\* What a yes has seen.
LEMMA YesSaw ==
  ASSUME NEW reading \in Readings, NEW power, Decision(reading, power) = "yes"
  PROVE  /\ active # ""
         /\ reading = "guard" => Home \in Slots /\ slots[Home] = "successful"
         /\ reading \in {"verify", "home"} =>
              active = Home /\ Home \in Slots /\ slots[Home] = "successful"
         /\ reading = "armed" =>
              active = OtherSlot(Home) /\ slots[active] = "unsuccessful"
BY DEF Readings, Decision, Unparseable, ActiveAsWanted, FlagAsWanted, FlagIs, Flags, OtherSlot, Slots

\* No reading of any text takes for an anchor a home base that is none.
THEOREM NoAnchorInvented == Spec => []AnchorNeverInvented
<1>1. IInv => AnchorNeverInvented
  <2> SUFFICES ASSUME IInv, verdict = "yes", asked \in {"verify", "guard", "home"}
               PROVE  Truth(asked)
    BY DEF AnchorNeverInvented
  <2>1. asked \in Readings
    BY DEF Readings
  <2>2. PICK power : Decision(asked, power) = "yes"
    BY DEF IInv, Answered
  <2> QED BY <2>1, <2>2, YesSaw DEF IInv, ReadingTypes, ParsedIsPrinted, Truth
<1> QED BY <1>1, ReadingInvariant, PTL

\* No text of whole lines makes a device armed that is not.
THEOREM NoRollbackInvented == Spec => []ArmedNeverInvented
<1>1. IInv => ArmedNeverInvented
  <2> SUFFICES ASSUME IInv, verdict = "yes", asked = "armed", whole
               PROVE  Truth(asked)
    BY DEF ArmedNeverInvented
  <2>1. asked \in Readings
    BY DEF Readings
  <2>2. PICK power : Decision(asked, power) = "yes"
    BY DEF IInv, Answered
  <2>3. active = dev.active /\ active = OtherSlot(Home) /\ slots[active] = "unsuccessful"
    BY <2>1, <2>2, YesSaw DEF IInv, ParsedIsPrinted
  <2>4. OtherSlot(Home) # Home /\ dev.active \in Slots
    BY DEF OtherSlot, IInv, ReadingTypes, DeviceState
  <2> QED BY <2>3, <2>4 DEF IInv, ParsedIsPrinted, Truth
<1> QED BY <1>1, ReadingInvariant, PTL

\* A whole text is decided, and rightly.
THEOREM WholeTextRead == Spec => []WholeTextDecides
<1>1. IInv => WholeTextDecides
  <2> SUFFICES ASSUME IInv, asked # "none", whole, active # "",
                      \A s \in Slots : slots[s] # "missing", Home \in Slots
               PROVE  /\ verdict \in {"yes", "no"}
                      /\ verdict = "yes" => Truth(asked)
                      /\ verdict = "no" /\ Truth(asked) =>
                           asked \in {"verify", "guard"} /\ SwitchEnabled(cfg)
    BY DEF WholeTextDecides
  <2>1. asked \in Readings
    BY DEF IInv, ReadingTypes
  <2>2. PICK power \in PowerAnswers(asked) : verdict = Decision(asked, power)
    BY DEF IInv, Answered
  <2>3. /\ active = dev.active /\ active \in Slots
        /\ \A s \in Slots : slots[s] = "successful" <=> dev.successful[s]
        /\ \A s \in Slots : slots[s] = "unsuccessful" <=> ~dev.successful[s]
    BY DEF IInv, ReadingTypes, ParsedIsPrinted, Seen
  <2>4. OtherSlot(Home) \in Slots /\ \A s \in Slots : s # Home <=> s = OtherSlot(Home)
    BY DEF OtherSlot, Slots
  <2>5. ~Unparseable
    BY DEF Unparseable, Slots
  <2>6. power \in BOOLEAN /\ (~power => asked \in {"verify", "guard"} /\ SwitchEnabled(cfg))
    BY <2>2 DEF PowerAnswers
  <2>7. verdict = "yes" <=> Truth(asked) /\ power
    BY <2>1, <2>2, <2>3, <2>4, <2>5, <2>6
       DEF Decision, ActiveAsWanted, FlagAsWanted, FlagIs, Flags, Truth, Readings
  <2>8. verdict \in {"yes", "no"}
    BY <2>1, <2>2, <2>3, <2>4, <2>5
       DEF Decision, ActiveAsWanted, FlagAsWanted, FlagIs, Flags, Readings
  <2> QED BY <2>6, <2>7, <2>8
<1> QED BY <1>1, ReadingInvariant, PTL
-----------------------------------------------------------------------------
(***************************************************************************)
(* The configuration.                                                      *)
(***************************************************************************)

\* The sections and their fields.
LEMMA FieldNames ==
  /\ Sections = {"ssh", "slots", "flash", "battery", "power"}
  /\ DOMAIN FieldType["ssh"] = {"host", "sudo"}
  /\ DOMAIN FieldType["slots"] = {"home_base", "rollback_via", "rollback_reboots"}
  /\ DOMAIN FieldType["flash"] = {"backend"}
  /\ DOMAIN FieldType["battery"] = {"reboot_budget"}
  /\ DOMAIN FieldType["power"] = {"backend", "address", "options"}
BY DEF Sections, FieldType

\* What is assumed of an environment, and of a loaded configuration.
Paired(e) == \A v \in DOMAIN e : v = <<v[1], v[2]>>
Shaped(c) == c = [s \in Sections |-> [k \in DOMAIN FieldType[s] |-> c[s][k]]]

\* A variable of a known section and key, and no other, is in the dict.
LEMMA EnvLookup ==
  ASSUME NEW e, Paired(e),
         NEW s \in Sections, NEW k, k # ""
  PROVE  /\ <<s, k>> \in DOMAIN e <=>
              s \in DOMAIN EnvToDict(e) /\ k \in DOMAIN EnvToDict(e)[s]
         /\ <<s, k>> \in DOMAIN e => EnvToDict(e)[s][k] = e[<<s, k>>]
<1> DEFINE kept    == {v \in DOMAIN e : v[1] \in Sections /\ v[2] # ""}
           keys(t) == {v[2] : v \in {u \in kept : u[1] = t}}
<1>1. EnvToDict(e) = [t \in {v[1] : v \in kept} |-> [j \in keys(t) |-> e[<<t, j>>]]]
  BY DEF EnvToDict
<1>3. <<s, k>> \in kept <=> <<s, k>> \in DOMAIN e
  OBVIOUS
<1>4. \A v \in kept : v[1] = s /\ v[2] = k => v = <<s, k>>
  BY DEF Paired
<1>5. k \in keys(s) <=> <<s, k>> \in kept
  <2>1. <<s, k>>[1] = s /\ <<s, k>>[2] = k
    OBVIOUS
  <2>2. <<s, k>> \in kept => k \in keys(s)
    BY <2>1
  <2> QED BY <1>4, <2>2
<1>6. k \in keys(s) => s \in {v[1] : v \in kept}
  BY <1>5
<1> HIDE DEF kept, keys
<1>7. ASSUME s \in {v[1] : v \in kept}
      PROVE  EnvToDict(e)[s] = [j \in keys(s) |-> e[<<s, j>>]]
  BY <1>1, <1>7
<1>8. DOMAIN EnvToDict(e) = {v[1] : v \in kept}
  BY <1>1
<1> QED BY <1>3, <1>5, <1>6, <1>7, <1>8

\* A key of the merged dict is the overlay's where the overlay has it.
LEMMA MergeLookup ==
  ASSUME NEW base, NEW overlay, NEW s, NEW k
  PROVE  LET in(d) == s \in DOMAIN d /\ k \in DOMAIN d[s]
             m     == DeepMerge(base, overlay)
         IN  /\ in(m) <=> in(base) \/ in(overlay)
             /\ in(overlay) => m[s][k] = overlay[s][k]
             /\ in(base) /\ ~in(overlay) => m[s][k] = base[s][k]
BY DEF DeepMerge

\* The raw value of a field is the environment's, or the file's.
LEMMA RawLookup ==
  ASSUME NEW f \in Files, NEW e \in Envs,
         NEW s \in Sections, NEW k \in DOMAIN FieldType[s]
  PROVE  LET raw    == SectionOf(Merged(f, e), s)
             inFile == s \in DOMAIN f /\ k \in DOMAIN SectionOf(f, s)
         IN  /\ k \in DOMAIN raw <=> inFile \/ <<s, k>> \in DOMAIN e
             /\ <<s, k>> \in DOMAIN e => raw[k] = e[<<s, k>>]
             /\ inFile /\ <<s, k>> \notin DOMAIN e => raw[k] = f[s][k]
<1> DEFINE m == Merged(f, e)
           in(d) == s \in DOMAIN d /\ k \in DOMAIN d[s]
<1>1. k # ""
  <2>1. s \in {"ssh", "slots", "flash", "battery", "power"}
    BY FieldNames
  <2> QED BY <2>1, FieldNames
<1>2. /\ <<s, k>> \in DOMAIN e <=> in(EnvToDict(e))
      /\ <<s, k>> \in DOMAIN e => EnvToDict(e)[s][k] = e[<<s, k>>]
  <2>1. Paired(e)
    BY EnvsAssumption DEF Paired
  <2> HIDE DEF m
  <2> QED BY <1>1, <2>1, EnvLookup
<1>3. /\ in(m) <=> in(f) \/ <<s, k>> \in DOMAIN e
      /\ <<s, k>> \in DOMAIN e => m[s][k] = e[<<s, k>>]
      /\ in(f) /\ <<s, k>> \notin DOMAIN e => m[s][k] = f[s][k]
  BY <1>2, MergeLookup DEF Merged
<1>4. /\ k \in DOMAIN SectionOf(m, s) <=> in(m)
      /\ in(m) => SectionOf(m, s)[k] = m[s][k]
      /\ s \in DOMAIN f => SectionOf(f, s) = f[s]
  BY DEF SectionOf
<1> HIDE DEF m
<1> QED BY <1>3, <1>4 DEF m

\* So the loaded value is the environment's, or the file's, or the default.
LEMMA LoadLookup ==
  ASSUME NEW f \in Files, NEW e \in Envs,
         NEW s \in Sections, NEW k \in DOMAIN FieldType[s]
  PROVE  LoadConfig(f, e)[s][k] =
           IF <<s, k>> \in DOMAIN e THEN Says(FieldType[s][k], e[<<s, k>>])
           ELSE IF s \in DOMAIN f /\ k \in DOMAIN SectionOf(f, s)
                THEN Says(FieldType[s][k], f[s][k])
           ELSE Default[s][k]
<1> DEFINE raw == SectionOf(Merged(f, e), s)
<1>1. LoadConfig(f, e)[s][k] =
        IF k \in DOMAIN raw THEN Coerce(FieldType[s][k], raw[k]) ELSE Default[s][k]
  BY DEF LoadConfig, BuildSection
<1>2. FieldType[s][k] = "bool" => s = "ssh" /\ k = "sudo"
  BY DEF Sections, FieldType
<1>3. <<s, k>> \in DOMAIN e =>
        Coerce(FieldType[s][k], e[<<s, k>>]) = Says(FieldType[s][k], e[<<s, k>>])
  BY <1>2, EnvsAssumption, JunkAssumption DEF SaysAsWanted, Coerce, CoerceBool, Says
<1>4. s \in DOMAIN f /\ k \in DOMAIN SectionOf(f, s) =>
        Coerce(FieldType[s][k], f[s][k]) = Says(FieldType[s][k], f[s][k])
  BY <1>2, FilesAssumption, JunkAssumption DEF SaysAsWanted, SectionOf, Coerce, CoerceBool, Says
<1> HIDE DEF raw
<1> QED BY <1>1, <1>3, <1>4, RawLookup DEF raw

\* A configuration that was loaded without an exception counts with numbers
\* and asks truth values, whatever texts its sources hold.
LEMMA EffectiveTypes ==
  ASSUME NEW f \in Files, NEW e \in Envs, NEW g \in FlagSets, ~LoadRaises(f, e)
  PROVE  LET c == Effective(f, e, g) IN
         /\ c.battery.reboot_budget \in Int /\ c.slots.rollback_reboots \in Int
         /\ c.ssh.sudo \in BOOLEAN
<1> DEFINE value(s, k) == Effective(f, e, g)[s][k]
           inFile(s, k) == s \in DOMAIN f /\ k \in DOMAIN SectionOf(f, s)
<1>1. /\ "battery" \in Sections /\ "reboot_budget" \in DOMAIN FieldType["battery"]
      /\ "slots" \in Sections /\ "rollback_reboots" \in DOMAIN FieldType["slots"]
      /\ "ssh" \in Sections /\ "sudo" \in DOMAIN FieldType["ssh"]
  BY FieldNames
<1>2. \A s \in Sections : \A k \in DOMAIN FieldType[s] :
        value(s, k) =
          IF FlagFor(s, k) \in DOMAIN g THEN g[FlagFor(s, k)]
          ELSE IF <<s, k>> \in DOMAIN e THEN Says(FieldType[s][k], e[<<s, k>>])
          ELSE IF inFile(s, k) THEN Says(FieldType[s][k], f[s][k])
          ELSE Default[s][k]
  BY DEF Effective
<1>3. \A s, k : inFile(s, k) => SaysAsWanted(s, k, f[s][k])
  BY FilesAssumption DEF SectionOf
<1>4. \A s, k : <<s, k>> \in DOMAIN e => SaysAsWanted(s, k, e[<<s, k>>])
  <2> TAKE s, k
  <2>1. <<s, k>>[1] = s /\ <<s, k>>[2] = k
    OBVIOUS
  <2> QED BY <2>1, EnvsAssumption
<1>5. ASSUME NEW s \in Sections, NEW k \in DOMAIN FieldType[s],
             <<s, k>> \in {<<"slots", "rollback_reboots">>, <<"battery", "reboot_budget">>},
             FieldType[s][k] = "int"
      PROVE  /\ <<s, k>> \in DOMAIN e => Says("int", e[<<s, k>>]) \in Int
             /\ inFile(s, k) /\ <<s, k>> \notin DOMAIN e => Says("int", f[s][k]) \in Int
  <2> DEFINE raw == SectionOf(Merged(f, e), s)
  <2>1. k \in DOMAIN raw => raw[k].says # Junk
    BY <1>5 DEF LoadRaises, Unbuildable
  <2> HIDE DEF raw
  <2>2. /\ <<s, k>> \in DOMAIN e => k \in DOMAIN raw /\ raw[k] = e[<<s, k>>]
        /\ inFile(s, k) /\ <<s, k>> \notin DOMAIN e => k \in DOMAIN raw /\ raw[k] = f[s][k]
    BY RawLookup DEF raw
  <2> QED BY <1>3, <1>4, <1>5, <2>1, <2>2 DEF SaysAsWanted, Says
<1>6. FieldType["battery"]["reboot_budget"] = "int" /\ FieldType["slots"]["rollback_reboots"] = "int"
      /\ FieldType["ssh"]["sudo"] = "bool"
  BY DEF FieldType
<1>7. Default["battery"]["reboot_budget"] = 0 /\ Default["slots"]["rollback_reboots"] = 7
      /\ Default["ssh"]["sudo"] = TRUE
  BY DEF Default
<1>8. /\ FlagFor("battery", "reboot_budget") = "reboot_budget"
      /\ FlagFor("slots", "rollback_reboots") \notin DOMAIN g
      /\ FlagFor("ssh", "sudo") \notin DOMAIN g
      /\ "reboot_budget" \in DOMAIN g => g["reboot_budget"] \in Int
  BY FlagsAssumption DEF FlagFor
<1> HIDE DEF value
<1>9. value("battery", "reboot_budget") \in Int
  <2>1. value("battery", "reboot_budget") =
          IF "reboot_budget" \in DOMAIN g THEN g["reboot_budget"]
          ELSE IF <<"battery", "reboot_budget">> \in DOMAIN e
               THEN Says("int", e[<<"battery", "reboot_budget">>])
          ELSE IF inFile("battery", "reboot_budget")
               THEN Says("int", f["battery"]["reboot_budget"])
          ELSE 0
    BY <1>1, <1>2, <1>6, <1>7, <1>8
  <2>2. /\ <<"battery", "reboot_budget">> \in DOMAIN e =>
             Says("int", e[<<"battery", "reboot_budget">>]) \in Int
        /\ inFile("battery", "reboot_budget")
             /\ <<"battery", "reboot_budget">> \notin DOMAIN e =>
             Says("int", f["battery"]["reboot_budget"]) \in Int
    BY <1>1, <1>5, <1>6
  <2> HIDE DEF inFile
  <2> QED BY <1>8, <2>1, <2>2
<1>10. value("slots", "rollback_reboots") \in Int
  <2>1. value("slots", "rollback_reboots") =
          IF <<"slots", "rollback_reboots">> \in DOMAIN e
          THEN Says("int", e[<<"slots", "rollback_reboots">>])
          ELSE IF inFile("slots", "rollback_reboots")
               THEN Says("int", f["slots"]["rollback_reboots"])
          ELSE 7
    BY <1>1, <1>2, <1>6, <1>7, <1>8
  <2>2. /\ <<"slots", "rollback_reboots">> \in DOMAIN e =>
             Says("int", e[<<"slots", "rollback_reboots">>]) \in Int
        /\ inFile("slots", "rollback_reboots")
             /\ <<"slots", "rollback_reboots">> \notin DOMAIN e =>
             Says("int", f["slots"]["rollback_reboots"]) \in Int
    BY <1>1, <1>5, <1>6
  <2> HIDE DEF inFile
  <2> QED BY <2>1, <2>2
<1>11. value("ssh", "sudo") \in BOOLEAN
  <2>1. value("ssh", "sudo") =
          IF <<"ssh", "sudo">> \in DOMAIN e THEN Says("bool", e[<<"ssh", "sudo">>])
          ELSE IF inFile("ssh", "sudo") THEN Says("bool", f["ssh"]["sudo"])
          ELSE TRUE
    BY <1>1, <1>2, <1>6, <1>7, <1>8
  <2>2. \A raw : SaysAsWanted("ssh", "sudo", raw) => Says("bool", raw) \in BOOLEAN
    BY DEF SaysAsWanted, Says
  <2>3. /\ <<"ssh", "sudo">> \in DOMAIN e => SaysAsWanted("ssh", "sudo", e[<<"ssh", "sudo">>])
        /\ inFile("ssh", "sudo") => SaysAsWanted("ssh", "sudo", f["ssh"]["sudo"])
    BY <1>3, <1>4
  <2> HIDE DEF inFile
  <2> QED BY <2>1, <2>2, <2>3
<1> QED BY <1>9, <1>10, <1>11 DEF value

\* A flag that is given replaces one field, and only that.
LEMMA OverrideLookup ==
  ASSUME NEW c, NEW g,
         Shaped(c),
         DOMAIN g \subseteq {"flash", "rollback_via", "reboot_budget"}
  PROVE  ApplyOverrides(c, g) =
           [s \in Sections |-> [k \in DOMAIN FieldType[s] |->
              IF FlagFor(s, k) \in DOMAIN g THEN g[FlagFor(s, k)] ELSE c[s][k]]]
<1> USE DEF Shaped
<1> DEFINE flash    == [k \in {"backend"} |->
                          IF "flash" \in DOMAIN g THEN g["flash"] ELSE c["flash"][k]]
           slots1   == [k \in {"home_base", "rollback_via", "rollback_reboots"} |->
                          IF k = "rollback_via" /\ "rollback_via" \in DOMAIN g
                          THEN g["rollback_via"] ELSE c["slots"][k]]
           battery  == [k \in {"reboot_budget"} |->
                          IF "reboot_budget" \in DOMAIN g THEN g["reboot_budget"]
                          ELSE c["battery"][k]]
           c1       == [c EXCEPT !["flash"] = flash]
           c2       == [c1 EXCEPT !["slots"] = slots1]
           c3       == [c2 EXCEPT !["battery"] = battery]
<1>1. ApplyOverrides(c, g) = c3
  <2>1. [c["flash"] EXCEPT !["backend"] = IF "flash" \in DOMAIN g THEN g["flash"] ELSE @] = flash
    BY FieldNames
  <2>2. [c["slots"] EXCEPT !["rollback_via"] =
           IF "rollback_via" \in DOMAIN g THEN g["rollback_via"] ELSE @] = slots1
    BY FieldNames
  <2>3. [c["battery"] EXCEPT !["reboot_budget"] =
           IF "reboot_budget" \in DOMAIN g THEN g["reboot_budget"] ELSE @] = battery
    BY FieldNames
  <2> HIDE DEF flash, slots1, battery
  <2> QED BY <2>1, <2>2, <2>3, FieldNames DEF ApplyOverrides
<1>2. \A s \in Sections : c3[s] =
        [k \in DOMAIN FieldType[s] |->
              IF FlagFor(s, k) \in DOMAIN g THEN g[FlagFor(s, k)] ELSE c[s][k]]
  <2> TAKE s \in Sections
  <2>1. CASE s = "flash"
    <3>1. c3[s] = flash
      BY <2>1, FieldNames
    <3> QED BY <2>1, <3>1, FieldNames DEF FlagFor
  <2>2. CASE s = "slots"
    <3>1. c3[s] = slots1
      BY <2>2, FieldNames
    <3> QED BY <2>2, <3>1, FieldNames DEF FlagFor
  <2>3. CASE s = "battery"
    <3>1. c3[s] = battery
      BY <2>3, FieldNames
    <3> QED BY <2>3, <3>1, FieldNames DEF FlagFor
  <2>4. CASE s \in {"ssh", "power"}
    <3>1. c3[s] = c[s]
      BY <2>4, FieldNames
    <3>2. \A k : FlagFor(s, k) \notin DOMAIN g
      BY <2>4 DEF FlagFor
    <3>3. c[s] = [k \in DOMAIN FieldType[s] |-> c[s][k]]
      OBVIOUS
    <3> QED BY <3>1, <3>2, <3>3
  <2> QED BY <2>1, <2>2, <2>3, <2>4, FieldNames
<1> HIDE DEF flash, slots1, battery
<1> QED BY <1>1, <1>2

\* The precedence of the sources, for all files, environments and flags.
THEOREM PrecedenceKept == Spec => LoadedRight
<1> DEFINE FromSources == pc = "load" => file \in Files /\ env \in Envs /\ flags \in FlagSets
<1>1. Init => FromSources
  BY DEF Init
<1>2. FromSources /\ [Next]_vars => FromSources'
  BY DEF Next, vars, sources, Load, Ask, ReadActiveLine, ReadSlotLine, ReadCutCount, Decide
<1>3. Spec => []FromSources
  BY <1>1, <1>2, PTL DEF Spec
<1>4. ASSUME FromSources, Load, pc' = "ready"
      PROVE  cfg' = Effective(file, env, flags)
  <2> DEFINE c == LoadConfig(file, env)
  <2>1. file \in Files /\ env \in Envs /\ flags \in FlagSets
    BY <1>4 DEF Load
  <2>2. cfg' = ApplyOverrides(c, flags)
    BY <1>4 DEF Load
  <2>3. Shaped(c)
    <3>1. c = [s \in Sections |-> BuildSection(s, SectionOf(Merged(file, env), s))]
      BY DEF LoadConfig
    <3>2. \A s \in Sections : c[s] = [k \in DOMAIN FieldType[s] |-> c[s][k]]
      BY <3>1 DEF BuildSection
    <3> HIDE DEF c
    <3> QED BY <3>1, <3>2 DEF Shaped
  <2>4. \A s \in Sections : \A k \in DOMAIN FieldType[s] :
          c[s][k] =
            IF <<s, k>> \in DOMAIN env THEN Says(FieldType[s][k], env[<<s, k>>])
            ELSE IF s \in DOMAIN file /\ k \in DOMAIN SectionOf(file, s)
                 THEN Says(FieldType[s][k], file[s][k])
            ELSE Default[s][k]
    BY <2>1, LoadLookup
  <2>5. DOMAIN flags \subseteq {"flash", "rollback_via", "reboot_budget"}
    BY <2>1, FlagsAssumption
  <2> HIDE DEF c
  <2>6. ApplyOverrides(c, flags) =
          [s \in Sections |-> [k \in DOMAIN FieldType[s] |->
             IF FlagFor(s, k) \in DOMAIN flags THEN flags[FlagFor(s, k)] ELSE c[s][k]]]
    BY <2>3, <2>5, OverrideLookup
  <2> QED BY <2>2, <2>4, <2>6 DEF Effective
<1>5. FromSources /\ [Next]_vars =>
        [Load /\ pc' = "ready" => cfg' = Effective(file, env, flags)]_vars
  BY <1>4
<1> QED BY <1>3, <1>5, PTL DEF Spec, LoadedRight

\* A process that started has a host to reach and a switch it can address.
THEOREM StartedAddressed == Spec => []StartsAddressed
<1> DEFINE FromSources == pc = "load" => file \in Files /\ env \in Envs /\ flags \in FlagSets
           Usable      == FromSources /\ StartsAddressed
<1>1. Init => Usable
  BY DEF Init, StartsAddressed
<1>2. ASSUME Usable, [Next]_vars PROVE Usable'
  <2>1. FromSources'
    BY <1>2 DEF Next, vars, sources, Load, Ask, ReadActiveLine, ReadSlotLine, ReadCutCount, Decide
  <2>2. ASSUME Load, pc' = "ready" PROVE StartsAddressed'
    <3> DEFINE c   == LoadConfig(file, env)
               ssh == SectionOf(Merged(file, env), "ssh")
    <3>1. /\ cfg' = ApplyOverrides(c, flags)
          /\ "host" \in DOMAIN ssh /\ ssh["host"].says # ""
          /\ CreatePower(cfg') \notin {"error", "crash"}
      BY <2>2 DEF Load, LoadRaises
    <3>2. c["ssh"]["host"] = ssh["host"].says
      <4>1. c["ssh"] = BuildSection("ssh", ssh)
        BY FieldNames DEF LoadConfig
      <4>2. FieldType["ssh"]["host"] = "str"
        BY DEF FieldType
      <4> HIDE DEF c, ssh
      <4> QED BY <3>1, <4>1, <4>2, FieldNames DEF BuildSection, Coerce
    <3>3. Shaped(c)
      <4>1. c = [s \in Sections |-> BuildSection(s, SectionOf(Merged(file, env), s))]
        BY DEF LoadConfig
      <4>2. \A s \in Sections : c[s] = [k \in DOMAIN FieldType[s] |-> c[s][k]]
        BY <4>1 DEF BuildSection
      <4> HIDE DEF c
      <4> QED BY <4>1, <4>2 DEF Shaped
    <3>4. DOMAIN flags \subseteq {"flash", "rollback_via", "reboot_budget"}
      BY <1>2, <2>2, FlagsAssumption DEF Load
    <3> HIDE DEF c, ssh
    <3>5. ApplyOverrides(c, flags) =
            [s \in Sections |-> [k \in DOMAIN FieldType[s] |->
               IF FlagFor(s, k) \in DOMAIN flags THEN flags[FlagFor(s, k)] ELSE c[s][k]]]
      BY <3>3, <3>4, OverrideLookup
    <3>6. FlagFor("ssh", "host") \notin DOMAIN flags
      BY <3>4 DEF FlagFor
    <3>7. cfg'["ssh"]["host"] = c["ssh"]["host"]
      <4>1. "ssh" \in Sections /\ "host" \in DOMAIN FieldType["ssh"]
        BY FieldNames
      <4>2. cfg'["ssh"] = [k \in DOMAIN FieldType["ssh"] |->
              IF FlagFor("ssh", k) \in DOMAIN flags THEN flags[FlagFor("ssh", k)]
              ELSE c["ssh"][k]]
        BY <3>1, <3>5, <4>1
      <4> QED BY <3>6, <4>1, <4>2
    <3>8. cfg'.ssh.host # ""
      BY <3>1, <3>2, <3>7
    <3> QED BY <3>1, <3>8 DEF StartsAddressed, CreatePower, SwitchEnabled
  <2>3. ASSUME Load, pc' # "ready" PROVE StartsAddressed'
    BY <2>3 DEF Load, StartsAddressed
  <2>4. ASSUME ~Load PROVE StartsAddressed'
    <3>1. UNCHANGED cfg /\ (pc' \in {"ready", "reading", "decided"} =>
                               pc \in {"ready", "reading", "decided"})
      BY <1>2, <2>4 DEF Next, vars, Ask, ReadActiveLine, ReadSlotLine, ReadCutCount, Decide
    <3> QED BY <1>2, <3>1 DEF StartsAddressed
  <2>5. StartsAddressed'
    BY <2>2, <2>3, <2>4
  <2> QED BY <2>1, <2>5
<1>3. Usable => StartsAddressed
  OBVIOUS
<1> QED BY <1>1, <1>2, <1>3, PTL DEF Spec

\* No text is left where a decision counts or asks for a truth value, and the
\* variables of the parser keep their types.
THEOREM TypeCorrect == Spec => []TypeOK
<1> DEFINE FromSources == pc = "load" => file \in Files /\ env \in Envs /\ flags \in FlagSets
           Loaded == /\ cfg.battery.reboot_budget \in Int /\ cfg.slots.rollback_reboots \in Int
                     /\ cfg.ssh.sudo \in BOOLEAN
           Typed  == FromSources /\ Loaded /\ verdict \in {"none", "yes", "no", "crash"}
<1>1. ASSUME Init PROVE Typed
  <2>1. FromSources /\ verdict \in {"none", "yes", "no", "crash"}
    BY <1>1 DEF Init
  <2>2. cfg.battery.reboot_budget = 0 /\ cfg.slots.rollback_reboots = 7
    BY <1>1 DEF Init, Default
  <2>3. cfg.ssh.sudo \in BOOLEAN
    BY <1>1 DEF Init, Default
  <2>4. Loaded
    BY <2>2, <2>3
  <2> HIDE DEF Loaded
  <2> QED BY <2>1, <2>4
<1>2. ASSUME Typed, [Next]_vars,
             [Load /\ pc' = "ready" => cfg' = Effective(file, env, flags)]_vars
      PROVE  Typed'
  <2>1. FromSources'
    BY <1>2 DEF Next, vars, sources, Load, Ask, ReadActiveLine, ReadSlotLine, ReadCutCount, Decide
  <2>2. Loaded'
    <3>1. CASE Load /\ pc' = "ready"
      <4>1. /\ ~LoadRaises(file, env)
            /\ file \in Files /\ env \in Envs /\ flags \in FlagSets
        BY <1>2, <3>1 DEF Load
      <4>2. cfg' = Effective(file, env, flags)
        BY <1>2, <3>1 DEF Load, vars
      <4> QED BY <4>1, <4>2, EffectiveTypes
    <3>2. CASE ~(Load /\ pc' = "ready")
      <4>1. cfg' = cfg
        BY <1>2, <3>2 DEF Next, vars, Load, Ask, ReadActiveLine, ReadSlotLine, ReadCutCount, Decide
      <4> QED BY <1>2, <4>1
    <3> QED BY <3>1, <3>2
  <2>3. (verdict \in {"none", "yes", "no", "crash"})'
    BY <1>2 DEF Next, vars, parser, answer, Load, Ask, ReadActiveLine, ReadSlotLine,
                ReadCutCount, Decide, Decision, FlagAsWanted, FlagIs
  <2> QED BY <2>1, <2>2, <2>3
<1>3. Typed /\ IInv => TypeOK
  BY DEF IInv, ReadingTypes, TypeOK
<1> QED BY <1>1, <1>2, <1>3, ReadingInvariant, PrecedenceKept, PTL DEF Spec, LoadedRight
=============================================================================
