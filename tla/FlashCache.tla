----------------------------- MODULE FlashCache -----------------------------
(***************************************************************************)
(* The contents that the in-place loop flashes: the files of the host, the *)
(* partitions of the experiment slot, and the cache _flash_base, which     *)
(* remembers per partition the path of the last image flashed to it so     *)
(* that the next flash ships a delta against that file.                    *)
(*                                                                         *)
(* Whether the device answers is the business of Orchestrator; here a call *)
(* of uartfs may fail, and the user rebuilds files at any time.            *)
(***************************************************************************)
EXTENDS Naturals, Sequences

CONSTANTS
  Files,       \* paths on the host
  Parts,       \* partitions of the experiment slot
  PartOf,      \* _partlabel_for: several files may have one stem
  Contents,    \* what a file may hold
  Garbage,     \* what a partition holds after a flash that broke off
  None,        \* no base known, nothing written
  LinkFails,   \* whether the serial line and pixel-ota may fail
  MaxImages    \* most images named on one command line

ASSUME PartOfAssumption  == PartOf \in [Files -> Parts]
ASSUME GarbageAssumption == Garbage \notin Contents /\ None \notin Contents \cup Files \cup {Garbage}
ASSUME SizeAssumption    == LinkFails \in BOOLEAN /\ MaxImages \in Nat \ {0}

VARIABLES
  disk,     \* the files
  slot,     \* the partitions
  remote_dir, \* what stage has pushed, by the partition it is for
  base,     \* _flash_base
  pc,       \* where the in-place loop is
  todo,     \* images it has still to flash
  result,   \* what the last command reported
  written,  \* history: what this command line's positive answers wrote
  named,    \* history: the partitions this command line names
  unsure    \* history: partitions whose last flash did not report success, or
            \* wrote an image that a push had left cut short

world   == <<disk, slot, remote_dir>>
history == <<written, named, unsure>>
vars    == <<world, base, pc, todo, result, history>>

Nothing == [p \in Parts |-> None]

\* The history of a command line ends with it.
Forget == written' = Nothing /\ named' = {}

-----------------------------------------------------------------------------
\* uartfs flash [--base b]: sends the image, or a delta that turns the present
\* content of file b into it; writes; reads back and compares.  A delta against
\* anything but the content of the partition never verifies.
FlashAnswers(file, part, b) ==
  LET applies == b = None \/ disk[b] = slot[part]
      fails   == (IF applies THEN {} ELSE {slot[part], Garbage}) \cup
                 (IF LinkFails THEN {slot[part], Garbage, disk[file]} ELSE {})
  IN  [ok : {FALSE}, content : fails] \cup
      (IF applies THEN {[ok |-> TRUE, content |-> disk[file]]} ELSE {})

IterateUartfsOfNone ==
  /\ pc = "idle"
  /\ \E n \in 0..MaxImages : \E images \in [1..n -> Files] :
       /\ todo' = images
       /\ named' = {PartOf[images[i]] : i \in 1..n}
  /\ pc' = "flash" /\ result' = "none" /\ written' = Nothing
  /\ UNCHANGED <<world, base, unsure>>
\* The command line names at least one image.
IterateUartfs ==
  /\ pc = "idle"
  /\ \E n \in 1..MaxImages : \E images \in [1..n -> Files] :
       /\ todo' = images
       /\ named' = {PartOf[images[i]] : i \in 1..n}
  /\ pc' = "flash" /\ result' = "none" /\ written' = Nothing
  /\ UNCHANGED <<world, base, unsure>>

\* One turn of the loop: a non-zero exit status is a UartfsError, which ends
\* the command before the cache is touched and before any reboot.
FlashImageCachedFirst ==
  /\ pc = "flash"
  /\ LET file == Head(todo)  part == PartOf[file] IN
     \E a \in FlashAnswers(file, part, base[part]) :
       /\ slot' = [slot EXCEPT ![part] = a.content]
       /\ base' = [base EXCEPT ![part] = file]
       /\ IF a.ok
          THEN /\ written' = [written EXCEPT ![part] = disk[file]]
               /\ todo' = Tail(todo) /\ unsure' = unsure \ {part}
               /\ pc' = IF Len(todo) = 1 THEN "reboot" ELSE "flash"
               /\ UNCHANGED <<result, named>>
          ELSE /\ pc' = "idle" /\ result' = "error" /\ todo' = <<>> /\ unsure' = unsure \cup {part}
               /\ Forget
  /\ UNCHANGED <<disk, remote_dir>>
FlashImageUnchecked ==
  /\ pc = "flash"
  /\ LET file == Head(todo)  part == PartOf[file] IN
     \E a \in FlashAnswers(file, part, base[part]) :
       /\ slot' = [slot EXCEPT ![part] = a.content]
       /\ base' = [base EXCEPT ![part] = file]
       /\ written' = [written EXCEPT ![part] = disk[file]]
       /\ todo' = Tail(todo) /\ unsure' = unsure \ {part}
       /\ pc' = IF Len(todo) = 1 THEN "reboot" ELSE "flash"
  /\ UNCHANGED <<disk, remote_dir, named, result>>
FlashImage ==
  /\ pc = "flash"
  /\ LET file == Head(todo)  part == PartOf[file] IN
     \E a \in FlashAnswers(file, part, base[part]) :
       /\ slot' = [slot EXCEPT ![part] = a.content]
       /\ IF a.ok
          THEN /\ base' = [base EXCEPT ![part] = file]
               /\ written' = [written EXCEPT ![part] = disk[file]]
               /\ todo' = Tail(todo) /\ unsure' = unsure \ {part}
               /\ pc' = IF Len(todo) = 1 THEN "reboot" ELSE "flash"
               /\ UNCHANGED <<result, named>>
          ELSE /\ pc' = "idle" /\ result' = "error" /\ todo' = <<>> /\ unsure' = unsure \cup {part}
               /\ Forget /\ UNCHANGED base
  /\ UNCHANGED <<disk, remote_dir>>

\* The reboot into what was flashed, and whatever follows it.
RebootExperiment ==
  /\ pc = "reboot"
  /\ pc' = "idle" /\ result' = "booted" /\ Forget
  /\ UNCHANGED <<world, base, todo, unsure>>

\* stage pushes each image to remote_dir under its base name (here the partition
\* it is for), then has pixel-ota flash what the directory holds: it is never
\* emptied, so that the images of an earlier stage, one that a push left cut
\* short among them, are flashed again, unless the device has lost its /tmp.
\* Neither step knows of the cache.
Staged(images, part) == {disk[f] : f \in {g \in images : PartOf[g] = part}}

\* A push that fails: those before it arrived, those after it were not sent.
PushFails(images, held) ==
  /\ LinkFails
  /\ \E broken \in {PartOf[f] : f \in images} :
       remote_dir' \in {d \in [Parts -> Contents \cup {Garbage, None}] : \A p \in Parts :
         d[p] \in {held[p]} \cup Staged(images, p) \cup (IF p = broken THEN {Garbage} ELSE {})}
  /\ result' = "error"
  /\ UNCHANGED <<slot, unsure>>

PushAndUpdate(images, held) ==
  /\ remote_dir' \in {d \in [Parts -> Contents \cup {Garbage, None}] : \A p \in Parts :
       d[p] \in IF Staged(images, p) = {} THEN {held[p]} ELSE Staged(images, p)}
  /\ \E ok \in {TRUE, ~LinkFails} :
       LET flashed == {p \in Parts : remote_dir'[p] # None} IN
       /\ slot' \in {s \in [Parts -> Contents \cup {Garbage}] : \A p \in Parts :
            s[p] \in (IF p \in flashed THEN {remote_dir'[p]} ELSE {slot[p]}) \cup
                     (IF p \in flashed /\ ~ok THEN {slot[p], Garbage} ELSE {})}
       /\ result' = IF ok THEN "staged" ELSE "error"
       /\ unsure' = IF ok THEN (unsure \ flashed) \cup {p \in flashed : remote_dir'[p] = Garbage}
                          ELSE unsure \cup flashed

Stage ==
  /\ pc = "idle"
  /\ \E images \in SUBSET Files \ {{}}, held \in {remote_dir, Nothing} :
       PushFails(images, held) \/ PushAndUpdate(images, held)
  /\ UNCHANGED <<disk, base, pc, todo, written, named>>

\* The user builds a new kernel, under the same path.
Rebuild ==
  /\ \E file \in Files, content \in Contents : disk' = [disk EXCEPT ![file] = content]
  /\ UNCHANGED <<slot, remote_dir, base, pc, todo, result, history>>

\* A process starts, after the last one ended or was killed, which may cut
\* short the flash it was at.
NewProcess ==
  /\ base' = Nothing
  /\ pc' = "idle" /\ todo' = <<>> /\ result' = "none" /\ Forget
  /\ \/ UNCHANGED <<slot, unsure>>
     \/ /\ pc = "flash"
        /\ LET part == PartOf[Head(todo)] IN
           /\ slot' = [slot EXCEPT ![part] = Garbage]
           /\ unsure' = unsure \cup {part}
  /\ UNCHANGED <<disk, remote_dir>>

Init ==
  /\ disk \in [Files -> Contents] /\ slot \in [Parts -> Contents]
  /\ remote_dir = Nothing /\ base = Nothing
  /\ pc = "idle" /\ todo = <<>> /\ result = "none"
  /\ written = Nothing /\ named = {} /\ unsure = {}

Next == IterateUartfs \/ FlashImage \/ RebootExperiment \/ Stage \/ Rebuild \/ NewProcess

Spec == Init /\ [][Next]_vars

-----------------------------------------------------------------------------
TypeOK ==
  /\ disk \in [Files -> Contents] /\ slot \in [Parts -> Contents \cup {Garbage}]
  /\ remote_dir \in [Parts -> Contents \cup {Garbage, None}]
  /\ base \in [Parts -> Files \cup {None}]
  /\ pc \in {"idle", "flash", "reboot"} /\ todo \in Seq(Files)
  /\ result \in {"none", "error", "staged", "booted"}
  /\ written \in [Parts -> Contents \cup {None}]
  /\ named \in SUBSET Parts /\ unsure \in SUBSET Parts
  /\ pc = "flash" <=> todo # <<>>

\* The in-place reboot starts what the command line named: every partition of
\* it holds an image of this command, whole, and none was skipped, however the
\* bases of the deltas were out of date and whatever failed on the way.
NamedImagesBoot ==
  pc = "reboot" => \A p \in named : written[p] # None /\ slot[p] = written[p]

\* A partition is never left broken in silence: the last flash of it ended in
\* an error, its process was killed, or it was of an image that a push left cut
\* short, which did end in an error.  (A later command that does not name the
\* partition boots it all the same.)
CorruptionTold == \A p \in Parts : slot[p] = Garbage => p \in unsure

\* The cache "is the current on-device content" (orchestrator.py) until what
\* the host cannot see puts it out of date, a rebuilt file or an update by
\* pixel-ota, or a flash that failed and wrote.
CacheTrue(p) == base[p] = None \/ slot[p] = disk[base[p]]

CacheLostOnlyBy ==
  [][\A p \in Parts : CacheTrue(p) /\ ~CacheTrue(p)' =>
       \/ Rebuild
       \/ Stage
       \/ slot'[p] # slot[p] /\ result' = "error"]_vars
=============================================================================
