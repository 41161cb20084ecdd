-------------------------- MODULE FlashCacheProofs --------------------------
(***************************************************************************)
(* The promises of FlashCache, for any files, partitions, command lines    *)
(* and failures.                                                           *)
(***************************************************************************)
EXTENDS FlashCache, SequenceTheorems, TLAPS

\* The partitions of the images still to flash.
Ahead == {PartOf[todo[i]] : i \in 1..Len(todo)}

\* Where the loop is, every partition the command names holds what was written
\* to it, or is still ahead.
Flashed ==
  /\ pc = "reboot" => todo = <<>>
  /\ pc # "idle" => \A p \in named :
       p \in Ahead \/ (written[p] # None /\ slot[p] = written[p])

IInv == TypeOK /\ Flashed /\ CorruptionTold

\* What uartfs answers.
LEMMA AnswerLemma ==
  ASSUME TypeOK, NEW file \in Files, NEW part \in Parts, NEW b,
         NEW a \in FlashAnswers(file, part, b)
  PROVE  /\ a.content \in Contents \cup {Garbage}
         /\ a.ok \in BOOLEAN
         /\ a.ok => a.content = disk[file]
         /\ disk[file] \in Contents
  <1> DEFINE applies == b = None \/ disk[b] = slot[part]
             fails   == (IF applies THEN {} ELSE {slot[part], Garbage}) \cup
                        (IF LinkFails THEN {slot[part], Garbage, disk[file]} ELSE {})
  <1>1. disk[file] \in Contents /\ slot[part] \in Contents \cup {Garbage}
    BY DEF TypeOK
  <1>2. fails \subseteq Contents \cup {Garbage}
    BY <1>1
  <1>3. FlashAnswers(file, part, b) =
          [ok : {FALSE}, content : fails] \cup
          (IF applies THEN {[ok |-> TRUE, content |-> disk[file]]} ELSE {})
    BY DEF FlashAnswers
  <1> HIDE DEF fails, applies
  <1>4. CASE a \in [ok : {FALSE}, content : fails]
    BY <1>1, <1>2, <1>4
  <1>5. CASE a = [ok |-> TRUE, content |-> disk[file]]
    BY <1>1, <1>5
  <1>6. QED
    BY <1>3, <1>4, <1>5

\* One turn of the loop takes the first image off the list.
LEMMA HeadLemma ==
  ASSUME TypeOK, pc = "flash"
  PROVE  /\ Head(todo) \in Files /\ PartOf[Head(todo)] \in Parts
         /\ Tail(todo) \in Seq(Files)
         /\ Tail(todo) = <<>> <=> Len(todo) = 1
         /\ \A p \in Ahead : p = PartOf[Head(todo)]
                             \/ p \in {PartOf[Tail(todo)[i]] : i \in 1..Len(Tail(todo))}
  <1>1. todo \in Seq(Files) /\ todo # <<>>
    BY DEF TypeOK
  <1>2. /\ Head(todo) \in Files /\ PartOf[Head(todo)] \in Parts
        /\ Tail(todo) \in Seq(Files) /\ Len(Tail(todo)) = Len(todo) - 1 /\ Len(todo) \in Nat
    BY <1>1, PartOfAssumption
  <1>3. Tail(todo) = <<>> <=> Len(todo) = 1
    <2>1. Len(Tail(todo)) = 0 <=> Len(todo) = 1
      BY <1>2
    <2>2. Len(Tail(todo)) = 0 <=> Tail(todo) = <<>>
      BY <1>2, EmptySeq
    <2>3. QED
      BY <2>1, <2>2
  <1>4. ASSUME NEW i \in 1..Len(todo), i # 1
        PROVE  i - 1 \in 1..Len(Tail(todo)) /\ Tail(todo)[i - 1] = todo[i]
    BY <1>1, <1>2, <1>4
  <1>5. ASSUME NEW i \in 1..Len(todo)
        PROVE  PartOf[todo[i]] = PartOf[Head(todo)]
               \/ PartOf[todo[i]] \in {PartOf[Tail(todo)[j]] : j \in 1..Len(Tail(todo))}
    <2>1. CASE i = 1
      BY <1>1, <2>1
    <2>2. CASE i # 1
      BY <1>4, <2>2
    <2>3. QED
      BY <2>1, <2>2
  <1>6. QED
    BY <1>2, <1>3, <1>5 DEF Ahead

-----------------------------------------------------------------------------
(***************************************************************************)
(* The steps.                                                              *)
(***************************************************************************)

LEMMA FlashStep ==
  ASSUME IInv, FlashImage
  PROVE  IInv'
  <1> DEFINE file == Head(todo)
             part == PartOf[file]
  <1>1. TypeOK /\ pc = "flash"
    BY DEF IInv, FlashImage
  <1>2. file \in Files /\ part \in Parts /\ Tail(todo) \in Seq(Files)
    BY <1>1, HeadLemma
  <1>3. PICK a \in FlashAnswers(file, part, base[part]) :
          /\ slot' = [slot EXCEPT ![part] = a.content]
          /\ \/ /\ a.ok
                /\ base' = [base EXCEPT ![part] = file]
                /\ written' = [written EXCEPT ![part] = disk[file]]
                /\ todo' = Tail(todo) /\ unsure' = unsure \ {part}
                /\ pc' = IF Len(todo) = 1 THEN "reboot" ELSE "flash"
                /\ UNCHANGED <<result, named>>
             \/ /\ ~a.ok
                /\ pc' = "idle" /\ result' = "error" /\ todo' = <<>>
                /\ unsure' = unsure \cup {part}
                /\ written' = Nothing /\ named' = {} /\ UNCHANGED base
    BY DEF FlashImage, Forget
  <1>4. UNCHANGED <<disk, remote_dir>>
    BY DEF FlashImage
  <1>5. /\ a.content \in Contents \cup {Garbage} /\ disk[file] \in Contents
        /\ a.ok => a.content = disk[file]
    BY <1>1, <1>2, AnswerLemma
  <1>6. todo' = <<>> <=> pc' # "flash"
    BY <1>1, <1>3, HeadLemma
  <1> HIDE DEF file, part
  <1>7. TypeOK'
    <2>1. /\ disk' \in [Files -> Contents] /\ slot' \in [Parts -> Contents \cup {Garbage}]
          /\ named' \in SUBSET Parts
          /\ remote_dir' \in [Parts -> Contents \cup {Garbage, None}]
      BY <1>1, <1>2, <1>3, <1>4, <1>5 DEF TypeOK
    <2>2. unsure' \in SUBSET Parts
      BY <1>1, <1>2, <1>3 DEF TypeOK
    <2>3. todo' \in Seq(Files)
      <3>1. todo' = Tail(todo) \/ todo' = <<>>
        BY <1>3
      <3>2. QED
        BY <1>2, <3>1, EmptySeq
    <2>4. base' \in [Parts -> Files \cup {None}] /\ written' \in [Parts -> Contents \cup {None}]
      BY <1>1, <1>2, <1>3, <1>5 DEF TypeOK, Nothing
    <2>5. /\ pc' \in {"idle", "flash", "reboot"}
          /\ result' \in {"none", "error", "staged", "booted"}
      BY <1>1, <1>3 DEF TypeOK
    <2>6. QED
      BY <1>6, <2>1, <2>4, <2>5, <2>2, <2>3 DEF TypeOK
  <1>8. CorruptionTold'
    BY <1>1, <1>2, <1>3, <1>5, GarbageAssumption DEF IInv, CorruptionTold, TypeOK
  <1>9. CASE a.ok
    <2>1. ASSUME NEW p \in named, p = part
          PROVE  written'[p] # None /\ slot'[p] = written'[p]
      BY <1>1, <1>2, <1>3, <1>5, <1>9, <2>1, GarbageAssumption DEF TypeOK
    <2>2. ASSUME NEW p \in named, p # part
          PROVE  p \in Ahead' \/ (written'[p] # None /\ slot'[p] = written'[p])
      <3>1. p \in Parts
        BY <1>1 DEF TypeOK
      <3>2. slot'[p] = slot[p] /\ written'[p] = written[p]
        BY <1>1, <1>2, <1>3, <1>9, <2>2, <3>1 DEF TypeOK
      <3>3. CASE p \in Ahead
        <4>1. todo' = Tail(todo) /\ part = PartOf[Head(todo)]
          BY <1>3, <1>9 DEF part, file
        <4>2. p \in {PartOf[Tail(todo)[i]] : i \in 1..Len(Tail(todo))}
          BY <1>1, <2>2, <3>3, <4>1, HeadLemma
        <4>3. QED
          BY <4>1, <4>2 DEF Ahead
      <3>4. CASE p \notin Ahead
        BY <1>1, <3>2, <3>4 DEF IInv, Flashed
      <3>5. QED
        BY <3>3, <3>4
    <2>3. Flashed'
      BY <1>3, <1>4, <1>6, <1>9, <2>1, <2>2 DEF Flashed
    <2>4. QED
      BY <1>7, <1>8, <2>3 DEF IInv
  <1>10. CASE ~a.ok
    BY <1>3, <1>7, <1>8, <1>10 DEF IInv, Flashed
  <1>11. QED
    BY <1>9, <1>10

LEMMA InvariantStep ==
  ASSUME IInv, [Next]_vars
  PROVE  IInv'
  <1> USE DEF world, history
  <1>1. CASE UNCHANGED vars
    BY <1>1 DEF vars, IInv, TypeOK, Flashed, CorruptionTold, Ahead
  <1>2. CASE IterateUartfs
    <2>1. PICK n \in 1..MaxImages : \E images \in [1..n -> Files] :
            todo' = images /\ named' = {PartOf[images[i]] : i \in 1..n}
      BY <1>2 DEF IterateUartfs
    <2>2. n \in Nat /\ n > 0
      BY SizeAssumption
    <2> DEFINE images == todo'
    <2>3. images \in [1..n -> Files] /\ named' = {PartOf[images[i]] : i \in 1..n}
      BY <2>1
    <2>4. images \in Seq(Files) /\ Len(images) = n /\ images # <<>>
      BY <2>2, <2>3
    <2>5. named' = Ahead' /\ named' \in SUBSET Parts
      BY <2>2, <2>4, <2>3, PartOfAssumption DEF Ahead
    <2>6. Nothing \in [Parts -> Contents \cup {None}]
      BY DEF Nothing
    <2>7. QED
      BY <1>2, <2>4, <2>5, <2>6
         DEF IterateUartfs, IInv, TypeOK, Flashed, CorruptionTold
  <1>3. CASE FlashImage
    BY <1>3, FlashStep
  <1>4. CASE RebootExperiment
    BY <1>4 DEF RebootExperiment, Forget, Nothing, IInv, TypeOK, Flashed, CorruptionTold
  <1>5. CASE Stage
    <2>1. PICK images \in SUBSET Files \ {{}}, held \in {remote_dir, Nothing} :
            PushFails(images, held) \/ PushAndUpdate(images, held)
      BY <1>5 DEF Stage
    <2>2. pc = "idle" /\ UNCHANGED <<disk, base, pc, todo, written, named>>
      BY <1>5 DEF Stage
    <2>3. CASE PushFails(images, held)
      BY <2>2, <2>3 DEF PushFails, IInv, TypeOK, Flashed, CorruptionTold
    <2>4. CASE PushAndUpdate(images, held)
      <3>1. PICK ok \in {TRUE, ~LinkFails} :
              LET flashed == {p \in Parts : remote_dir'[p] # None} IN
              /\ slot' \in {s \in [Parts -> Contents \cup {Garbage}] : \A p \in Parts :
                   s[p] \in (IF p \in flashed THEN {remote_dir'[p]} ELSE {slot[p]}) \cup
                            (IF p \in flashed /\ ~ok THEN {slot[p], Garbage} ELSE {})}
              /\ result' = IF ok THEN "staged" ELSE "error"
              /\ unsure' = IF ok
                           THEN (unsure \ flashed) \cup {p \in flashed : remote_dir'[p] = Garbage}
                           ELSE unsure \cup flashed
        BY <2>4 DEF PushAndUpdate
      <3>2. remote_dir' \in [Parts -> Contents \cup {Garbage, None}]
        BY <2>4 DEF PushAndUpdate
      <3>3. TypeOK'
        BY <2>2, <3>1, <3>2 DEF IInv, TypeOK
      <3>4. ASSUME NEW p \in Parts, slot'[p] = Garbage
            PROVE  p \in unsure'
        <4>1. CASE remote_dir'[p] # None
          BY <3>1, <3>4, <4>1
        <4>2. CASE remote_dir'[p] = None
          BY <3>1, <3>4, <4>2 DEF IInv, CorruptionTold
        <4>3. QED
          BY <4>1, <4>2
      <3>5. QED
        BY <2>2, <3>3, <3>4 DEF IInv, Flashed, CorruptionTold
    <2>5. QED
      BY <2>1, <2>3, <2>4
  <1>6. CASE Rebuild
    BY <1>6 DEF Rebuild, IInv, TypeOK, Flashed, CorruptionTold, Ahead
  <1>7. CASE NewProcess
    <2>1. /\ Nothing \in [Parts -> Files \cup {None}]
          /\ Nothing \in [Parts -> Contents \cup {None}]
      BY DEF Nothing
    <2>2. ASSUME pc = "flash"
          PROVE  PartOf[Head(todo)] \in Parts
      BY <2>2, HeadLemma DEF IInv
    <2>3. QED
      BY <1>7, <2>1, <2>2 DEF NewProcess, Forget, IInv, TypeOK, Flashed, CorruptionTold
  <1>8. QED
    BY <1>1, <1>2, <1>3, <1>4, <1>5, <1>6, <1>7 DEF Next

LEMMA InvariantInit == Init => IInv
  BY GarbageAssumption DEF Init, IInv, TypeOK, Flashed, CorruptionTold, Nothing

THEOREM Inductive == Spec => []IInv
  BY InvariantInit, InvariantStep, PTL DEF Spec

\* Types.
THEOREM TypeCorrect == Spec => []TypeOK
  <1>1. IInv => TypeOK
    BY DEF IInv
  <1>2. QED
    BY <1>1, Inductive, PTL

\* What reboots in place is what was named, whole.
THEOREM NamedBoot == Spec => []NamedImagesBoot
  <1>1. IInv => NamedImagesBoot
    BY DEF IInv, Flashed, NamedImagesBoot, Ahead
  <1>2. QED
    BY <1>1, Inductive, PTL

\* No partition is corrupt in silence.
THEOREM CorruptionNeverSilent == Spec => []CorruptionTold
  <1>1. IInv => CorruptionTold
    BY DEF IInv
  <1>2. QED
    BY <1>1, Inductive, PTL

\* The cache is lost only to a rebuilt file, to pixel-ota, or to a flash that
\* failed and wrote.
THEOREM CacheLost == Spec => CacheLostOnlyBy
  <1>1. ASSUME IInv, Next, NEW p \in Parts, CacheTrue(p), ~CacheTrue(p)', ~Rebuild, ~Stage
        PROVE  slot'[p] # slot[p] /\ result' = "error"
    <2> USE DEF world, history
    <2>1. CASE IterateUartfs \/ RebootExperiment
      BY <1>1, <2>1 DEF IterateUartfs, RebootExperiment, CacheTrue
    <2>2. CASE NewProcess
      BY <1>1, <2>2 DEF NewProcess, Nothing, CacheTrue
    <2>3. CASE FlashImage
      <3> DEFINE file == Head(todo)
                 part == PartOf[file]
      <3>1. TypeOK /\ pc = "flash"
        BY <1>1, <2>3 DEF IInv, FlashImage
      <3>2. file \in Files /\ part \in Parts
        BY <3>1, HeadLemma
      <3>3. PICK a \in FlashAnswers(file, part, base[part]) :
              /\ slot' = [slot EXCEPT ![part] = a.content]
              /\ \/ a.ok /\ base' = [base EXCEPT ![part] = file]
                 \/ ~a.ok /\ result' = "error" /\ UNCHANGED base
        BY <2>3 DEF FlashImage
      <3>4. a.ok => a.content = disk[file]
        BY <3>1, <3>2, AnswerLemma
      <3>5. disk' = disk
        BY <2>3 DEF FlashImage
      <3> HIDE DEF file, part
      <3>6. CASE a.ok
        BY <1>1, <3>1, <3>2, <3>3, <3>4, <3>5, <3>6 DEF CacheTrue, TypeOK
      <3>7. CASE ~a.ok
        BY <1>1, <3>1, <3>2, <3>3, <3>5, <3>7 DEF CacheTrue, TypeOK
      <3>8. QED
        BY <3>6, <3>7
    <2>4. QED
      BY <1>1, <2>1, <2>2, <2>3 DEF Next
  <1>2. ASSUME IInv, [Next]_vars
        PROVE  [\A p \in Parts : CacheTrue(p) /\ ~CacheTrue(p)' =>
                  \/ Rebuild
                  \/ Stage
                  \/ slot'[p] # slot[p] /\ result' = "error"]_vars
    BY <1>1, <1>2
  <1>3. QED
    BY <1>2, Inductive, PTL DEF Spec, CacheLostOnlyBy
=============================================================================
