------------------------- MODULE BooksOpeningProofs -------------------------
(***************************************************************************)
(* Proofs about BooksOpening, for any patches and versions and any number  *)
(* of openings, crashes and failures.                                      *)
(***************************************************************************)
EXTENDS BooksOpening, SequenceTheorems, FiniteSetTheorems, TLAPS

-----------------------------------------------------------------------------
(* The invariant.  What DeskIsWhole and its companions say at the desk or   *)
(* of a partial file is carried through the opening: which patches are      *)
(* still to be tried, what the stage of the patch under way has done, and   *)
(* that the last usable backup of a partial file holds all the work.        *)

\* The patch has had its effect.
Reached(f, p) ==
    \/ p \in Patches /\ f.effect[p] = "done"
    \/ p = uuid /\ f.ids = "uuids"

\* It has had it, or is recorded as failed, or its record of failure is lost.
Tried(f, L, p) == f.runs[p].failed \/ Reached(f, p) \/ p \in L

\* What holds of the file and of every copy of it.
Sound(f, L) ==
    /\ f.marker = "complete" => f.ids = "uuids"
    /\ f.marker = "partial" => f.ids = "names"
    /\ \A p \in AllPatches : f.runs[p].ran /\ ~f.runs[p].failed => Reached(f, p)
    /\ \A p \in AllPatches : Added[p] <= f.version => Tried(f, L, p)

Shape ==
    /\ screen = "opening" <=> opening.pc # "closed"
    /\ opening.patch # NoPatch => InPatches
    /\ opening.stage # "idle" => opening.patch # NoPatch \/ opening.pc \in {"backup", "guard"}
    /\ opening.pc \in {"backup", "guard"} => opening.stage \in {"idle", "copy"}
    /\ opening.patch \in Patches => opening.stage \notin {"copy", "copied"}
    /\ opening.pc \in {"migrate", "guard", "alter", "assert", "desk"} => opening.todo = {}
    /\ opening.pc \in {"late", "assert", "desk"} => opening.later = {}

Remaining == opening.todo \cup opening.later \cup {opening.patch}

Progress ==
    /\ opening.pc \in {"late", "assert", "desk"} \/ screen = "desk" => file.schema = app
    /\ opening.pc \notin {"closed", "seed", "plan"} =>
          \A p \in AllPatches : Added[p] <= app => Tried(file, lost, p) \/ p \in Remaining
    /\ screen = "desk" => \A p \in AllPatches : Added[p] <= app => Tried(file, lost, p)
    /\ opening.stage = "done" => Reached(file, opening.patch)

Marked ==
    /\ file.marker = "none" /\ file.ids = "uuids" => screen = "selector" \/ opening.pc = "seed"
    /\ file.marker = "partial" => screen # "desk" /\ opening.pc # "desk"
    /\ opening.patch = uuid /\ opening.stage \in {"copy", "copied"} => file.marker = "none"
    /\ opening.patch = uuid /\ opening.stage = "started" => file.marker = "partial"

\* A copy that is under way, or just made, is of the file as it is.
Copying ==
    opening.stage \in {"copy", "copied"} =>
        /\ Len(backups) > 0
        /\ backups[Len(backups)].file = file
        /\ opening.stage = "copied" => backups[Len(backups)].whole

Kept ==
    /\ Sound(file, lost)
    /\ \A i \in 1 .. Len(backups) :
          /\ Sound(backups[i].file, lost)
          /\ backups[i].file.marker = "none" => backups[i].file.ids = "names"
    /\ file.work = worked
    /\ file.marker = "partial" =>
          \E i \in 1 .. Len(backups) :
             /\ Usable(backups[i]) /\ backups[i].file.work = worked
             /\ \A j \in 1 .. Len(backups) : j > i => ~Usable(backups[j])

IInv == TypeOK /\ Shape /\ Progress /\ Marked /\ Copying /\ Kept

-----------------------------------------------------------------------------
(* Types: what the updates of the file, the backups and the opening keep.   *)

LEMMA ClosedTyped == Closed \in Opening
<1>1. FALSE \in BOOLEAN /\ {} \in SUBSET AllPatches
  OBVIOUS
<1>2. 0 \in 0 .. MaxVersion
  BY MaxVersionAssumption
<1>3. NoPatch \in AllPatches \cup {NoPatch}
  OBVIOUS
<1> QED
  BY <1>1, <1>2, <1>3 DEF Closed, Opening

\* What the backups are once a copy has begun.
LEMMA BackupsGrow ==
    ASSUME TypeOK
    PROVE  /\ Copy \in Seq(BackupFile)
           /\ Len(Copy) = Len(backups) + 1
           /\ \A i \in 1 .. Len(backups) : Copy[i] = backups[i]
           /\ Copy[Len(backups) + 1] = [whole |-> FALSE, file |-> file]
<1> DEFINE new == [whole |-> FALSE, file |-> file]
<1>1. new \in BackupFile
  BY DEF TypeOK, BackupFile
<1> HIDE DEF new
<1>2. backups \in Seq(BackupFile)
  BY DEF TypeOK
<1>3. Copy = Append(backups, new)
  BY DEF Copy, new
<1> QED
  BY <1>1, <1>2, <1>3 DEF new

\* What they are once it is done.
LEMMA BackupsDone ==
    ASSUME TypeOK, Len(backups) > 0
    PROVE  /\ Copied \in Seq(BackupFile)
           /\ Len(Copied) = Len(backups)
           /\ \A i \in 1 .. Len(backups) : Copied[i].file = backups[i].file
           /\ \A i \in 1 .. Len(backups) : i # Len(backups) => Copied[i] = backups[i]
           /\ Copied[Len(backups)].whole
<1> DEFINE n == Len(backups)
           b == [backups[n] EXCEPT !.whole = TRUE]
<1>1. backups \in Seq(BackupFile) /\ n \in 1 .. n
  BY DEF TypeOK
<1>2. backups[n] \in BackupFile
  BY <1>1
<1>3. b \in BackupFile /\ b.whole /\ b.file = backups[n].file
  BY <1>2 DEF BackupFile
<1>4. Copied = [backups EXCEPT ![n] = b]
  BY DEF Copied
<1> HIDE DEF n, b
<1>5. Copied \in Seq(BackupFile) /\ Len(Copied) = Len(backups)
  BY <1>1, <1>3, <1>4, ExceptSeq DEF n
<1>6. \A i \in 1 .. Len(backups) : Copied[i] = IF i = n THEN b ELSE backups[i]
  BY <1>1, <1>4
<1> QED
  BY <1>1, <1>3, <1>5, <1>6 DEF n

Effects == {"none", "half", "done"}

\* A patch's effect moves on in the file.
LEMMA EffectTyped ==
    ASSUME NEW f \in File, NEW p \in Patches, NEW e \in Effects
    PROVE  /\ [f EXCEPT !.effect[p] = e] \in File
           /\ [f EXCEPT !.effect[p] = e].effect = [f.effect EXCEPT ![p] = e]
<1>1. f.effect \in [Patches -> Effects]
  BY DEF File, Effects
<1>2. [f.effect EXCEPT ![p] = e] \in [Patches -> Effects]
  BY <1>1
<1>3. [f EXCEPT !.effect[p] = e] = [f EXCEPT !.effect = [f.effect EXCEPT ![p] = e]]
  BY DEF File
<1> QED
  BY <1>2, <1>3 DEF File, Effects

\* A patch's run is recorded in the file.
LEMMA RunTyped ==
    ASSUME NEW f \in File, NEW p \in AllPatches, NEW r \in Run
    PROVE  /\ [f EXCEPT !.runs[p] = r] \in File
           /\ [f EXCEPT !.runs[p] = r].runs = [f.runs EXCEPT ![p] = r]
<1>1. f.runs \in [AllPatches -> Run]
  BY DEF File
<1>2. [f.runs EXCEPT ![p] = r] \in [AllPatches -> Run]
  BY <1>1
<1>3. [f EXCEPT !.runs[p] = r] = [f EXCEPT !.runs = [f.runs EXCEPT ![p] = r]]
  BY DEF File
<1> QED
  BY <1>2, <1>3 DEF File

\* The simple fields.
LEMMA FieldTyped ==
    ASSUME NEW f \in File
    PROVE  /\ \A m \in Markers : [f EXCEPT !.marker = m] \in File
           /\ \A v \in 1 .. MaxVersion : [f EXCEPT !.schema = v] \in File
           /\ \A v \in 1 .. MaxVersion : [f EXCEPT !.version = v] \in File
           /\ \A w \in 0 .. MaxWork : [f EXCEPT !.work = w] \in File
           /\ [f EXCEPT !.marker = "complete", !.ids = "uuids"] \in File
  BY DEF File, Markers

-----------------------------------------------------------------------------
(* What is kept of the file and its backups.                                *)

\* Nothing of either has changed.
LEMMA KeptSame ==
    ASSUME Kept, UNCHANGED <<file, backups, worked>>, lost \subseteq lost'
    PROVE  Kept'
  BY DEF Kept, Sound, Tried

\* The file has changed, but holds the same work and is not newly partial.
LEMMA KeptOfFile ==
    ASSUME Kept, UNCHANGED <<backups, worked>>, lost \subseteq lost',
           Sound(file', lost'), file'.work = file.work,
           file'.marker = "partial" => file.marker = "partial"
    PROVE  Kept'
  BY DEF Kept, Sound, Tried

\* A copy has begun: of the earlier backups nothing changed, and the new one is
\* not usable yet.
LEMMA KeptOfCopy ==
    ASSUME TypeOK, Kept, file.marker = "none" => file.ids = "names",
           backups' = Copy, UNCHANGED <<file, worked, lost>>
    PROVE  Kept'
<1> DEFINE n == Len(backups)
<1>1. /\ n \in Nat /\ Len(backups') = n + 1
      /\ \A i \in 1 .. n : backups'[i] = backups[i]
      /\ backups'[n + 1].file = file /\ ~backups'[n + 1].whole
  BY BackupsGrow DEF TypeOK
<1> HIDE DEF n
<1>2. \A i \in 1 .. n + 1 :
         /\ Sound(backups'[i].file, lost)
         /\ backups'[i].file.marker = "none" => backups'[i].file.ids = "names"
  <2> TAKE i \in 1 .. n + 1
  <2>1. CASE i = n + 1
    BY <1>1, <2>1 DEF Kept
  <2>2. CASE i \in 1 .. n
    BY <1>1, <2>2 DEF Kept, n
  <2> QED
    BY <1>1, <2>1, <2>2
<1>3. ASSUME file.marker = "partial"
      PROVE  \E i \in 1 .. n + 1 :
                /\ Usable(backups'[i]) /\ backups'[i].file.work = worked
                /\ \A j \in 1 .. n + 1 : j > i => ~Usable(backups'[j])
  <2>1. PICK i \in 1 .. n :
                /\ Usable(backups[i]) /\ backups[i].file.work = worked
                /\ \A j \in 1 .. n : j > i => ~Usable(backups[j])
    BY <1>3 DEF Kept, n
  <2>2. i \in 1 .. n + 1 /\ backups'[i] = backups[i]
    BY <1>1
  <2>3. ~Usable(backups'[n + 1])
    BY <1>1 DEF Usable
  <2>4. \A j \in 1 .. n + 1 : j > i => ~Usable(backups'[j])
    BY <1>1, <2>1, <2>3
  <2> QED
    BY <2>1, <2>2, <2>4
<1> QED
  BY <1>1, <1>2, <1>3 DEF Kept, Usable

\* A copy is done.  That of a partial file is not usable; the one made before
\* the rewrite stays the last that is.
LEMMA KeptOfCopied ==
    ASSUME TypeOK, Kept, Len(backups) > 0, backups[Len(backups)].file = file,
           backups' = Copied, UNCHANGED <<file, worked, lost>>
    PROVE  Kept'
<1> DEFINE n == Len(backups)
<1>1. /\ n \in Nat /\ n > 0 /\ Len(backups') = n
      /\ \A i \in 1 .. n : backups'[i].file = backups[i].file
      /\ \A i \in 1 .. n : i # n => backups'[i] = backups[i]
      /\ backups[n].file = file
  BY BackupsDone DEF TypeOK
<1>2. \A i \in 1 .. n :
         /\ Sound(backups'[i].file, lost)
         /\ backups'[i].file.marker = "none" => backups'[i].file.ids = "names"
  BY <1>1 DEF Kept
<1>3. ASSUME file.marker = "partial"
      PROVE  \E i \in 1 .. n :
                /\ Usable(backups'[i]) /\ backups'[i].file.work = worked
                /\ \A j \in 1 .. n : j > i => ~Usable(backups'[j])
  <2>1. PICK i \in 1 .. n :
                /\ Usable(backups[i]) /\ backups[i].file.work = worked
                /\ \A j \in 1 .. n : j > i => ~Usable(backups[j])
    BY <1>3 DEF Kept
  <2> HIDE DEF n
  <2>2. ~Usable(backups[n]) /\ ~Usable(backups'[n])
    BY <1>1, <1>3 DEF Usable
  <2>3. i # n /\ backups'[i] = backups[i]
    BY <1>1, <2>1, <2>2
  <2>4. \A j \in 1 .. n : j > i => ~Usable(backups'[j])
    BY <1>1, <2>1, <2>2
  <2> QED
    BY <2>1, <2>3, <2>4
<1> HIDE DEF n
<1> QED
  BY <1>1, <1>2, <1>3 DEF Kept, Usable

-----------------------------------------------------------------------------
(* What the updates of the file do to the patches that were tried.          *)

LEMMA TriedSame ==
    ASSUME UNCHANGED <<file, lost>>
    PROVE  \A p : (Tried(file, lost, p)' <=> Tried(file, lost, p)) /\ (Reached(file, p)' <=> Reached(file, p))
  BY DEF Tried, Reached

\* An effect that moves on takes nothing back.
LEMMA EffectSound ==
    ASSUME NEW f \in File, NEW p \in Patches, NEW e \in Effects, NEW g,
           g = [f EXCEPT !.effect[p] = e], f.effect[p] = "done" => e = "done"
    PROVE  /\ Sound(f, lost) => Sound(g, lost)
           /\ \A q \in AllPatches : Reached(f, q) => Reached(g, q)
           /\ \A q \in AllPatches : Tried(f, lost, q) => Tried(g, lost, q)
           /\ g.marker = f.marker /\ g.ids = f.ids /\ g.work = f.work
           /\ g.schema = f.schema /\ g.effect[p] = e
<1>1. /\ g.marker = f.marker /\ g.ids = f.ids /\ g.work = f.work /\ g.runs = f.runs
      /\ g.schema = f.schema /\ g.version = f.version
      /\ g.effect = [f.effect EXCEPT ![p] = e]
  BY EffectTyped DEF File
<1>2. f.effect \in [Patches -> Effects]
  BY DEF File, Effects
<1>3. \A q \in AllPatches : Reached(f, q) => Reached(g, q)
  BY <1>1, <1>2 DEF Reached
<1>4. \A q \in AllPatches : Tried(f, lost, q) => Tried(g, lost, q)
  BY <1>1, <1>3 DEF Tried
<1>5. Sound(f, lost) => Sound(g, lost)
  BY <1>1, <1>3, <1>4 DEF Sound
<1> QED
  BY <1>1, <1>2, <1>3, <1>4, <1>5

\* A record made of a patch that has none, if it is honest.
LEMMA RunSound ==
    ASSUME NEW f \in File, NEW p \in AllPatches, NEW r \in Run, NEW g,
           g = [f EXCEPT !.runs[p] = r], r.failed \/ Reached(f, p)
    PROVE  /\ Sound(f, lost) => Sound(g, lost)
           /\ \A q \in AllPatches : Tried(f, lost, q) => Tried(g, lost, q)
           /\ Tried(g, lost, p)
           /\ g.marker = f.marker /\ g.ids = f.ids /\ g.work = f.work
           /\ g.schema = f.schema
<1>1. /\ g.marker = f.marker /\ g.ids = f.ids /\ g.work = f.work /\ g.effect = f.effect
      /\ g.schema = f.schema /\ g.version = f.version
      /\ g.runs = [f.runs EXCEPT ![p] = r]
  BY RunTyped DEF File
<1>2. f.runs \in [AllPatches -> Run]
  BY DEF File
<1>3. \A q \in AllPatches : Reached(g, q) <=> Reached(f, q)
  BY <1>1 DEF Reached
<1>4. \A q \in AllPatches : g.runs[q] = IF q = p THEN r ELSE f.runs[q]
  BY <1>1, <1>2
<1>5. Tried(g, lost, p) /\ \A q \in AllPatches : Tried(f, lost, q) => Tried(g, lost, q)
  BY <1>3, <1>4 DEF Tried
<1>6. Sound(f, lost) => Sound(g, lost)
  BY <1>1, <1>3, <1>4, <1>5 DEF Sound
<1> QED
  BY <1>1, <1>5, <1>6

-----------------------------------------------------------------------------
(* Giving an opening up, in whatever state the file is.                     *)

PCs == {"closed", "seed", "plan", "backup", "early", "migrate", "guard", "alter",
        "late", "assert", "desk"}

LEMMA GoesTyped ==
    ASSUME opening \in Opening, NEW pc \in PCs, Goes(pc)
    PROVE  /\ opening' \in Opening
           /\ opening'.pc = pc /\ opening'.todo = opening.todo /\ opening'.later = opening.later
           /\ opening'.patch = opening.patch /\ opening'.stage = opening.stage
  BY DEF Opening, Goes, PCs

LEMMA StageTyped ==
    ASSUME opening \in Opening,
           NEW st \in {"idle", "copy", "copied", "started", "done", "threw"}, Stage(st)
    PROVE  /\ opening' \in Opening
           /\ opening'.stage = st /\ opening'.todo = opening.todo
           /\ opening'.later = opening.later /\ opening'.patch = opening.patch
           /\ opening'.pc = opening.pc
  BY DEF Opening, Stage

LEMMA NoPatchApart == NoPatch \notin AllPatches /\ NoPatch # uuid /\ NoPatch \notin Patches
  BY PatchesAssumption DEF AllPatches

LEMMA MishapTyped ==
    ASSUME TypeOK, Mishap
    PROVE  events' \in 0 .. MaxEvents
  BY BoundsAssumption DEF TypeOK, Mishap

LEMMA GiveUpKeeps ==
    ASSUME IInv, GiveUp, UNCHANGED <<file, backups, app, worked, opens, lost>>,
           events' \in 0 .. MaxEvents
    PROVE  IInv'
<1> USE DEF IInv
<1>1. /\ opening' = Closed /\ screen' = "selector"
      /\ UNCHANGED <<file, backups, app, worked, opens, lost>>
  BY DEF GiveUp
<1>2. TypeOK'
  BY <1>1, ClosedTyped DEF TypeOK
<1>3. Shape' /\ Marked' /\ Copying'
  BY <1>1, NoPatchApart DEF Shape, Marked, Copying, Closed
<1>4. Progress'
  BY <1>1 DEF Progress, Closed
<1> QED
  BY <1>1, <1>2, <1>3, <1>4, KeptSame

-----------------------------------------------------------------------------
(* Every action keeps the invariant.                                        *)

LEMMA InitInv == Init => IInv
<1> SUFFICES ASSUME Init PROVE IInv
  OBVIOUS
<1>1. TypeOK
  <2>1. file \in File
    <3>1. NoRun \in Run
      BY MaxVersionAssumption DEF NoRun, Run
    <3>2. /\ file.marker = "none" /\ file.ids \in {"names", "uuids"} /\ file.schema = 1
          /\ file.version = 1 /\ file.runs = [p \in AllPatches |-> NoRun]
          /\ file.effect = [p \in Patches |-> "none"] /\ file.work = 0
      BY DEF Init
    <3>3. file = [marker |-> file.marker, ids |-> file.ids, schema |-> file.schema,
                  version |-> file.version, runs |-> file.runs, effect |-> file.effect,
                  work |-> file.work]
      BY DEF Init
    <3>4. file.runs \in [AllPatches -> Run]
      BY <3>1, <3>2
    <3>5. file.effect \in [Patches -> {"none", "half", "done"}]
      BY <3>2
    <3>6. 1 \in 1 .. MaxVersion /\ 0 \in 0 .. MaxWork
      BY MaxVersionAssumption, BoundsAssumption
    <3> QED
      BY <3>2, <3>3, <3>4, <3>5, <3>6 DEF File, Markers
  <2>2. backups \in Seq(BackupFile)
    BY DEF Init
  <2> QED
    BY <2>1, <2>2, ClosedTyped, MaxVersionAssumption, BoundsAssumption DEF TypeOK, Init
<1>2. Sound(file, lost)
  BY AddedAssumption DEF Init, Sound, NoRun
<1>3. Shape /\ Progress /\ Marked /\ Copying
  BY DEF Init, Shape, Progress, Marked, Copying, Closed
<1>4. Kept
  BY <1>2 DEF Init, Kept
<1> QED
  BY <1>1, <1>3, <1>4 DEF IInv

LEMMA OpenKeeps == IInv /\ Open => IInv'
<1> SUFFICES ASSUME IInv, Open PROVE IInv'
  OBVIOUS
<1> USE DEF IInv
<1>1. opening' \in Opening
  BY ClosedTyped DEF Open, Opening
<1>2. TypeOK'
  BY <1>1, BoundsAssumption DEF Open, TypeOK
<1>3. Shape' /\ Progress' /\ Marked' /\ Copying'
  BY TriedSame DEF Open, Closed, Shape, Progress, Marked, Copying
<1> QED
  BY <1>2, <1>3, KeptSame DEF Open

\* The only step with a file of the old names' marker and the new names.
LEMMA SeedKeeps == IInv /\ Seed => IInv'
<1> SUFFICES ASSUME IInv, Seed PROVE IInv'
  OBVIOUS
<1> USE DEF IInv
<1>1. file \in File
  BY DEF TypeOK
<1>2. file' \in File
  BY <1>1, FieldTyped DEF Seed, Markers
<1>3. TypeOK'
  BY <1>2, GoesTyped DEF Seed, TypeOK, PCs
<1>4. /\ file'.ids = file.ids /\ file'.runs = file.runs /\ file'.effect = file.effect
      /\ file'.version = file.version /\ file'.work = file.work /\ file'.schema = file.schema
      /\ file'.marker = IF Greenfield /\ file.marker = "none" THEN "complete" ELSE file.marker
  BY <1>1 DEF Seed, File
<1>5. Sound(file', lost)
  BY <1>4 DEF Kept, Sound, Tried, Reached, Greenfield
<1>6. /\ opening'.pc = "plan" /\ opening'.stage = opening.stage /\ opening'.todo = opening.todo
      /\ opening'.later = opening.later /\ opening'.patch = opening.patch
      /\ opening.pc = "seed" /\ UNCHANGED <<app, screen, backups, lost>>
  BY GoesTyped DEF Seed, TypeOK, PCs
<1>7. opening.patch = NoPatch /\ opening.stage = "idle" /\ screen = "opening"
  BY <1>6 DEF Shape, InPatches
<1>8. Shape' /\ Copying'
  BY <1>6, <1>7 DEF Shape, Copying, InPatches
<1>9. Progress'
  BY <1>6, <1>7 DEF Progress
<1>10. Marked'
  BY <1>1, <1>4, <1>6, <1>7, NoPatchApart DEF Marked, Greenfield, File
<1> QED
  BY <1>3, <1>4, <1>5, <1>8, <1>9, <1>10, KeptOfFile DEF Seed

\* What is not to be executed was tried before.
LEMMA PlanIsComplete ==
    ASSUME IInv, NEW p \in AllPatches, Added[p] <= app, ~ToExecute(p)
    PROVE  Tried(file, lost, p)
<1>1. /\ Added[p] \in Nat /\ file.version \in Nat
      /\ Sound(file, lost)
  BY AddedAssumption DEF IInv, TypeOK, File, Kept
<1>2. CASE p = uuid /\ Greenfield
  BY <1>1, <1>2 DEF Tried, Reached, Greenfield, Sound
<1>3. CASE p = uuid => ~Greenfield
  <2>1. file.runs[p].ran \/ ~(file.version <= Added[p])
    BY <1>3 DEF ToExecute
  <2>2. CASE file.runs[p].ran
    BY <1>1, <2>2 DEF Sound, Tried
  <2>3. CASE ~(file.version <= Added[p])
    BY <1>1, <2>3 DEF Sound, Tried
  <2> QED
    BY <2>1, <2>2, <2>3
<1> QED
  BY <1>2, <1>3

LEMMA PlanKeeps == IInv /\ Plan => IInv'
<1> SUFFICES ASSUME IInv, Plan PROVE IInv'
  OBVIOUS
<1> USE DEF IInv
<1> DEFINE P == {p \in AllPatches : ToExecute(p)}
<1>1. /\ opening \in Opening
      /\ opening' = [opening EXCEPT !.pc = IF P = {} THEN "early" ELSE "backup",
                                    !.todo = P \cap Early, !.later = P \ Early,
                                    !.version = file.version, !.had = P # {}]
      /\ UNCHANGED <<file, backups, app, screen, worked, opens, events, lost>>
  BY DEF Plan, TypeOK
<1>2. P \subseteq AllPatches
  OBVIOUS
<1> HIDE DEF P
<1>3. opening' \in Opening
  <2>1. file.version \in 0 .. MaxVersion /\ (P # {}) \in BOOLEAN
    BY MaxVersionAssumption DEF TypeOK, File
  <2> QED
    BY <1>1, <1>2, <2>1 DEF Opening
<1>4. TypeOK'
  BY <1>1, <1>3 DEF TypeOK
<1>5. /\ opening'.pc \in {"early", "backup"}
      /\ opening'.todo = P \cap Early /\ opening'.later = P \ Early
      /\ opening'.patch = opening.patch /\ opening'.stage = opening.stage
  BY <1>1 DEF Opening
<1>6. opening.pc = "plan"
  BY DEF Plan
<1>7. opening.patch = NoPatch /\ opening.stage = "idle" /\ screen = "opening"
  BY <1>6 DEF Shape, InPatches
<1>8. Shape' /\ Copying'
  BY <1>1, <1>5, <1>7, <1>4 DEF Shape, Copying, InPatches, TypeOK, Opening
<1>9. Marked'
  BY <1>1, <1>5, <1>6, <1>7 DEF Marked
<1>10. Progress'
  <2>1. \A p \in AllPatches : Added[p] <= app => Tried(file, lost, p) \/ p \in P
    BY PlanIsComplete DEF P
  <2>2. \A p : p \in P => p \in Remaining'
    BY <1>5 DEF Remaining
  <2> QED
    BY <1>1, <1>5, <1>7, <2>1, <2>2, TriedSame DEF Progress
<1> QED
  BY <1>1, <1>4, <1>8, <1>9, <1>10, KeptSame

LEMMA CreateBackupKeeps == IInv /\ CreateBackup => IInv'
<1> SUFFICES ASSUME IInv, CreateBackup PROVE IInv'
  OBVIOUS
<1> USE DEF IInv
<1>1. /\ opening.pc \in {"backup", "guard"} /\ opening \in Opening /\ screen = "opening"
      /\ UNCHANGED <<file, app, worked, opens, lost>>
  BY DEF CreateBackup, TypeOK, Shape
<1>2. opening.patch = NoPatch
  BY <1>1 DEF Shape, InPatches
<1>3. CASE /\ opening.stage = "idle" /\ backups' = Copy
           /\ opening' = [opening EXCEPT !.stage = "copy"]
           /\ UNCHANGED <<events, screen>>
  <2>1. opening' \in Opening
    BY <1>1, <1>3 DEF Opening
  <2>2. TypeOK'
    BY <1>1, <1>3, <2>1, BackupsGrow DEF TypeOK
  <2>3. /\ opening'.pc = opening.pc /\ opening'.stage = "copy" /\ opening'.todo = opening.todo
        /\ opening'.later = opening.later /\ opening'.patch = opening.patch
    BY <1>1, <1>3 DEF Opening
  <2>4. Shape'
    BY <1>1, <1>2, <1>3, <2>3, NoPatchApart DEF Shape, InPatches
  <2>5. Progress'
    BY <1>1, <1>3, <2>3, TriedSame DEF Progress, Remaining
  <2>6. Marked'
    BY <1>1, <1>2, <1>3, <2>3, NoPatchApart DEF Marked
  <2>7. Copying'
    BY <1>1, <1>3, <2>3, BackupsGrow DEF Copying, TypeOK
  <2>8. file.marker = "none" => file.ids = "names"
    BY <1>1 DEF Marked, TypeOK, File
  <2> QED
    BY <1>1, <1>3, <2>2, <2>4, <2>5, <2>6, <2>7, <2>8, KeptOfCopy
<1>4. CASE /\ opening.stage = "copy" /\ backups' = Copied
           /\ opening' = [opening EXCEPT !.stage = "idle",
                             !.pc = IF @ = "backup" THEN "early" ELSE "alter"]
           /\ UNCHANGED <<events, screen>>
  <2>1. opening' \in Opening
    BY <1>1, <1>4 DEF Opening
  <2>2. Len(backups) > 0 /\ backups[Len(backups)].file = file
    BY <1>4 DEF Copying
  <2>3. TypeOK'
    BY <1>1, <1>4, <2>1, <2>2, BackupsDone DEF TypeOK
  <2>4. /\ opening'.pc = (IF opening.pc = "backup" THEN "early" ELSE "alter")
        /\ opening'.stage = "idle" /\ opening'.todo = opening.todo
        /\ opening'.later = opening.later /\ opening'.patch = opening.patch
    BY <1>1, <1>4 DEF Opening
  <2>5. Shape' /\ Copying'
    BY <1>1, <1>2, <1>4, <2>4, NoPatchApart DEF Shape, Copying, InPatches
  <2>6. Progress'
    BY <1>1, <1>4, <2>4, TriedSame DEF Progress, Remaining
  <2>7. Marked'
    BY <1>1, <1>2, <1>4, <2>4 DEF Marked
  <2> QED
    BY <1>1, <1>4, <2>2, <2>3, <2>5, <2>6, <2>7, KeptOfCopied
<1>5. CASE Mishap /\ GiveUp /\ UNCHANGED backups
  BY <1>1, <1>5, GiveUpKeeps, MishapTyped
<1> QED
  BY <1>3, <1>4, <1>5 DEF CreateBackup, NoMishap

-----------------------------------------------------------------------------
(* The patches.                                                             *)

LEMMA PickKeeps == IInv /\ Pick => IInv'
<1> SUFFICES ASSUME IInv, Pick PROVE IInv'
  OBVIOUS
<1> USE DEF IInv
<1>1. /\ opening \in Opening /\ InPatches /\ opening.patch = NoPatch
      /\ UNCHANGED <<file, backups, app, screen, worked, opens, events, lost>>
  BY DEF Pick, TypeOK
<1>2. PICK p \in opening.todo :
         opening' = [opening EXCEPT !.patch = p, !.todo = @ \ {p}, !.stage = "idle"]
  BY DEF Pick
<1>3. p \in AllPatches
  BY <1>1 DEF Opening
<1>4. opening' \in Opening
  BY <1>1, <1>2, <1>3 DEF Opening
<1>5. /\ opening'.pc = opening.pc /\ opening'.patch = p /\ opening'.stage = "idle"
      /\ opening'.later = opening.later /\ opening'.todo = opening.todo \ {p}
  BY <1>1, <1>2 DEF Opening
<1>6. TypeOK'
  BY <1>1, <1>4 DEF TypeOK
<1>7. Shape' /\ Copying'
  BY <1>1, <1>5 DEF Shape, Copying, InPatches
<1>8. Progress'
  <2>1. \A q : q \in AllPatches /\ q \in Remaining => q \in Remaining'
    BY <1>1, <1>5, NoPatchApart DEF Remaining
  <2> QED
    BY <1>1, <1>5, <2>1, TriedSame DEF Progress
<1>9. Marked'
  BY <1>1, <1>5 DEF Marked
<1> QED
  BY <1>1, <1>6, <1>7, <1>8, <1>9, KeptSame

LEMMA PatchStepKeeps == IInv /\ PatchStep => IInv'
<1> SUFFICES ASSUME IInv, PatchStep PROVE IInv'
  OBVIOUS
<1> USE DEF IInv
<1> DEFINE p == opening.patch
<1>1. /\ InPatches /\ p \in Patches /\ p \in AllPatches /\ opening \in Opening /\ file \in File
      /\ file.effect[p] \in Effects
      /\ UNCHANGED <<backups, app, screen, worked, opens, events, lost>>
  BY DEF PatchStep, TypeOK, AllPatches, File, Effects
<1>2. PICK e \in Effects, st \in {"started", "done"} :
         /\ file' = [file EXCEPT !.effect[p] = e]
         /\ file.effect[p] = "done" => e = "done"
         /\ Stage(st) /\ (st = "done" => e = "done")
  <2>1. CASE /\ file' = [file EXCEPT !.effect[p] = IF @ = "none" THEN "half" ELSE @]
             /\ Stage("started")
    <3>1. CASE file.effect[p] = "none"
      <4>1. file' = [file EXCEPT !.effect[p] = "half"]
        BY <2>1, <3>1
      <4> QED
        BY <2>1, <3>1, <4>1 DEF Effects
    <3>2. CASE file.effect[p] # "none"
      <4>1. file' = [file EXCEPT !.effect[p] = file.effect[p]]
        BY <2>1, <3>2
      <4> QED
        BY <1>1, <2>1, <3>2, <4>1
    <3> QED
      BY <3>1, <3>2
  <2>2. CASE file' = [file EXCEPT !.effect[p] = "done"] /\ Stage("done")
    BY <2>2 DEF Effects
  <2> QED
    BY <2>1, <2>2 DEF PatchStep
<1>3. /\ opening' \in Opening /\ opening'.stage = st
      /\ opening'.todo = opening.todo /\ opening'.later = opening.later
      /\ opening'.patch = p /\ opening'.pc = opening.pc
  BY <1>1, <1>2, StageTyped
<1>4. /\ file' \in File
      /\ Sound(file, lost) => Sound(file', lost)
      /\ \A q \in AllPatches : Tried(file, lost, q) => Tried(file', lost, q)
      /\ file'.marker = file.marker /\ file'.ids = file.ids /\ file'.work = file.work
      /\ file'.schema = file.schema /\ file'.effect[p] = e
  BY <1>1, <1>2, EffectSound, EffectTyped
<1>5. TypeOK'
  BY <1>1, <1>3, <1>4 DEF TypeOK
<1>6. st = "done" => Reached(file', p)
  BY <1>1, <1>2, <1>4 DEF Reached
<1>7. p # uuid
  BY <1>1, PatchesAssumption
<1> HIDE DEF p
<1>8. Shape' /\ Copying'
  BY <1>1, <1>2, <1>3, NoPatchApart DEF Shape, Copying, InPatches, p
<1>9. Progress'
  <2>1. Remaining' = Remaining
    BY <1>3 DEF Remaining, p
  <2>2. \A q \in AllPatches : Tried(file, lost, q) => Tried(file, lost, q)'
    BY <1>1, <1>4 DEF Tried, Reached
  <2>3. opening'.stage = "done" => Reached(file, opening.patch)'
    BY <1>3, <1>6 DEF Reached
  <2> QED
    BY <1>1, <1>3, <1>4, <2>1, <2>2, <2>3 DEF Progress
<1>10. Marked'
  BY <1>1, <1>3, <1>4, <1>7 DEF Marked, p
<1>11. Sound(file', lost)
  BY <1>4 DEF Kept
<1> QED
  BY <1>1, <1>4, <1>5, <1>8, <1>9, <1>10, <1>11, KeptOfFile

LEMMA PatchThrowsKeeps == IInv /\ PatchThrows => IInv'
<1> SUFFICES ASSUME IInv, PatchThrows PROVE IInv'
  OBVIOUS
<1> USE DEF IInv
<1>1. /\ InPatches /\ opening.patch # NoPatch /\ opening \in Opening
      /\ UNCHANGED <<file, backups, app, screen, worked, opens, lost>>
      /\ Stage("threw")
  BY DEF PatchThrows, TypeOK
<1>2. events' \in 0 .. MaxEvents
  BY MishapTyped DEF PatchThrows, NoMishap, TypeOK
<1>3. /\ opening' \in Opening /\ opening'.stage = "threw"
      /\ opening'.todo = opening.todo /\ opening'.later = opening.later
      /\ opening'.patch = opening.patch /\ opening'.pc = opening.pc
  BY <1>1, StageTyped
<1>4. TypeOK'
  BY <1>1, <1>2, <1>3 DEF TypeOK
<1>5. Shape' /\ Copying'
  BY <1>1, <1>3 DEF Shape, Copying, InPatches
<1>6. Progress'
  BY <1>1, <1>3, TriedSame DEF Progress, Remaining
<1>7. Marked'
  BY <1>1, <1>3 DEF Marked
<1> QED
  BY <1>1, <1>4, <1>5, <1>6, <1>7, KeptSame

LEMMA UuidStepKeeps == IInv /\ UuidStep => IInv'
<1> SUFFICES ASSUME IInv, UuidStep PROVE IInv'
  OBVIOUS
<1> USE DEF IInv
<1>1. /\ InPatches /\ opening.patch = uuid /\ uuid \in AllPatches /\ uuid \notin Patches
      /\ opening \in Opening /\ file \in File
      /\ UNCHANGED <<app, screen, worked, opens, events, lost>>
  BY PatchesAssumption DEF UuidStep, TypeOK, AllPatches
<1>2. screen = "opening" /\ opening.pc # "seed" /\ screen # "selector" /\ uuid # NoPatch
  BY <1>1, NoPatchApart DEF Shape, InPatches
<1>3. file.marker = "none" => file.ids = "names"
  BY <1>1, <1>2 DEF Marked, File
<1>4. ASSUME NEW st \in {"copy", "copied", "started", "done"}, Stage(st)
      PROVE  /\ opening' \in Opening /\ opening'.stage = st /\ Shape'
             /\ opening'.patch = uuid /\ opening'.pc = opening.pc /\ Remaining' = Remaining
  <2>1. /\ opening' \in Opening /\ opening'.stage = st
        /\ opening'.todo = opening.todo /\ opening'.later = opening.later
        /\ opening'.patch = uuid /\ opening'.pc = opening.pc
    BY <1>1, <1>4, StageTyped
  <2>2. Shape'
    BY <1>1, <1>2, <2>1 DEF Shape, InPatches
  <2> QED
    BY <1>1, <2>1, <2>2 DEF Remaining
<1>5. CASE /\ opening.stage = "idle" /\ file.marker = "none" /\ backups' = Copy
           /\ Stage("copy") /\ UNCHANGED file
  <2>1. /\ opening' \in Opening /\ opening'.stage = "copy" /\ Shape'
        /\ opening'.patch = uuid /\ opening'.pc = opening.pc /\ Remaining' = Remaining
    BY <1>4, <1>5
  <2>2. TypeOK'
    BY <1>1, <1>5, <2>1, BackupsGrow DEF TypeOK
  <2>3. Progress'
    BY <1>1, <1>5, <2>1, TriedSame DEF Progress
  <2>4. Marked'
    BY <1>1, <1>5, <2>1 DEF Marked
  <2>5. Copying'
    BY <1>5, <2>1, BackupsGrow DEF Copying, TypeOK
  <2> QED
    BY <1>1, <1>3, <1>5, <2>1, <2>2, <2>3, <2>4, <2>5, KeptOfCopy
<1>6. CASE /\ opening.stage = "copy" /\ backups' = Copied
           /\ Stage("copied") /\ UNCHANGED file
  <2>1. /\ opening' \in Opening /\ opening'.stage = "copied" /\ Shape'
        /\ opening'.patch = uuid /\ opening'.pc = opening.pc /\ Remaining' = Remaining
    BY <1>4, <1>6
  <2>2. Len(backups) > 0 /\ backups[Len(backups)].file = file
    BY <1>6 DEF Copying
  <2>3. TypeOK'
    BY <1>1, <1>6, <2>1, <2>2, BackupsDone DEF TypeOK
  <2>4. Progress'
    BY <1>1, <1>6, <2>1, TriedSame DEF Progress
  <2>5. Marked'
    BY <1>1, <1>6, <2>1 DEF Marked
  <2>6. Copying'
    <3>1. Len(backups) \in Nat
      BY DEF TypeOK
    <3> QED
      BY <1>6, <2>2, <3>1, BackupsDone DEF Copying
  <2> QED
    BY <1>1, <1>6, <2>1, <2>2, <2>3, <2>4, <2>5, <2>6, KeptOfCopied
<1>7. CASE /\ opening.stage = "copied" /\ file' = [file EXCEPT !.marker = "partial"]
           /\ Stage("started") /\ UNCHANGED backups
  <2>1. /\ opening' \in Opening /\ opening'.stage = "started" /\ Shape'
        /\ opening'.patch = uuid /\ opening'.pc = opening.pc /\ Remaining' = Remaining
    BY <1>4, <1>7
  <2>2. /\ file' \in File /\ file'.marker = "partial" /\ file'.ids = file.ids
        /\ file'.runs = file.runs /\ file'.effect = file.effect /\ file'.work = file.work
        /\ file'.schema = file.schema /\ file'.version = file.version
    BY <1>1, <1>7, FieldTyped DEF File, Markers
  <2>3. file.marker = "none" /\ file.ids = "names"
    BY <1>1, <1>3, <1>7 DEF Marked
  <2>4. TypeOK'
    BY <1>1, <1>7, <2>1, <2>2 DEF TypeOK
  <2>5. Progress'
    BY <1>1, <1>7, <2>1, <2>2 DEF Progress, Tried, Reached
  <2>6. Marked'
    BY <1>1, <1>2, <2>1, <2>2 DEF Marked, InPatches
  <2>7. Copying'
    BY <2>1 DEF Copying
  <2>8. Sound(file', lost)
    BY <2>2, <2>3 DEF Kept, Sound, Tried, Reached
  <2>9. /\ Len(backups) \in 1 .. Len(backups)
        /\ Usable(backups[Len(backups)]) /\ backups[Len(backups)].file.work = worked
        /\ \A j \in 1 .. Len(backups) : ~(j > Len(backups))
    <3>1. Len(backups) \in Nat
      BY DEF TypeOK
    <3>2. /\ Len(backups) > 0 /\ backups[Len(backups)].file = file
          /\ backups[Len(backups)].whole
      BY <1>7 DEF Copying
    <3> QED
      BY <2>3, <3>1, <3>2 DEF Usable, Kept
  <2>10. Kept'
    BY <1>1, <1>7, <2>2, <2>8, <2>9 DEF Kept
  <2> QED
    BY <2>1, <2>4, <2>5, <2>6, <2>7, <2>10
<1>8. CASE /\ opening.stage = "started"
           /\ file' = [file EXCEPT !.marker = "complete", !.ids = "uuids"]
           /\ Stage("done") /\ UNCHANGED backups
  <2>1. /\ opening' \in Opening /\ opening'.stage = "done" /\ Shape'
        /\ opening'.patch = uuid /\ opening'.pc = opening.pc /\ Remaining' = Remaining
    BY <1>4, <1>8
  <2>2. /\ file' \in File /\ file'.marker = "complete" /\ file'.ids = "uuids"
        /\ file'.runs = file.runs /\ file'.effect = file.effect /\ file'.work = file.work
        /\ file'.schema = file.schema /\ file'.version = file.version
    BY <1>1, <1>8, FieldTyped DEF File
  <2>3. TypeOK'
    BY <1>1, <1>8, <2>1, <2>2 DEF TypeOK
  <2>4. \A q \in AllPatches : Tried(file, lost, q) => Tried(file', lost, q)
    BY <2>2 DEF Tried, Reached
  <2>5. Progress'
    BY <1>1, <2>1, <2>2 DEF Progress, Tried, Reached
  <2>6. Marked' /\ Copying'
    BY <2>1, <2>2 DEF Marked, Copying
  <2>7. Sound(file', lost)
    BY <2>2 DEF Kept, Sound, Tried, Reached
  <2> QED
    BY <1>1, <1>8, <2>1, <2>2, <2>3, <2>5, <2>6, <2>7, KeptOfFile
<1> QED
  BY <1>5, <1>6, <1>7, <1>8 DEF UuidStep

LEMMA MakeEntryKeeps == IInv /\ MakeEntry => IInv'
<1> SUFFICES ASSUME IInv, MakeEntry PROVE IInv'
  OBVIOUS
<1> USE DEF IInv
<1> DEFINE p == opening.patch
           r == [ran |-> TRUE, failed |-> opening.stage = "threw", version |-> opening.version]
<1>1. /\ InPatches /\ p \in AllPatches /\ opening.stage \in {"done", "threw"}
      /\ opening \in Opening /\ file \in File /\ lost \subseteq AllPatches
      /\ opening' = [opening EXCEPT !.patch = NoPatch, !.stage = "idle"]
      /\ UNCHANGED <<backups, app, screen, worked, opens>>
  BY DEF MakeEntry, TypeOK, Opening
<1>2. /\ opening' \in Opening /\ opening'.patch = NoPatch /\ opening'.stage = "idle"
      /\ opening'.pc = opening.pc /\ opening'.todo = opening.todo
      /\ opening'.later = opening.later
  BY <1>1 DEF Opening
<1>3. r \in Run
  <2>1. TRUE \in BOOLEAN /\ (opening.stage = "threw") \in BOOLEAN
    OBVIOUS
  <2>2. opening.version \in 0 .. MaxVersion
    BY <1>1 DEF Opening
  <2> QED
    BY <2>1, <2>2 DEF Run
<1>4. r.failed \/ Reached(file, p)
  BY <1>1 DEF Progress
<1>5. /\ file' \in File /\ lost \subseteq lost' /\ lost' \subseteq AllPatches
      /\ events' \in 0 .. MaxEvents
      /\ Sound(file', lost')
      /\ \A q \in AllPatches : Tried(file, lost, q) => Tried(file', lost', q)
      /\ Tried(file', lost', p)
      /\ file'.marker = file.marker /\ file'.ids = file.ids /\ file'.work = file.work
      /\ file'.schema = file.schema
  <2>1. CASE ~file.runs[p].ran /\ Mishap /\ lost' = lost \cup Threw /\ UNCHANGED file
    <3>1. lost \subseteq lost' /\ lost' \subseteq AllPatches
      BY <1>1, <2>1 DEF Threw
    <3>2. events' \in 0 .. MaxEvents
      BY <2>1, MishapTyped
    <3>3. Tried(file, lost', p)
      <4>1. CASE opening.stage = "threw"
        BY <2>1, <4>1 DEF Tried, Threw
      <4>2. CASE opening.stage = "done"
        BY <4>2 DEF Tried, Progress
      <4> QED
        BY <1>1, <4>1, <4>2
    <3>4. \A q \in AllPatches : Tried(file, lost, q) => Tried(file, lost', q)
      BY <3>1 DEF Tried
    <3>5. Sound(file, lost')
      BY <3>4 DEF Kept, Sound
    <3> HIDE DEF p
    <3> QED
      BY <1>1, <2>1, <3>1, <3>2, <3>3, <3>4, <3>5
  <2>2. CASE /\ file' = IF file.runs[p].ran THEN file ELSE [file EXCEPT !.runs[p] = r]
             /\ UNCHANGED <<events, lost>>
    <3>1. events' \in 0 .. MaxEvents /\ lost' = lost
      BY <2>2 DEF TypeOK
    <3>2. CASE file.runs[p].ran
      <4>1. file' = file
        BY <2>2, <3>2
      <4>2. Tried(file, lost, p)
        BY <1>1, <3>2 DEF Kept, Sound, Tried
      <4> QED
        BY <1>1, <3>1, <4>1, <4>2 DEF Kept
    <3>3. CASE ~file.runs[p].ran
      <4> HIDE DEF p, r
      <4>1. file' = [file EXCEPT !.runs[p] = r]
        BY <2>2, <3>3
      <4> QED
        BY <1>1, <1>3, <1>4, <3>1, <4>1, RunSound, RunTyped DEF Kept
    <3> QED
      BY <3>2, <3>3
  <2> QED
    BY <2>1, <2>2 DEF MakeEntry, NoMishap
<1>6. TypeOK'
  BY <1>1, <1>2, <1>5 DEF TypeOK
<1> HIDE DEF r
<1>7. Shape' /\ Copying'
  BY <1>1, <1>2 DEF Shape, Copying, InPatches
<1>8. Progress'
  <2>1. \A q : q \in Remaining => q = p \/ q \in Remaining'
    BY <1>2 DEF Remaining
  <2> HIDE DEF p
  <2>2. \A q \in AllPatches : Tried(file, lost, q) \/ q = p => Tried(file, lost, q)'
    BY <1>5 DEF Tried, Reached
  <2> QED
    BY <1>1, <1>2, <1>5, <2>1, <2>2 DEF Progress
<1>9. Marked'
  BY <1>1, <1>2, <1>5, NoPatchApart DEF Marked
<1> QED
  BY <1>1, <1>5, <1>6, <1>7, <1>8, <1>9, KeptOfFile

LEMMA PatchesEndKeeps == IInv /\ PatchesEnd => IInv'
<1> SUFFICES ASSUME IInv, PatchesEnd PROVE IInv'
  OBVIOUS
<1> USE DEF IInv
<1> DEFINE pc == IF opening.pc = "early" THEN "migrate" ELSE "assert"
<1>1. /\ InPatches /\ opening.patch = NoPatch /\ opening.todo = {} /\ opening \in Opening
      /\ Goes(pc) /\ UNCHANGED <<file, backups, app, screen, worked, opens, events, lost>>
  BY DEF PatchesEnd, TypeOK
<1>2. /\ opening' \in Opening /\ opening'.pc = pc /\ opening'.todo = {}
      /\ opening'.later = opening.later /\ opening'.patch = NoPatch
      /\ opening'.stage = opening.stage
  BY <1>1, GoesTyped DEF PCs
<1>3. opening.stage = "idle"
  BY <1>1 DEF Shape, InPatches
<1>4. TypeOK'
  BY <1>1, <1>2 DEF TypeOK
<1>5. Shape' /\ Copying'
  BY <1>1, <1>2, <1>3 DEF Shape, Copying, InPatches
<1>6. Progress'
  BY <1>1, <1>2, <1>3, TriedSame DEF Progress, Remaining, InPatches
<1>7. Marked'
  BY <1>1, <1>2, <1>3 DEF Marked, InPatches
<1> QED
  BY <1>1, <1>4, <1>5, <1>6, <1>7, KeptSame

-----------------------------------------------------------------------------
(* The migration, the desk, and what happens between openings.              *)

LEMMA MigrateKeeps == IInv /\ Migrate => IInv'
<1> SUFFICES ASSUME IInv, Migrate PROVE IInv'
  OBVIOUS
<1> USE DEF IInv
<1>1. /\ opening.pc = "migrate" /\ opening \in Opening
      /\ UNCHANGED <<file, backups, app, screen, worked, opens, events, lost>>
  BY DEF Migrate, TypeOK
<1>2. opening.patch = NoPatch /\ opening.stage = "idle" /\ opening.todo = {}
  BY <1>1 DEF Shape, InPatches
<1>3. CASE /\ file.schema = app
           /\ opening' = [opening EXCEPT !.pc = "late", !.todo = opening.later, !.later = {}]
  <2>1. opening' \in Opening
    BY <1>1, <1>3 DEF Opening
  <2>2. /\ opening'.pc = "late" /\ opening'.todo = opening.later /\ opening'.later = {}
        /\ opening'.patch = NoPatch /\ opening'.stage = "idle"
    BY <1>1, <1>2, <1>3 DEF Opening
  <2>3. TypeOK'
    BY <1>1, <2>1 DEF TypeOK
  <2>4. Shape' /\ Copying' /\ Marked'
    BY <1>1, <1>2, <2>2, NoPatchApart DEF Shape, Copying, Marked, InPatches
  <2>5. Progress'
    BY <1>1, <1>2, <1>3, <2>2, TriedSame DEF Progress, Remaining
  <2> QED
    BY <1>1, <2>3, <2>4, <2>5, KeptSame
<1>4. CASE Goes(IF opening.had THEN "alter" ELSE "guard")
  <2>1. PICK pc \in {"alter", "guard"} : Goes(pc)
    BY <1>4
  <2>2. /\ opening' \in Opening /\ opening'.pc = pc /\ opening'.todo = {}
        /\ opening'.later = opening.later /\ opening'.patch = NoPatch
        /\ opening'.stage = "idle"
    BY <1>1, <1>2, <2>1, GoesTyped DEF PCs
  <2>3. TypeOK'
    BY <1>1, <2>2 DEF TypeOK
  <2>4. Shape' /\ Copying' /\ Marked'
    BY <1>1, <1>2, <2>2, NoPatchApart DEF Shape, Copying, Marked, InPatches
  <2>5. Progress'
    BY <1>1, <1>2, <2>2, TriedSame DEF Progress, Remaining
  <2> QED
    BY <1>1, <2>3, <2>4, <2>5, KeptSame
<1> QED
  BY <1>3, <1>4 DEF Migrate

LEMMA AlterKeeps == IInv /\ Alter => IInv'
<1> SUFFICES ASSUME IInv, Alter PROVE IInv'
  OBVIOUS
<1> USE DEF IInv
<1>1. /\ opening.pc = "alter" /\ opening \in Opening /\ file \in File
      /\ UNCHANGED <<backups, app, worked, opens, lost>>
  BY DEF Alter, TypeOK
<1>2. opening.patch = NoPatch /\ opening.stage = "idle" /\ opening.todo = {}
      /\ screen = "opening"
  BY <1>1 DEF Shape, InPatches
<1>3. CASE /\ file' = [file EXCEPT !.schema = app]
           /\ opening' = [opening EXCEPT !.pc = "late", !.todo = opening.later, !.later = {}]
           /\ UNCHANGED <<events, screen>>
  <2>1. opening' \in Opening
    BY <1>1, <1>3 DEF Opening
  <2>2. /\ opening'.pc = "late" /\ opening'.todo = opening.later /\ opening'.later = {}
        /\ opening'.patch = NoPatch /\ opening'.stage = "idle"
    BY <1>1, <1>2, <1>3 DEF Opening
  <2>3. /\ file' \in File /\ file'.marker = file.marker /\ file'.ids = file.ids
        /\ file'.runs = file.runs /\ file'.effect = file.effect /\ file'.work = file.work
        /\ file'.schema = app /\ file'.version = file.version
    BY <1>1, <1>3, FieldTyped DEF File, TypeOK
  <2>4. TypeOK'
    BY <1>1, <1>3, <2>1, <2>3 DEF TypeOK
  <2>5. Shape' /\ Copying' /\ Marked'
    BY <1>1, <1>2, <1>3, <2>2, <2>3, NoPatchApart DEF Shape, Copying, Marked, InPatches
  <2>6. \A q \in AllPatches : Tried(file, lost, q) => Tried(file, lost, q)'
    BY <1>1, <2>3 DEF Tried, Reached
  <2>7. Progress'
    BY <1>1, <1>2, <1>3, <2>2, <2>3, <2>6 DEF Progress, Remaining
  <2>8. Sound(file', lost)
    BY <2>3 DEF Kept, Sound, Tried, Reached
  <2> QED
    BY <1>1, <2>3, <2>4, <2>5, <2>7, <2>8, KeptOfFile
<1>4. CASE Mishap /\ GiveUp /\ UNCHANGED file
  BY <1>1, <1>4, GiveUpKeeps, MishapTyped
<1> QED
  BY <1>3, <1>4 DEF Alter, NoMishap

LEMMA AssertNotPartialKeeps == IInv /\ AssertNotPartial => IInv'
<1> SUFFICES ASSUME IInv, AssertNotPartial PROVE IInv'
  OBVIOUS
<1> USE DEF IInv
<1>1. /\ opening.pc = "assert" /\ opening \in Opening
      /\ UNCHANGED <<file, backups, app, worked, opens, events, lost>>
      /\ events' \in 0 .. MaxEvents
  BY DEF AssertNotPartial, TypeOK
<1>2. CASE GiveUp
  BY <1>1, <1>2, GiveUpKeeps
<1>3. CASE file.marker # "partial" /\ Goes("desk") /\ UNCHANGED screen
  <2>1. /\ opening' \in Opening /\ opening'.pc = "desk" /\ opening'.todo = opening.todo
        /\ opening'.later = opening.later /\ opening'.patch = opening.patch
        /\ opening'.stage = opening.stage
    BY <1>1, <1>3, GoesTyped DEF PCs
  <2>2. opening.patch = NoPatch /\ opening.stage = "idle" /\ screen = "opening"
    BY <1>1 DEF Shape, InPatches
  <2>3. TypeOK'
    BY <1>1, <1>3, <2>1 DEF TypeOK
  <2>4. Shape' /\ Copying'
    BY <1>1, <1>3, <2>1, <2>2 DEF Shape, Copying, InPatches
  <2>5. Progress'
    BY <1>1, <1>3, <2>1, <2>2, TriedSame DEF Progress, Remaining
  <2>6. Marked'
    BY <1>1, <1>3, <2>1, <2>2 DEF Marked
  <2> QED
    BY <1>1, <2>3, <2>4, <2>5, <2>6, KeptSame
<1> QED
  BY <1>2, <1>3 DEF AssertNotPartial

\* The version written covers only patches that were tried: nothing remains.
LEMMA ToDeskKeeps == IInv /\ ToDesk => IInv'
<1> SUFFICES ASSUME IInv, ToDesk PROVE IInv'
  OBVIOUS
<1> USE DEF IInv
<1>1. /\ opening.pc = "desk" /\ file \in File /\ opening' = Closed /\ screen' = "desk"
      /\ file' = [file EXCEPT !.version = app]
      /\ UNCHANGED <<backups, app, worked, opens, events, lost>>
  BY DEF ToDesk, TypeOK
<1>2. opening.patch = NoPatch /\ opening.todo = {} /\ opening.later = {} /\ screen = "opening"
  BY <1>1 DEF Shape, InPatches
<1>3. \A q \in AllPatches : Added[q] <= app => Tried(file, lost, q)
  BY <1>1, <1>2, NoPatchApart DEF Progress, Remaining
<1>4. /\ file' \in File /\ file'.marker = file.marker /\ file'.ids = file.ids
      /\ file'.runs = file.runs /\ file'.effect = file.effect /\ file'.work = file.work
      /\ file'.schema = file.schema /\ file'.version = app
  BY <1>1, FieldTyped DEF File, TypeOK
<1>5. TypeOK'
  BY <1>1, <1>4, ClosedTyped DEF TypeOK
<1>6. Shape' /\ Copying'
  BY <1>1 DEF Shape, Copying, Closed
<1>7. \A q \in AllPatches : Tried(file, lost, q) => Tried(file', lost, q)
  BY <1>4 DEF Tried, Reached
<1>8. Progress'
  <2>1. \A q \in AllPatches : Added[q] <= app => Tried(file, lost, q)'
    BY <1>1, <1>3, <1>7 DEF Tried, Reached
  <2> QED
    BY <1>1, <1>4, <2>1 DEF Progress, Closed
<1>9. Marked'
  BY <1>1, <1>2, <1>4, NoPatchApart DEF Marked, Closed
<1>10. Sound(file', lost)
  BY <1>3, <1>4, <1>7 DEF Kept, Sound, Reached
<1> QED
  BY <1>1, <1>4, <1>5, <1>6, <1>8, <1>9, <1>10, KeptOfFile

LEMMA WorkKeeps == IInv /\ Work => IInv'
<1> SUFFICES ASSUME IInv, Work PROVE IInv'
  OBVIOUS
<1> USE DEF IInv
<1>1. /\ screen = "desk" /\ worked < MaxWork /\ worked' = worked + 1 /\ file \in File
      /\ file' = [file EXCEPT !.work = @ + 1] /\ file.work = worked
      /\ UNCHANGED <<backups, app, screen, opening, opens, events, lost>>
  BY DEF Work, TypeOK, Kept
<1>2. file' = [file EXCEPT !.work = worked + 1]
  BY <1>1
<1>3. worked + 1 \in 0 .. MaxWork
  BY <1>1, BoundsAssumption DEF TypeOK
<1>4. /\ file' \in File /\ file'.marker = file.marker /\ file'.ids = file.ids
      /\ file'.runs = file.runs /\ file'.effect = file.effect /\ file'.work = worked'
      /\ file'.schema = file.schema /\ file'.version = file.version
  <2> DEFINE w == worked + 1
  <2>1. w \in 0 .. MaxWork /\ file' = [file EXCEPT !.work = w] /\ worked' = w
    BY <1>1, <1>2, <1>3
  <2> HIDE DEF w
  <2>2. file' \in File
    <3>1. \A v \in 0 .. MaxWork : [file EXCEPT !.work = v] \in File
      BY <1>1, FieldTyped
    <3> QED
      BY <2>1, <3>1
  <2> QED
    BY <1>1, <2>1, <2>2 DEF File
<1>5. TypeOK'
  BY <1>1, <1>3, <1>4 DEF TypeOK
<1>6. Shape'
  BY <1>1 DEF Shape, InPatches
<1>7. opening.pc = "closed" /\ opening.stage = "idle"
  BY <1>1 DEF Shape, InPatches, TypeOK, Opening
<1>8. Copying' /\ Marked'
  BY <1>1, <1>4, <1>7 DEF Marked, Copying
<1>9. \A q \in AllPatches : Tried(file, lost, q) => Tried(file, lost, q)'
  BY <1>1, <1>4 DEF Tried, Reached
<1>10. Progress'
  BY <1>1, <1>4, <1>7, <1>9 DEF Progress
<1>11. Sound(file', lost)
  BY <1>4 DEF Kept, Sound, Tried, Reached
<1>12. file'.marker # "partial"
  BY <1>1, <1>4 DEF Marked
<1>13. Kept'
  BY <1>1, <1>4, <1>11, <1>12 DEF Kept
<1> QED
  BY <1>5, <1>6, <1>8, <1>10, <1>13

LEMMA LeaveKeeps == IInv /\ Leave => IInv'
<1> SUFFICES ASSUME IInv, Leave PROVE IInv'
  OBVIOUS
<1> USE DEF IInv
<1>1. /\ screen = "desk" /\ screen' = "selector"
      /\ UNCHANGED <<file, backups, app, opening, worked, opens, events, lost>>
  BY DEF Leave
<1>2. opening.pc = "closed" /\ opening.stage = "idle"
  BY <1>1 DEF Shape, InPatches, TypeOK, Opening
<1>3. TypeOK' /\ Shape' /\ Copying' /\ Marked'
  BY <1>1, <1>2 DEF TypeOK, Shape, InPatches, Copying, Marked
<1>4. Progress'
  BY <1>1, <1>2, TriedSame DEF Progress
<1> QED
  BY <1>1, <1>3, <1>4, KeptSame

LEMMA UpgradeKeeps == IInv /\ Upgrade => IInv'
<1> SUFFICES ASSUME IInv, Upgrade PROVE IInv'
  OBVIOUS
<1> USE DEF IInv
<1>1. /\ screen = "selector" /\ app < MaxVersion /\ app' = app + 1
      /\ UNCHANGED <<file, backups, screen, opening, worked, opens, events, lost>>
  BY DEF Upgrade
<1>2. opening.pc = "closed" /\ opening.stage = "idle"
  BY <1>1 DEF Shape, InPatches, TypeOK, Opening
<1>3. app' \in 1 .. MaxVersion
  BY <1>1, MaxVersionAssumption DEF TypeOK
<1>4. TypeOK'
  BY <1>1, <1>3 DEF TypeOK
<1>5. Shape' /\ Copying' /\ Marked'
  BY <1>1, <1>2 DEF Shape, InPatches, Copying, Marked
<1>6. Progress'
  BY <1>1, <1>2 DEF Progress
<1> QED
  BY <1>1, <1>4, <1>5, <1>6, KeptSame

LEMMA CrashKeeps == IInv /\ Crash => IInv'
  BY GiveUpKeeps, MishapTyped DEF IInv, Crash

LEMMA RestoreKeeps == IInv /\ Restore => IInv'
<1> SUFFICES ASSUME IInv, Restore PROVE IInv'
  OBVIOUS
<1> USE DEF IInv
<1>1. /\ screen = "selector" /\ file.marker = "partial" /\ backups \in Seq(BackupFile)
      /\ UNCHANGED <<backups, app, screen, opening, worked, opens, events, lost>>
  BY DEF Restore, TypeOK
<1>2. PICK i \in 1 .. Len(backups) :
         /\ Usable(backups[i])
         /\ \A j \in 1 .. Len(backups) : j > i => ~Usable(backups[j])
         /\ file' = backups[i].file
  BY <1>1 DEF Restore
<1>3. PICK k \in 1 .. Len(backups) :
         /\ Usable(backups[k]) /\ backups[k].file.work = worked
         /\ \A j \in 1 .. Len(backups) : j > k => ~Usable(backups[j])
  BY <1>1 DEF Kept
<1>4. i = k
  <2>1. Len(backups) \in Nat
    BY <1>1
  <2>2. ~(i > k) /\ ~(k > i)
    BY <1>2, <1>3
  <2> QED
    BY <2>1, <2>2
<1>5. /\ file' \in File /\ file'.work = worked /\ Sound(file', lost)
      /\ file'.marker = "none" /\ file'.ids = "names"
  <2>1. backups[i] \in BackupFile
    BY <1>1
  <2> QED
    BY <1>2, <1>3, <1>4, <2>1 DEF BackupFile, Kept, Usable
<1>6. TypeOK'
  BY <1>1, <1>5 DEF TypeOK
<1>7. opening.pc = "closed" /\ opening.stage = "idle"
  BY <1>1 DEF Shape, InPatches, TypeOK, Opening
<1>8. Shape' /\ Copying' /\ Marked'
  BY <1>1, <1>5, <1>7 DEF Shape, InPatches, Copying, Marked
<1>9. Progress'
  BY <1>1, <1>7 DEF Progress
<1>10. Kept'
  BY <1>1, <1>5 DEF Kept
<1> QED
  BY <1>6, <1>8, <1>9, <1>10

-----------------------------------------------------------------------------
(* The theorems.                                                            *)

\* The inductive invariant holds of every reachable state.
THEOREM SpecInv == Spec => []IInv
<1>1. IInv /\ UNCHANGED vars => IInv'
  <2> SUFFICES ASSUME IInv, UNCHANGED vars PROVE IInv'
    OBVIOUS
  <2> USE DEF IInv, vars
  <2>1. TypeOK' /\ Shape' /\ Marked' /\ Copying'
    BY DEF TypeOK, Shape, InPatches, Marked, Copying
  <2>2. Progress'
    BY TriedSame DEF Progress, Remaining
  <2> QED
    BY <2>1, <2>2, KeptSame
<1>2. IInv /\ Next => IInv'
  BY OpenKeeps, SeedKeeps, PlanKeeps, CreateBackupKeeps, PickKeeps, PatchStepKeeps,
     PatchThrowsKeeps, UuidStepKeeps, MakeEntryKeeps, PatchesEndKeeps, MigrateKeeps,
     AlterKeeps, AssertNotPartialKeeps, ToDeskKeeps, WorkKeeps, LeaveKeeps, UpgradeKeeps,
     CrashKeeps, RestoreKeeps DEF Next, Step
<1> QED
  BY InitInv, <1>1, <1>2, PTL DEF Spec

\* Every reachable state is well typed: no version, stage or record of a patch
\* is ever out of range (the record is runPatch.ts makeEntry's, the stages those
\* of DatabaseManager's opening).
THEOREM TypeCorrect == Spec => []TypeOK
<1>1. IInv => TypeOK
  BY DEF IInv
<1> QED
  BY SpecInv, <1>1, PTL

\* The desk shows whole books: #assertUuidMigrationNotPartial and the migration
\* stand before it, and a restored backup has all the work.
THEOREM DeskShowsWholeBooks == Spec => []DeskIsWhole
<1>1. IInv => DeskIsWhole
  <2> SUFFICES ASSUME IInv, screen = "desk"
               PROVE  /\ file.marker = (IF file.ids = "uuids" THEN "complete" ELSE "none")
                      /\ file.schema = app /\ file.work = worked
    BY DEF DeskIsWhole
  <2>1. file \in File /\ opening.pc = "closed"
    BY DEF IInv, TypeOK, Shape, Opening
  <2>2. file.marker \in Markers /\ file.ids \in {"names", "uuids"}
    BY <2>1 DEF File
  <2> QED
    BY <2>1, <2>2 DEF IInv, Marked, Progress, Kept, Sound, Markers
<1> QED
  BY SpecInv, <1>1, PTL

\* The backup that the error of a partial file names (manager.ts:104) exists,
\* whole, with the old names and all the work.
THEOREM PartialIsRestorable == Spec => []RestorableBackup
<1>1. IInv => RestorableBackup
  <2> SUFFICES ASSUME IInv, file.marker = "partial"
               PROVE  \E i \in DOMAIN backups :
                         /\ Usable(backups[i]) /\ backups[i].file.ids = "names"
                         /\ backups[i].file.work = worked
    BY DEF RestorableBackup
  <2>1. PICK i \in 1 .. Len(backups) : Usable(backups[i]) /\ backups[i].file.work = worked
    BY DEF IInv, Kept
  <2>2. i \in DOMAIN backups
    BY DEF IInv, TypeOK
  <2> QED
    BY <2>1, <2>2 DEF IInv, Kept, Usable
<1> QED
  BY SpecInv, <1>1, PTL

\* A record of success in PatchRun (makeEntry) is true, across crashes between a
\* patch and its record, retries and restores.
THEOREM HistoryIsHonest == Spec => []PatchHistoryIsHonest
<1>1. IInv => PatchHistoryIsHonest
  BY PatchesAssumption
  DEF IInv, Kept, Sound, Reached, HasEffect, PatchHistoryIsHonest, AllPatches
<1> QED
  BY SpecInv, <1>1, PTL

\* setVersion writes no version that would hide a patch from #getPatchesToExecute
\* before it has been tried: the only ones forgotten are those whose record of
\* failure was refused and the refusal swallowed (makeEntry, runPatch.ts:50-59).
THEOREM NoPatchIsForgotten == Spec => []NothingForgotten
<1>1. IInv => NothingForgotten
  BY PatchesAssumption
  DEF IInv, Progress, Tried, Reached, HasEffect, NothingForgotten, AllPatches
<1> QED
  BY SpecInv, <1>1, PTL

-----------------------------------------------------------------------------
(* An opening runs down: the safety half of OpeningSettles.                 *)

\* How far from its end an opening is: the parts it has yet to go through, the
\* patches it has yet to run, and what is left of the one under way.
PartsLeft(o) ==
    CASE o.pc = "closed" -> 0
      [] o.pc = "desk" -> 1
      [] o.pc = "assert" -> 2
      [] o.pc = "late" -> 3
      [] o.pc = "alter" -> 4
      [] o.pc = "guard" -> 5
      [] o.pc = "migrate" -> 6
      [] o.pc = "early" -> 7
      [] o.pc = "backup" -> 8
      [] o.pc = "plan" -> 9 + Cardinality(AllPatches)
      [] o.pc = "seed" -> 10 + Cardinality(AllPatches)

PatchesLeft(o) == Cardinality(o.todo) + Cardinality(o.later)

StagesLeft(o) ==
    IF o.patch = NoPatch
    THEN IF o.pc \in {"backup", "guard"} /\ o.stage = "idle" THEN 1 ELSE 0
    ELSE CASE o.stage = "idle" -> 5
           [] o.stage = "copy" -> 4
           [] o.stage = "copied" -> 3
           [] o.stage = "started" -> 2
           [] o.stage \in {"done", "threw"} -> 1

Ahead(o) == PartsLeft(o) + PatchesLeft(o)

Rank(o) == 6 * Ahead(o) + StagesLeft(o)

LEMMA PatchesFinite == IsFiniteSet(AllPatches)
<1>1. IsFiniteSet(Early) /\ IsFiniteSet(Late)
  BY PatchesAssumption
<1>2. IsFiniteSet(Patches)
  BY <1>1, FS_Union DEF Patches
<1> QED
  BY <1>2, FS_AddElement DEF AllPatches

LEMMA RankTyped ==
    ASSUME NEW o \in Opening
    PROVE  /\ Cardinality(AllPatches) \in Nat
           /\ PartsLeft(o) \in Nat /\ PatchesLeft(o) \in Nat
           /\ StagesLeft(o) \in 0 .. 5
           /\ Ahead(o) \in Nat /\ Rank(o) \in Nat
<1>1. /\ o.pc \in {"closed", "seed", "plan", "backup", "early", "migrate", "guard", "alter",
                   "late", "assert", "desk"}
      /\ o.todo \in SUBSET AllPatches /\ o.later \in SUBSET AllPatches
      /\ o.stage \in {"idle", "copy", "copied", "started", "done", "threw"}
  BY DEF Opening
<1>2. Cardinality(AllPatches) \in Nat
  BY PatchesFinite, FS_CardinalityType
<1>3. Cardinality(o.todo) \in Nat /\ Cardinality(o.later) \in Nat
  BY <1>1, PatchesFinite, FS_Subset, FS_CardinalityType
<1>4. PartsLeft(o) \in Nat
  BY <1>1, <1>2 DEF PartsLeft
<1>5. PatchesLeft(o) \in Nat
  BY <1>3 DEF PatchesLeft
<1>6. StagesLeft(o) \in 0 .. 5
  BY <1>1 DEF StagesLeft
<1> QED
  BY <1>2, <1>4, <1>5, <1>6 DEF Ahead, Rank

\* A part or a patch behind it weighs more than all stages of a patch.
LEMMA PartsWeighMore ==
    ASSUME NEW o \in Opening, NEW q \in Opening, Ahead(q) < Ahead(o)
    PROVE  Rank(q) < Rank(o)
<1>1. /\ Ahead(o) \in Nat /\ Ahead(q) \in Nat
      /\ StagesLeft(o) \in 0 .. 5 /\ StagesLeft(q) \in 0 .. 5
  BY RankTyped
<1> QED
  BY <1>1 DEF Rank

\* The part is the same, and so are the patches to come.
LEMMA StagesWeigh ==
    ASSUME NEW o \in Opening, NEW q \in Opening,
           q.pc = o.pc, q.todo = o.todo, q.later = o.later, StagesLeft(q) < StagesLeft(o)
    PROVE  Rank(q) < Rank(o)
<1>1. /\ Ahead(o) \in Nat /\ Ahead(q) \in Nat
      /\ StagesLeft(o) \in 0 .. 5 /\ StagesLeft(q) \in 0 .. 5
  BY RankTyped
<1>2. Ahead(q) = Ahead(o)
  BY DEF Ahead, PartsLeft, PatchesLeft
<1> QED
  BY <1>1, <1>2 DEF Rank

\* Only the part is another.
LEMMA PartsWeigh ==
    ASSUME NEW o \in Opening, NEW q \in Opening,
           q.todo = o.todo, q.later = o.later, PartsLeft(q) < PartsLeft(o)
    PROVE  Rank(q) < Rank(o)
<1>1. /\ PartsLeft(o) \in Nat /\ PartsLeft(q) \in Nat
      /\ PatchesLeft(o) \in Nat /\ PatchesLeft(q) = PatchesLeft(o)
  BY RankTyped DEF PatchesLeft
<1>2. Ahead(q) < Ahead(o)
  BY <1>1 DEF Ahead
<1> QED
  BY <1>2, PartsWeighMore

\* Nothing is left of an opening that was given up, or that is at the desk.
LEMMA ClosedRanks ==
    ASSUME NEW o \in Opening, o.pc # "closed"
    PROVE  Rank(Closed) < Rank(o)
<1>1. Closed \in Opening /\ Ahead(Closed) = 0
  BY ClosedTyped, FS_EmptySet DEF Closed, Ahead, PartsLeft, PatchesLeft
<1>2. /\ PartsLeft(o) \in Nat /\ PatchesLeft(o) \in Nat /\ Cardinality(AllPatches) \in Nat
  BY RankTyped
<1>3. PartsLeft(o) > 0
  BY <1>2 DEF PartsLeft, Opening
<1> QED
  BY <1>1, <1>2, <1>3, PartsWeighMore DEF Ahead

LEMMA PlanRanks == IInv /\ IInv' /\ Plan => Rank(opening') < Rank(opening)
<1> SUFFICES ASSUME IInv, IInv', Plan PROVE Rank(opening') < Rank(opening)
  OBVIOUS
<1> DEFINE P == {p \in AllPatches : ToExecute(p)}
<1>1. opening \in Opening /\ opening' \in Opening /\ opening.pc = "plan"
  BY DEF IInv, TypeOK, Plan
<1>2. /\ opening'.pc \in {"early", "backup"}
      /\ opening'.todo = P \cap Early /\ opening'.later = P \ Early
  BY <1>1 DEF Plan, Opening
<1>3. IsFiniteSet(P) /\ Cardinality(P) <= Cardinality(AllPatches) /\ Cardinality(P) \in Nat
  BY PatchesFinite, FS_Subset, FS_CardinalityType
<1>4. /\ Cardinality(P \cap Early) \in Nat
      /\ Cardinality(P \ Early) = Cardinality(P) - Cardinality(P \cap Early)
  BY <1>3, FS_Difference, FS_Intersection, FS_CardinalityType
<1>5. PatchesLeft(opening') = Cardinality(P)
  <2> HIDE DEF P
  <2> QED
    BY <1>2, <1>3, <1>4 DEF PatchesLeft
<1>6. /\ PartsLeft(opening) = 9 + Cardinality(AllPatches)
      /\ PartsLeft(opening') \in {7, 8}
  <2>1. PartsLeft(opening) = 9 + Cardinality(AllPatches)
    BY <1>1 DEF PartsLeft
  <2>2. CASE opening'.pc = "early"
    BY <2>1, <2>2 DEF PartsLeft
  <2>3. CASE opening'.pc = "backup"
    BY <2>1, <2>3 DEF PartsLeft
  <2> QED
    BY <1>2, <2>2, <2>3
<1>7. PatchesLeft(opening) \in Nat /\ Cardinality(AllPatches) \in Nat
  BY <1>1, RankTyped
<1>8. Ahead(opening') < Ahead(opening)
  <2> HIDE DEF P
  <2> QED
    BY <1>3, <1>5, <1>6, <1>7 DEF Ahead
<1> QED
  BY <1>1, <1>8, PartsWeighMore

LEMMA PickRanks == IInv /\ IInv' /\ Pick => Rank(opening') < Rank(opening)
<1> SUFFICES ASSUME IInv, IInv', Pick PROVE Rank(opening') < Rank(opening)
  OBVIOUS
<1>1. opening \in Opening /\ opening' \in Opening
  BY DEF IInv, TypeOK
<1>2. PICK p \in opening.todo :
         opening' = [opening EXCEPT !.patch = p, !.todo = @ \ {p}, !.stage = "idle"]
  BY DEF Pick
<1>3. /\ opening'.pc = opening.pc /\ opening'.later = opening.later
      /\ opening'.todo = opening.todo \ {p}
  BY <1>1, <1>2 DEF Opening
<1>4. IsFiniteSet(opening.todo) /\ Cardinality(opening.todo) \in Nat
  BY <1>1, PatchesFinite, FS_Subset, FS_CardinalityType DEF Opening
<1>5. Cardinality(opening.later) \in Nat
  BY <1>1, PatchesFinite, FS_Subset, FS_CardinalityType DEF Opening
<1>6. Cardinality(opening'.todo) = Cardinality(opening.todo) - 1
  BY <1>3, <1>4, FS_RemoveElement
<1>7. PartsLeft(opening') = PartsLeft(opening) /\ PartsLeft(opening) \in Nat
  BY <1>1, <1>3, RankTyped DEF PartsLeft
<1>8. Ahead(opening') < Ahead(opening)
  BY <1>3, <1>4, <1>5, <1>6, <1>7 DEF Ahead, PatchesLeft
<1> QED
  BY <1>1, <1>8, PartsWeighMore

\* Whatever an opening does, and whether or not it fails or is cut off by a
\* crash, it has less to do afterwards.
LEMMA StepRanks ==
    ASSUME IInv, IInv', Next, screen = "opening"
    PROVE  Rank(opening') < Rank(opening)
<1>1. /\ opening \in Opening /\ opening' \in Opening /\ opening.pc # "closed"
      /\ Cardinality(AllPatches) \in Nat
  BY RankTyped DEF IInv, TypeOK, Shape
<1>2. Shape
  BY DEF IInv
<1>3. CASE GiveUp
  BY <1>1, <1>3, ClosedRanks DEF GiveUp
<1>4. CASE Seed
  <2>1. /\ opening'.todo = opening.todo /\ opening'.later = opening.later
        /\ opening.pc = "seed" /\ opening'.pc = "plan"
    BY <1>1, <1>4 DEF Seed, Goes, Opening
  <2> QED
    BY <1>1, <2>1, PartsWeigh DEF PartsLeft
<1>5. CASE CreateBackup /\ ~GiveUp
  <2>1. CASE /\ opening.pc \in {"backup", "guard"} /\ opening.stage = "idle"
             /\ opening' = [opening EXCEPT !.stage = "copy"]
    <3>1. /\ opening'.pc = opening.pc /\ opening'.stage = "copy"
          /\ opening'.todo = opening.todo /\ opening'.later = opening.later
          /\ opening'.patch = opening.patch /\ opening.patch = NoPatch
      BY <1>1, <1>2, <2>1 DEF Opening, Shape, InPatches
    <3>2. StagesLeft(opening) = 1 /\ StagesLeft(opening') = 0
      BY <2>1, <3>1 DEF StagesLeft
    <3> QED
      BY <1>1, <3>1, <3>2, StagesWeigh
  <2>2. CASE /\ opening.pc \in {"backup", "guard"}
             /\ opening' = [opening EXCEPT !.stage = "idle",
                               !.pc = IF @ = "backup" THEN "early" ELSE "alter"]
    <3>1. /\ opening'.pc = IF opening.pc = "backup" THEN "early" ELSE "alter"
          /\ opening'.todo = opening.todo /\ opening'.later = opening.later
      BY <1>1, <2>2 DEF Opening
    <3>2. CASE opening.pc = "backup"
      <4>1. PartsLeft(opening) = 8 /\ PartsLeft(opening') = 7
        BY <3>1, <3>2 DEF PartsLeft
      <4> QED
        BY <1>1, <3>1, <4>1, PartsWeigh
    <3>3. CASE opening.pc = "guard"
      <4>1. PartsLeft(opening) = 5 /\ PartsLeft(opening') = 4
        BY <3>1, <3>3 DEF PartsLeft
      <4> QED
        BY <1>1, <3>1, <4>1, PartsWeigh
    <3> QED
      BY <2>2, <3>2, <3>3
  <2> QED
    BY <1>5, <2>1, <2>2 DEF CreateBackup
<1>6. CASE PatchStep \/ PatchThrows \/ UuidStep
  <2>1. PICK st \in {"copy", "copied", "started", "done", "threw"} :
           /\ opening' = [opening EXCEPT !.stage = st]
           /\ st = "copy" => opening.stage = "idle"
           /\ st = "copied" => opening.stage = "copy"
           /\ st = "started" => opening.stage \in {"idle", "copied"}
           /\ opening.stage \notin {"done", "threw"}
           /\ opening.patch # NoPatch
    BY <1>6, NoPatchApart DEF PatchStep, PatchThrows, UuidStep, Stage
  <2>2. /\ opening'.pc = opening.pc /\ opening'.stage = st
        /\ opening'.todo = opening.todo /\ opening'.later = opening.later
        /\ opening'.patch = opening.patch
    BY <1>1, <2>1 DEF Opening
  <2>3. opening.stage \in {"idle", "copy", "copied", "started", "done", "threw"}
    BY <1>1 DEF Opening
  <2>4. StagesLeft(opening') < StagesLeft(opening)
    BY <2>1, <2>2, <2>3 DEF StagesLeft
  <2> QED
    BY <1>1, <2>2, <2>4, StagesWeigh
<1>7. CASE MakeEntry
  <2>1. /\ opening.patch # NoPatch /\ opening.stage \in {"done", "threw"}
        /\ opening' = [opening EXCEPT !.patch = NoPatch, !.stage = "idle"]
        /\ opening.pc \in {"early", "late"}
    BY <1>7 DEF MakeEntry, InPatches
  <2>2. /\ opening'.pc = opening.pc /\ opening'.patch = NoPatch
        /\ opening'.todo = opening.todo /\ opening'.later = opening.later
    BY <1>1, <2>1 DEF Opening
  <2>3. StagesLeft(opening') = 0
    BY <2>1, <2>2 DEF StagesLeft
  <2>4. StagesLeft(opening) = 1
    BY <2>1 DEF StagesLeft
  <2> QED
    BY <1>1, <2>2, <2>3, <2>4, StagesWeigh
<1>8. CASE PatchesEnd \/ (Migrate /\ file.schema # app) \/ (AssertNotPartial /\ ~GiveUp)
  <2>1. \E pc \in {"migrate", "assert", "alter", "guard", "desk"} :
           /\ opening' = [opening EXCEPT !.pc = pc]
           /\ pc = "migrate" => opening.pc = "early"
           /\ pc = "assert" => opening.pc = "late"
           /\ pc \in {"alter", "guard"} => opening.pc = "migrate"
           /\ pc = "desk" => opening.pc = "assert"
    BY <1>8 DEF PatchesEnd, Migrate, AssertNotPartial, Goes, InPatches
  <2>2. /\ opening'.todo = opening.todo /\ opening'.later = opening.later
        /\ \/ opening.pc = "early" /\ opening'.pc = "migrate"
           \/ opening.pc = "late" /\ opening'.pc = "assert"
           \/ opening.pc = "migrate" /\ opening'.pc \in {"alter", "guard"}
           \/ opening.pc = "assert" /\ opening'.pc = "desk"
    BY <1>1, <2>1 DEF Opening
  <2> QED
    BY <1>1, <2>2, PartsWeigh DEF PartsLeft
<1>9. CASE (Migrate /\ file.schema = app) \/ (Alter /\ ~GiveUp)
  <2>1. /\ opening' = [opening EXCEPT !.pc = "late", !.todo = opening.later, !.later = {}]
        /\ opening.pc \in {"migrate", "alter"}
    BY <1>9 DEF Migrate, Alter
  <2>2. /\ opening'.pc = "late" /\ opening'.todo = opening.later /\ opening'.later = {}
        /\ opening.todo = {}
    BY <1>1, <1>2, <2>1 DEF Opening, Shape
  <2>3. Cardinality({}) = 0
    BY FS_EmptySet
  <2>4. PatchesLeft(opening') = PatchesLeft(opening) /\ PatchesLeft(opening) \in Nat
    <3>1. Cardinality(opening.later) \in Nat
      BY <1>1, PatchesFinite, FS_Subset, FS_CardinalityType DEF Opening
    <3> QED
      BY <2>2, <2>3, <3>1 DEF PatchesLeft
  <2>5. PartsLeft(opening') = 3 /\ PartsLeft(opening) \in {4, 6}
    BY <2>1, <2>2 DEF PartsLeft
  <2> QED
    BY <1>1, <2>4, <2>5, PartsWeighMore DEF Ahead
<1>10. CASE ToDesk
  BY <1>1, <1>10, ClosedRanks DEF ToDesk
<1>11. CASE Crash
  BY <1>3, <1>11 DEF Crash
<1>12. ~Open /\ ~Work /\ ~Leave /\ ~Upgrade /\ ~Restore
  BY DEF Open, Work, Leave, Upgrade, Restore
<1> QED
  BY <1>3, <1>4, <1>5, <1>6, <1>7, <1>8, <1>9, <1>10, <1>11, <1>12, PlanRanks, PickRanks
  DEF Next, Step

\* No opening goes round in circles, whatever the file, the patches, the
\* failures and the crashes: each of its steps leaves less to do than before,
\* so that DatabaseManager's opening is a bounded number of steps long.
THEOREM OpeningsRunDown ==
    Spec => [][screen = "opening" => Rank(opening) \in Nat /\ Rank(opening') < Rank(opening)]_vars
<1>1. ASSUME IInv, IInv', [Next]_vars
      PROVE  [screen = "opening" => Rank(opening) \in Nat /\ Rank(opening') < Rank(opening)]_vars
  <2>1. opening \in Opening
    BY <1>1 DEF IInv, TypeOK
  <2> QED
    BY <1>1, <2>1, RankTyped, StepRanks
<1> QED
  BY <1>1, SpecInv, PTL DEF Spec
=============================================================================
