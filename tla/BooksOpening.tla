---------------------------- MODULE BooksOpening ----------------------------
(***************************************************************************)
(* Opening a company file (backend/database/manager.ts): a backup, the     *)
(* patches that go before the schema migration, the migration, the patches *)
(* after it, the rewrite of document names to UUIDs among them, and only   *)
(* then the desk, which notes the program's version in the file.  The      *)
(* program may die between any two commits, and statements, copies and     *)
(* patches may fail; the user opens the file again, with this version of   *)
(* the program or a later one, or restores the backup the program names.   *)
(*                                                                         *)
(* Patches commit statement by statement (an effect may be half done); the *)
(* schema migration and the UUID rewrite are one transaction each.         *)
(***************************************************************************)
EXTENDS Naturals, Sequences, FiniteSets

CONSTANTS
    Early,      \* patches that run before the schema migration
    Late,       \* patches that run after it, other than the UUID rewrite
    Fragile,    \* patches that throw when part of their effect is there already
    Added,      \* the version each patch was added in
    MaxVersion, \* bound: versions of the program
    MaxWork,    \* bound: pieces of work done at the desk
    MaxOpens,   \* bound: how often the file is opened
    MaxEvents   \* bound: crashes and failures

uuid == "uuidIdentityMigration"
NoPatch == "no patch"
Patches == Early \cup Late
AllPatches == Patches \cup {uuid}

ASSUME PatchesAssumption ==
    /\ IsFiniteSet(Early) /\ IsFiniteSet(Late)
    /\ Early \cap Late = {} /\ uuid \notin Patches /\ NoPatch \notin AllPatches
    /\ Fragile \subseteq Patches
ASSUME MaxVersionAssumption == MaxVersion \in Nat \ {0}
ASSUME AddedAssumption == Added \in [AllPatches -> 2 .. MaxVersion]
ASSUME BoundsAssumption == MaxWork \in Nat /\ MaxOpens \in Nat /\ MaxEvents \in Nat

VARIABLES
    file,     \* the company file
    backups,  \* livebooks_backups, by index
    app,      \* the version of the program installed
    screen,   \* what the user sees
    opening,  \* how far the opening under way is
    worked,   \* history: the work ever done at the desk
    opens,    \* how often the file was opened
    events,   \* how many crashes and failures there were
    lost      \* history: patches that threw and whose record was refused

vars == <<file, backups, app, screen, opening, worked, opens, events, lost>>

NoRun == [ran |-> FALSE, failed |-> FALSE, version |-> 0]
Run == [ran : BOOLEAN, failed : BOOLEAN, version : 0 .. MaxVersion]
Markers == {"none", "partial", "complete"}
File ==
    [marker : Markers,                         \* schema_migration_version
     ids : {"names", "uuids"},                 \* what the accounts are named by
     schema : 1 .. MaxVersion,                 \* the tables
     version : 1 .. MaxVersion,                \* SystemSettings.version
     runs : [AllPatches -> Run],               \* PatchRun
     effect : [Patches -> {"none", "half", "done"}],
     work : 0 .. MaxWork]
BackupFile == [whole : BOOLEAN, file : File]

Closed == [pc |-> "closed", todo |-> {}, later |-> {}, patch |-> NoPatch, stage |-> "idle",
           version |-> 0, had |-> FALSE]
Opening ==
    [pc : {"closed", "seed", "plan", "backup", "early", "migrate", "guard", "alter",
           "late", "assert", "desk"},
     todo : SUBSET AllPatches, later : SUBSET AllPatches,
     patch : AllPatches \cup {NoPatch},
     stage : {"idle", "copy", "copied", "started", "done", "threw"},
     version : 0 .. MaxVersion, had : BOOLEAN]

TypeOK ==
    /\ file \in File
    /\ backups \in Seq(BackupFile)
    /\ app \in 1 .. MaxVersion
    /\ screen \in {"selector", "opening", "desk"}
    /\ opening \in Opening
    /\ worked \in 0 .. MaxWork
    /\ opens \in 0 .. MaxOpens
    /\ events \in 0 .. MaxEvents
    /\ lost \subseteq AllPatches

\* A file of the first version, its accounts named the old way, or already by
\* UUIDs though the file does not say so (made before the marker was).
Init ==
    /\ file \in [marker : {"none"}, ids : {"names", "uuids"}, schema : {1}, version : {1},
                 runs : {[p \in AllPatches |-> NoRun]},
                 effect : {[p \in Patches |-> "none"]}, work : {0}]
    /\ backups = <<>>
    /\ app = 1
    /\ screen = "selector"
    /\ opening = Closed
    /\ worked = 0 /\ opens = 0 /\ events = 0 /\ lost = {}

(***************************************************************************)
(* Planning.                                                               *)
(***************************************************************************)
Mishap == events < MaxEvents /\ events' = events + 1
NoMishap == UNCHANGED events

\* The opening is given up: the error reaches the renderer, which shows the
\* company list and closes the database.
GiveUp == screen' = "selector" /\ opening' = Closed

Goes(pc) == opening' = [opening EXCEPT !.pc = pc]

\* isGreenfieldUuidLedger
Greenfield == file.marker = "complete" \/ file.ids = "uuids"

\* #getPatchesToExecute.  A patch recorded as failed is run again as soon as the
\* file was last opened by another version than the one it failed under.
ToExecute(p) ==
    LET run == file.runs[p]
    IN  /\ Added[p] <= app
        /\ p = uuid => ~Greenfield
        /\ \/ ~run.ran /\ file.version <= Added[p]
           \/ run.failed /\ run.version # file.version
           \/ run.failed /\ p = uuid /\ file.marker = "none"

Open ==
    /\ screen = "selector" /\ opens < MaxOpens
    /\ opens' = opens + 1
    /\ screen' = "opening"
    /\ opening' = [Closed EXCEPT !.pc = "seed"]
    /\ UNCHANGED <<file, backups, app, worked, events, lost>>

\* #ensureGreenfieldUuidIdentitySeeded
Seed ==
    /\ opening.pc = "seed"
    /\ file' = IF Greenfield /\ file.marker = "none"
               THEN [file EXCEPT !.marker = "complete"] ELSE file
    /\ Goes("plan")
    /\ UNCHANGED <<backups, app, screen, worked, opens, events, lost>>

BrokenPlan ==      \* mutant: the version is noted before the patches
    /\ opening.pc = "plan"
    /\ LET P == {p \in AllPatches : ToExecute(p)}
       IN  opening' = [opening EXCEPT !.pc = IF P = {} THEN "early" ELSE "backup",
                                      !.todo = P \cap Early, !.later = P \ Early,
                                      !.version = file.version, !.had = P # {}]
    /\ file' = [file EXCEPT !.version = app]
    /\ UNCHANGED <<backups, app, screen, worked, opens, events, lost>>

Plan ==
    /\ opening.pc = "plan"
    /\ LET P == {p \in AllPatches : ToExecute(p)}
       IN  opening' = [opening EXCEPT !.pc = IF P = {} THEN "early" ELSE "backup",
                                      !.todo = P \cap Early, !.later = P \ Early,
                                      !.version = file.version, !.had = P # {}]
    /\ UNCHANGED <<file, backups, app, screen, worked, opens, events, lost>>

(***************************************************************************)
(* Backups: #createBackup takes the next free index and copies the file.   *)
(***************************************************************************)
BrokenCopy ==      \* mutant: the last backup is written over
    IF backups = <<>> THEN <<[whole |-> FALSE, file |-> file]>>
    ELSE [backups EXCEPT ![Len(backups)] = [whole |-> FALSE, file |-> file]]

Copy == Append(backups, [whole |-> FALSE, file |-> file])

Copied == [backups EXCEPT ![Len(backups)].whole = TRUE]

\* The two places of the opening itself that make one; a failed copy ends it.
CreateBackup ==
    /\ opening.pc \in {"backup", "guard"}
    /\ \/ /\ opening.stage = "idle"
          /\ backups' = Copy
          /\ opening' = [opening EXCEPT !.stage = "copy"]
          /\ NoMishap /\ UNCHANGED screen
       \/ /\ opening.stage = "copy"
          /\ backups' = Copied
          /\ opening' = [opening EXCEPT !.stage = "idle",
                             !.pc = IF @ = "backup" THEN "early" ELSE "alter"]
          /\ NoMishap /\ UNCHANGED screen
       \/ /\ opening.stage = "copy"
          /\ Mishap
          /\ GiveUp
          /\ UNCHANGED backups
    /\ UNCHANGED <<file, app, worked, opens, lost>>

(***************************************************************************)
(* Patches: runPatches, one by one.                                        *)
(***************************************************************************)
InPatches == opening.pc \in {"early", "late"}
Stage(st) == opening' = [opening EXCEPT !.stage = st]

\* The next patch; uuidIdentityMigration has the highest priority.
Pick ==
    /\ InPatches /\ opening.patch = NoPatch
    /\ \E p \in opening.todo :
          /\ uuid \in opening.todo => p = uuid
          /\ opening' = [opening EXCEPT !.patch = p, !.todo = @ \ {p}, !.stage = "idle"]
    /\ UNCHANGED <<file, backups, app, screen, worked, opens, events, lost>>

\* An ordinary patch: its statements commit one after the other.
PatchStep ==
    LET p == opening.patch
    IN  /\ InPatches /\ p \in Patches /\ opening.stage \in {"idle", "started"}
        /\ \/ /\ opening.stage = "idle"
              /\ p \in Fragile => file.effect[p] = "none"
              /\ file' = [file EXCEPT !.effect[p] = IF @ = "none" THEN "half" ELSE @]
              /\ Stage("started")
           \/ /\ opening.stage = "started"
              /\ file' = [file EXCEPT !.effect[p] = "done"]
              /\ Stage("done")
    /\ UNCHANGED <<backups, app, screen, worked, opens, events, lost>>

\* runPatch catches what a patch throws.
PatchThrows ==
    /\ InPatches /\ opening.patch # NoPatch
    /\ opening.stage \in {"idle", "copy", "copied", "started"}
    /\ \/ /\ opening.patch \in Fragile /\ opening.stage = "idle"
          /\ file.effect[opening.patch] # "none"
          /\ NoMishap
       \/ /\ opening.patch = uuid /\ opening.stage = "idle" /\ file.marker = "partial"
          /\ NoMishap
       \/ /\ opening.patch = uuid /\ file.marker = "partial" => opening.stage # "idle"
          /\ Mishap
    /\ Stage("threw")
    /\ UNCHANGED <<file, backups, app, screen, worked, opens, lost>>

\* uuidIdentityMigration: a backup, the marker, and the rewrite with the other
\* marker in one transaction (one that fails leaves the marker as it was).
UuidStep ==
    /\ InPatches /\ opening.patch = uuid
    /\ \/ /\ opening.stage = "idle" /\ file.marker = "none"
          /\ backups' = Copy
          /\ Stage("copy")
          /\ UNCHANGED file
       \/ /\ opening.stage = "copy"
          /\ backups' = Copied
          /\ Stage("copied")
          /\ UNCHANGED file
       \/ /\ opening.stage = "copied"
          /\ file' = [file EXCEPT !.marker = "partial"]
          /\ Stage("started")
          /\ UNCHANGED backups
       \/ /\ opening.stage = "started"
          /\ file' = [file EXCEPT !.marker = "complete", !.ids = "uuids"]
          /\ Stage("done")
          /\ UNCHANGED backups
    /\ UNCHANGED <<app, screen, worked, opens, events, lost>>

\* The patch under way has thrown.
Threw == IF opening.stage = "threw" THEN {opening.patch} ELSE {}

BrokenMakeEntry ==      \* mutant: a failure is recorded as a success
    LET p == opening.patch
    IN  /\ InPatches /\ p # NoPatch /\ opening.stage \in {"done", "threw"}
        /\ \/ /\ file' = IF file.runs[p].ran THEN file
                          ELSE [file EXCEPT !.runs[p] = [ran |-> TRUE, failed |-> FALSE,
                                                         version |-> opening.version]]
              /\ NoMishap /\ UNCHANGED lost
           \/ /\ ~file.runs[p].ran /\ Mishap
              /\ lost' = lost \cup Threw
              /\ UNCHANGED file
        /\ opening' = [opening EXCEPT !.patch = NoPatch, !.stage = "idle"]
    /\ UNCHANGED <<backups, app, screen, worked, opens>>

\* makeEntry: the first record of a patch stays, a second insert is refused; and
\* whatever the reason a first one is refused for, the opening goes on without it.
MakeEntry ==
    LET p == opening.patch
    IN  /\ InPatches /\ p # NoPatch /\ opening.stage \in {"done", "threw"}
        /\ \/ /\ file' = IF file.runs[p].ran THEN file
                          ELSE [file EXCEPT !.runs[p] = [ran |-> TRUE,
                                   failed |-> opening.stage = "threw", version |-> opening.version]]
              /\ NoMishap /\ UNCHANGED lost
           \/ /\ ~file.runs[p].ran /\ Mishap
              /\ lost' = lost \cup Threw
              /\ UNCHANGED file
        /\ opening' = [opening EXCEPT !.patch = NoPatch, !.stage = "idle"]
    /\ UNCHANGED <<backups, app, screen, worked, opens>>

BrokenPatchesEnd ==      \* mutant: after the late patches the migration is looked at again
    /\ InPatches /\ opening.patch = NoPatch /\ opening.todo = {}
    /\ Goes("migrate")
    /\ UNCHANGED <<file, backups, app, screen, worked, opens, events, lost>>

\* All patches of this part were tried.
PatchesEnd ==
    /\ InPatches /\ opening.patch = NoPatch /\ opening.todo = {}
    /\ Goes(IF opening.pc = "early" THEN "migrate" ELSE "assert")
    /\ UNCHANGED <<file, backups, app, screen, worked, opens, events, lost>>

(***************************************************************************)
(* The schema migration, the last check, and the desk.                     *)
(***************************************************************************)

\* DatabaseCore.migrate: nothing to do, or its pre step makes the backup that
\* the patches did not need.
Migrate ==
    /\ opening.pc = "migrate"
    /\ IF file.schema = app
       THEN opening' = [opening EXCEPT !.pc = "late", !.todo = opening.later, !.later = {}]
       ELSE Goes(IF opening.had THEN "alter" ELSE "guard")
    /\ UNCHANGED <<file, backups, app, screen, worked, opens, events, lost>>

\* All tables in one transaction.
Alter ==
    /\ opening.pc = "alter"
    /\ \/ /\ file' = [file EXCEPT !.schema = app]
          /\ opening' = [opening EXCEPT !.pc = "late", !.todo = opening.later, !.later = {}]
          /\ NoMishap /\ UNCHANGED screen
       \/ /\ Mishap
          /\ GiveUp
          /\ UNCHANGED file
    /\ UNCHANGED <<backups, app, worked, opens, lost>>

BrokenAssert ==      \* mutant: no check after the migration
    /\ opening.pc = "assert"
    /\ Goes("desk")
    /\ UNCHANGED <<file, backups, app, screen, worked, opens, events, lost>>

\* #assertUuidMigrationNotPartial
AssertNotPartial ==
    /\ opening.pc = "assert"
    /\ \/ /\ file.marker = "partial"
          /\ GiveUp
       \/ /\ file.marker # "partial"
          /\ Goes("desk")
          /\ UNCHANGED screen
    /\ UNCHANGED <<file, backups, app, worked, opens, events, lost>>

BrokenToDesk ==      \* mutant: the version after this one is noted
    /\ opening.pc = "desk"
    /\ file' = [file EXCEPT !.version = app + 1]
    /\ screen' = "desk"
    /\ opening' = Closed
    /\ UNCHANGED <<backups, app, worked, opens, events, lost>>

\* initializeInstance: setVersion, then the desk.
ToDesk ==
    /\ opening.pc = "desk"
    /\ file' = [file EXCEPT !.version = app]
    /\ screen' = "desk"
    /\ opening' = Closed
    /\ UNCHANGED <<backups, app, worked, opens, events, lost>>

Work ==
    /\ screen = "desk" /\ worked < MaxWork
    /\ worked' = worked + 1
    /\ file' = [file EXCEPT !.work = @ + 1]
    /\ UNCHANGED <<backups, app, screen, opening, opens, events, lost>>

\* The user closes the books, or installs the next version of the program.
Leave ==
    /\ screen = "desk"
    /\ screen' = "selector"
    /\ UNCHANGED <<file, backups, app, opening, worked, opens, events, lost>>

Upgrade ==
    /\ screen = "selector" /\ app < MaxVersion
    /\ app' = app + 1
    /\ UNCHANGED <<file, backups, screen, opening, worked, opens, events, lost>>

\* The program dies.
Crash ==
    /\ screen # "selector"
    /\ Mishap
    /\ GiveUp
    /\ UNCHANGED <<file, backups, app, worked, opens, lost>>

\* "Restore the pre-migration backup": the last one that was made before the
\* rewrite began.
Usable(b) == b.whole /\ b.file.marker = "none"

Restore ==
    /\ screen = "selector" /\ file.marker = "partial"
    /\ \E i \in DOMAIN backups :
          /\ Usable(backups[i])
          /\ \A j \in DOMAIN backups : j > i => ~Usable(backups[j])
          /\ file' = backups[i].file
    /\ UNCHANGED <<backups, app, screen, opening, worked, opens, events, lost>>

Step ==
    \/ Seed \/ Plan \/ CreateBackup \/ Pick \/ PatchStep \/ PatchThrows \/ UuidStep
    \/ MakeEntry \/ PatchesEnd \/ Migrate \/ Alter \/ AssertNotPartial \/ ToDesk

Next == Open \/ Step \/ Work \/ Leave \/ Upgrade \/ Crash \/ Restore

\* An opening goes on by itself.
Spec == Init /\ [][Next]_vars /\ WF_vars(Step)

(***************************************************************************)
(* Properties.                                                             *)
(***************************************************************************)

\* The desk never shows books whose rewrite began and did not end: the marker
\* tells what the accounts are named by, the tables are those of the program,
\* and all the work ever done is there, restored backups included.
DeskIsWhole ==
    screen = "desk" =>
        /\ file.marker = (IF file.ids = "uuids" THEN "complete" ELSE "none")
        /\ file.schema = app
        /\ file.work = worked

\* While the file is marked partial, the backup its error message tells the
\* user to restore exists, whole, from before the rewrite and with all work in.
RestorableBackup ==
    file.marker = "partial" =>
        \E i \in DOMAIN backups :
            /\ Usable(backups[i])
            /\ backups[i].file.ids = "names" /\ backups[i].file.work = worked

HasEffect(p) == IF p = uuid THEN file.ids = "uuids" ELSE file.effect[p] = "done"

\* A patch recorded as run and not failed has had its whole effect, whatever
\* crash, retry or restore lies between.
PatchHistoryIsHonest ==
    \A p \in AllPatches : file.runs[p].ran /\ ~file.runs[p].failed => HasEffect(p)

\* At the desk every patch of this program has had its effect or is recorded as
\* failed, for the version written there is what later openings compare with.
\* The one way for a patch to be forgotten is that it threw and that the insert
\* of its record was refused too, which makeEntry swallows (runPatch.ts:50-59).
NothingForgotten ==
    screen = "desk" =>
        \A p \in AllPatches : Added[p] <= app =>
            HasEffect(p) \/ file.runs[p].failed \/ p \in lost

\* An opening ends, at the desk or at the company list, whatever state the file
\* was left in by earlier ones.
OpeningSettles == screen = "opening" ~> screen # "opening"
=============================================================================
