------------------------------ MODULE VmRelease -----------------------------
(***************************************************************************)
(* Releases on the RHEL 9 VM: the o11y_alerting role, the release check of *)
(* packaging/vm/install.sh in front of it, and the timer-started runs that *)
(* go on beside a play.                                                    *)
(*                                                                         *)
(* A play works in one release directory, tests it, writes the settings,   *)
(* switches `current` and removes old releases.  Each task is one action;  *)
(* any task may fail or the play be interrupted, and the operator may play *)
(* any build for any management group next.  One play runs at a time.      *)
(***************************************************************************)
EXTENDS Naturals, FiniteSets

CONSTANTS
    Builds,        \* release bundles, of a commit or a package
    Ids,           \* release ids, the names of release directories
    IdOf,          \* [Builds -> Ids]; vm-install.sh names a build by its commit
    Mgs,           \* management groups a VM may be set up for
    Passes,        \* <<build, mg>> pairs the smoke test accepts
    KeepReleases,  \* o11y_keep_releases
    Modes,         \* o11y_modes
    None

ASSUME ConstantsAssumption ==
    /\ IdOf \in [Builds -> Ids]
    /\ Passes \subseteq Builds \X Mgs
    /\ None \notin Builds \cup Ids \cup Mgs
    /\ IsFiniteSet(Ids)

ASSUME KeepAssumption == KeepReleases \in Nat \ {0}

VARIABLES
    disk,     \* the release directories: id -> what is in it
    older,    \* <<a, b>>: directory a was last modified before b
    current,  \* the release `current` points to
    settings, \* management group in o11y-alerting.env
    timers,   \* the units are installed and the timers started
    play,     \* the task the play stands before, and its parameters
    run,      \* the run of each mode
    replaced  \* history: ids that --reinstall removed a build of and no smoke
              \* test has passed for since

vars == <<disk, older, current, settings, timers, play, run, replaced>>

Tasks == {"directories", "unpack", "venv", "smoke", "settings", "switch",
          "units", "list", "prune"}

\* part: bootstrap.py is there, but not all that the next tasks need.
\* unsigned: only RELEASE, the last member of a package's bundle, is missing.
Directory == [build : Builds \cup {None},
              unpacked : {"no", "part", "unsigned", "full"},
              venv : BOOLEAN]

\* dir is the working directory: None when nobody can reach it any more.  venvs:
\* the builds whose venvs the run has taken something from.
Run == [at : {"idle", "spawned", "entered", "executed", "running"},
        mg : Mgs \cup {None}, dir : Ids \cup {None},
        code : Builds \cup {None}, venvs : SUBSET (Builds \cup {None})]

Idle    == [at |-> "idle", build |-> None, mg |-> None, doomed |-> {}]
NoRun   == [at |-> "idle", mg |-> None, dir |-> None, code |-> None,
            venvs |-> {}]
OnDisk  == DOMAIN disk
Release == IdOf[play.build]

TypeOK ==
    /\ OnDisk \subseteq Ids
    /\ disk \in [OnDisk -> Directory]
    /\ older \subseteq OnDisk \X OnDisk
    /\ current \in Ids \cup {None}
    /\ settings \in Mgs \cup {None}
    /\ timers \in BOOLEAN
    /\ play \in {Idle} \cup [at : Tasks, build : Builds, mg : Mgs,
                             doomed : SUBSET Ids]
    /\ run \in [Modes -> Run]
    /\ replaced \subseteq Ids

Init ==
    /\ disk = [id \in {} |-> None]
    /\ older = {}
    /\ current = None
    /\ settings = None
    /\ timers = FALSE
    /\ play = Idle
    /\ run = [m \in Modes |-> NoRun]
    /\ replaced = {}
-----------------------------------------------------------------------------
(* Directories.                                                            *)

\* An entry was created in directory id: it is the newest now.
Touched(id) ==
    {p \in older : id \notin {p[1], p[2]}} \cup
    {<<other, id>> : other \in OnDisk \ {id}}

Write(id, content) ==
    /\ disk' = [x \in OnDisk \cup {id} |-> IF x = id THEN content ELSE disk[x]]
    /\ older' = Touched(id)

\* A process whose working directory is removed keeps an empty one.
Remove(id) ==
    /\ disk' = [x \in OnDisk \ {id} |-> disk[x]]
    /\ older' = {p \in older : id \notin {p[1], p[2]}}
    /\ run' = [m \in Modes |-> IF run[m].dir = id
                               THEN [run[m] EXCEPT !.dir = None]
                               ELSE run[m]]
-----------------------------------------------------------------------------
(* The play.                                                               *)

Goto(task) == play' = [play EXCEPT !.at = task]

Plan(b, mg) == [at |-> "directories", build |-> b, mg |-> mg, doomed |-> {}]

\* Mutant: RELEASE files are not compared.
ReusedId_Never(b) == FALSE

\* install.sh: there is a RELEASE file, and it is another build's.
ReusedId(b) ==
    /\ IdOf[b] \in OnDisk
    /\ disk[IdOf[b]].unpacked = "full"
    /\ disk[IdOf[b]].build # b

StartPlay(b, mg) ==
    /\ play = Idle
    /\ ~ReusedId(b)
    /\ play' = Plan(b, mg)
    /\ UNCHANGED <<disk, older, current, settings, timers, run, replaced>>

\* --reinstall; without it install.sh stops.
Reinstall(b, mg) ==
    /\ play = Idle
    /\ ReusedId(b)
    /\ Remove(IdOf[b])
    /\ play' = Plan(b, mg)
    /\ replaced' = replaced \cup {IdOf[b]}
    /\ UNCHANGED <<current, settings, timers>>

CreateDirectories ==
    /\ play.at = "directories"
    /\ IF Release \in OnDisk
       THEN UNCHANGED <<disk, older>>
       ELSE Write(Release, [build |-> None, unpacked |-> "no", venv |-> FALSE])
    /\ Goto("unpack")
    /\ UNCHANGED <<current, settings, timers, run, replaced>>

\* `creates:` src/bootstrap.py
Skipped == disk[Release].unpacked # "no"

Unpacked(how) == [build |-> play.build, unpacked |-> how,
                  venv |-> disk[Release].venv]

Unpack ==
    /\ play.at = "unpack"
    /\ IF Skipped
       THEN UNCHANGED <<disk, older>>
       ELSE Write(Release, Unpacked("full"))
    /\ Goto("venv")
    /\ UNCHANGED <<current, settings, timers, run, replaced>>

\* The disk fills up, or the connection breaks, during the unpack.
UnpackInterrupted ==
    /\ play.at = "unpack"
    /\ ~Skipped
    /\ \E how \in {"no", "part", "unsigned"} : Write(Release, Unpacked(how))
    /\ play' = Idle
    /\ UNCHANGED <<current, settings, timers, run, replaced>>

\* pip cannot reach its index: the directory venv is there and incomplete.
VenvInterrupted ==
    /\ play.at = "venv"
    /\ ~disk[Release].venv
    /\ Write(Release, disk[Release])
    /\ play' = Idle
    /\ UNCHANGED <<current, settings, timers, run, replaced>>

\* Mutant: `current` is switched before the smoke test.
CreateVenv_Switches ==
    /\ play.at = "venv"
    /\ Write(Release, [disk[Release] EXCEPT !.venv = TRUE])
    /\ current' = Release
    /\ Goto("smoke")
    /\ UNCHANGED <<settings, timers, run, replaced>>

\* pip: completes the venv, or does nothing when the requirements are met.
CreateVenv ==
    /\ play.at = "venv"
    /\ IF disk[Release].venv
       THEN UNCHANGED <<disk, older>>
       ELSE Write(Release, [disk[Release] EXCEPT !.venv = TRUE])
    /\ Goto("smoke")
    /\ UNCHANGED <<current, settings, timers, run, replaced>>

\* Mutant: the test does not notice that a part of the bundle is missing.
Works_InPart == <<disk[Release].build, play.mg>> \in Passes

\* Imports the entry point and loads this management group's configuration; in
\* a directory that lacks one of the members before RELEASE, this or the
\* installation of the requirements fails.
Works == /\ disk[Release].unpacked \in {"unsigned", "full"}
         /\ <<disk[Release].build, play.mg>> \in Passes

SmokeTest ==
    /\ play.at = "smoke"
    /\ Works
    /\ Goto("settings")
    /\ replaced' = replaced \ {Release}
    /\ UNCHANGED <<disk, older, current, settings, timers, run>>

WriteSettings ==
    /\ play.at = "settings"
    /\ settings' = play.mg
    /\ Goto("switch")
    /\ UNCHANGED <<disk, older, current, timers, run, replaced>>

SwitchCurrent ==
    /\ play.at = "switch"
    /\ current' = Release
    /\ Goto("units")
    /\ UNCHANGED <<disk, older, settings, timers, run, replaced>>

InstallUnits ==
    /\ play.at = "units"
    /\ timers' = TRUE
    /\ Goto("list")
    /\ UNCHANGED <<disk, older, current, settings, run, replaced>>

\* Mutant: one directory too many is kept.
Old_OffByOne ==
    {id \in OnDisk :
        Cardinality({x \in OnDisk : <<id, x>> \in older}) > KeepReleases + 1}

\* The directories with KeepReleases or more newer ones.
Old == {id \in OnDisk :
            Cardinality({x \in OnDisk : <<id, x>> \in older}) >= KeepReleases}

\* Mutant: without rejectattr.
Doomed_All == Old

Doomed == Old \ {Release}

ListReleases ==
    /\ play.at = "list"
    /\ play' = [at |-> "prune", build |-> play.build, mg |-> play.mg,
                 doomed |-> Doomed]
    /\ UNCHANGED <<disk, older, current, settings, timers, run, replaced>>

RemoveOld(id) ==
    /\ play.at = "prune"
    /\ id \in play.doomed
    /\ Remove(id)
    /\ play' = [play EXCEPT !.doomed = @ \ {id}]
    /\ UNCHANGED <<current, settings, timers, replaced>>

FinishPlay ==
    /\ play.at = "prune"
    /\ play.doomed = {}
    /\ play' = Idle
    /\ UNCHANGED <<disk, older, current, settings, timers, run, replaced>>

\* Mutant: a broken-off play is not forgotten.
StopPlay_Remembers ==
    /\ play # Idle
    /\ play' = [play EXCEPT !.at = "idle"]
    /\ UNCHANGED <<disk, older, current, settings, timers, run, replaced>>

\* A task fails, or the play is interrupted: the rest is not done.
StopPlay ==
    /\ play # Idle
    /\ play' = Idle
    /\ UNCHANGED <<disk, older, current, settings, timers, run, replaced>>

Play ==
    \/ \E b \in Builds, mg \in Mgs : StartPlay(b, mg) \/ Reinstall(b, mg)
    \/ CreateDirectories
    \/ Unpack
    \/ UnpackInterrupted
    \/ CreateVenv
    \/ VenvInterrupted
    \/ SmokeTest
    \/ WriteSettings
    \/ SwitchCurrent
    \/ InstallUnits
    \/ ListReleases
    \/ \E id \in Ids : RemoveOld(id)
    \/ FinishPlay
    \/ StopPlay
-----------------------------------------------------------------------------
(* Runs: o11y-alerting@<mode>.service.  A timer does not start a second    *)
(* run of its mode.                                                        *)

Change(m, r) ==
    /\ run' = [run EXCEPT ![m] = r]
    /\ UNCHANGED <<disk, older, current, settings, timers, play, replaced>>

\* A timer fires, or an operator starts the service: EnvironmentFile is read.
Spawn(m) ==
    /\ timers
    /\ run[m].at = "idle"
    /\ Change(m, [NoRun EXCEPT !.at = "spawned", !.mg = settings])

\* WorkingDirectory: `current` is followed once.
Enter(m) ==
    /\ run[m].at = "spawned"
    /\ current \in OnDisk
    /\ Change(m, [run[m] EXCEPT !.at = "entered", !.dir = current])

\* The venv a run sees: ExecStart names it through `current`, and Python keeps
\* that path as its prefix, so each use follows `current` anew.
FromVenv(r) == [r EXCEPT !.venvs = @ \cup {disk[current].build}]

HasVenv == current \in OnDisk /\ disk[current].venv

\* ExecStart: the interpreter is looked up through `current` again.
Execute(m) ==
    /\ run[m].at = "entered"
    /\ HasVenv
    /\ Change(m, FromVenv([run[m] EXCEPT !.at = "executed"]))

\* run_local.py imports src/ and bootstrap.main loads config/, both from the
\* working directory, and src/ imports its requirements from the venv.
Load(m) ==
    /\ run[m].at = "executed"
    /\ run[m].dir # None
    /\ disk[run[m].dir].unpacked # "no"
    /\ HasVenv
    /\ Change(m, FromVenv([run[m] EXCEPT !.at = "running",
                                         !.code = disk[run[m].dir].build]))

\* The run returns, fails at any of these steps, or is stopped.
End(m) ==
    /\ run[m].at # "idle"
    /\ Change(m, NoRun)

Next ==
    \/ Play
    \/ \E m \in Modes : Spawn(m) \/ Enter(m) \/ Execute(m) \/ Load(m) \/ End(m)

Spec == Init /\ [][Next]_vars
-----------------------------------------------------------------------------
(* Properties.                                                             *)

Tested == {b \in Builds : \E mg \in Mgs : <<b, mg>> \in Passes}

\* A release id names one build, as vm-install.sh guarantees.
OneBuildPerId == \A b, c \in Builds : IdOf[b] = IdOf[c] => b = c

Complete(id) ==
    /\ id \in OnDisk
    /\ disk[id].unpacked \in {"unsigned", "full"}
    /\ disk[id].venv

\* A broken release never goes live: `current` points to a directory that
\* holds a whole bundle, its dependencies, and a build that passed the smoke
\* test - after every failed, interrupted or repeated play.  The exception is a
\* live release whose directory --reinstall removed, until a play of that id
\* passes its smoke test (see NeverTestedIsNeverCurrent).
LiveReleaseWorks ==
    current # None /\ current \notin replaced =>
        Complete(current) /\ disk[current].build \in Tested

\* Whenever a starting run takes something from a release, it is from a tested
\* one, although `current` may be switched and directories removed while it
\* starts: the code it loads, and each venv it uses on the way there; only a
\* directory --reinstall removed, and no smoke test has passed since, may hold
\* anything else.  That code and venvs are of the same release is not said here
\* (see FinishesOnItsRelease).
OnlyTestedCodeRuns ==
    [][\A m \in Modes :
          /\ Load(m) => run[m].dir \in replaced \/ run'[m].code \in Tested
          /\ Execute(m) \/ Load(m) =>
                current \in replaced
                \/ run'[m].venvs \ run[m].venvs \subseteq Tested]_vars

\* A play that gets to its end leaves `current` at the release it was asked to
\* install, with the settings it was given, and, as far as RELEASE tells, the
\* build it was given - whatever plays of the same id were broken off before (an
\* unpack broken off just before RELEASE leaves nothing to compare with).
FinishedPlayDelivers ==
    [][FinishPlay =>
          /\ current = Release
          /\ settings = play.mg
          /\ disk[current].unpacked = "full" =>
                disk[current].build = play.build]_vars

\* A play that ends by itself leaves at most KeepReleases directories, or one
\* more, and then the release it installed is the oldest of them.
DiskBound ==
    [][FinishPlay =>
          \/ Cardinality(OnDisk) <= KeepReleases
          \/ /\ Cardinality(OnDisk) = KeepReleases + 1
             /\ \A id \in OnDisk \ {Release} : <<Release, id>> \in older]_vars

\* What a run starting now would run, unless --reinstall is replacing it.
LiveBuild ==
    IF current # None /\ current \notin replaced /\ Complete(current)
    THEN disk[current].build ELSE None

Live == INSTANCE LiveRelease WITH live <- LiveBuild,
                                  replacing <- current \in replaced

\* The role implements LiveRelease.
ImplementsLive == Live!Spec
-----------------------------------------------------------------------------
(* What the documentation says and the code does not do.                   *)

\* tasks/main.yml: an invalid config/ never goes live.  Between the new
\* settings and the switch a run loads the old release's configuration for
\* the new management group, which nobody tested.
LoadedConfigWasTested ==
    \A m \in Modes :
        run[m].at = "running" => <<run[m].code, run[m].mg>> \in Passes

\* azure-vm.md: a run already in progress finishes on the old release
\* directory.  A run that entered the old directory before the switch takes its
\* requirements from the new release's venv.
FinishesOnItsRelease ==
    \A m \in Modes : run[m].at = "running" => run[m].venvs = {run[m].code}

\* azure-vm.md: a release that fails the smoke test never becomes `current`.
\* --reinstall of the live release's id unpacks behind `current`.
NeverTestedIsNeverCurrent ==
    current \in OnDisk => disk[current].build \in Tested \cup {None}
=============================================================================
