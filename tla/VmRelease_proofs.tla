--------------------------- MODULE VmRelease_proofs --------------------------
(***************************************************************************)
(* Theorems about VmRelease, for every set of builds, ids and management   *)
(* groups, every KeepReleases and any number of modes.                     *)
(***************************************************************************)
EXTENDS VmRelease, FiniteSetTheorems, WellFoundedInduction,
        NaturalsInduction, TLAPS

USE ConstantsAssumption

-----------------------------------------------------------------------------
(* Type correctness.  A play that is past its first task finds its release *)
(* directory, and a run whose working directory is not gone finds it in    *)
(* its place, whatever else happens: without this part the type invariant  *)
(* is not inductive.                                                       *)

Working ==
    /\ play.at \notin {"idle", "directories"} => Release \in OnDisk
    /\ play.at # "idle" => Release \notin play.doomed
    /\ \A m \in Modes : run[m].dir # None => run[m].dir \in OnDisk

Plans == [at : Tasks, build : Builds, mg : Mgs, doomed : SUBSET Ids]

\* The initial state is well typed.
LEMMA TypedInit == Init => TypeOK /\ Working
<1> SUFFICES ASSUME Init
             PROVE  TypeOK /\ Working
  OBVIOUS
<1>1. OnDisk = {}
  BY DEF Init, OnDisk
<1>2. disk \in [OnDisk -> Directory]
  BY <1>1 DEF Init, OnDisk
<1>3. NoRun \in Run
  BY DEF NoRun, Run
<1>4. Working
  BY DEF Init, Idle, NoRun, Working
<1> QED
  BY <1>1, <1>2, <1>3, <1>4 DEF Init, TypeOK

\* Creating entries in a release directory keeps the disk well typed.
LEMMA TypedWrite ==
  ASSUME TypeOK, NEW id \in Ids, NEW d \in Directory, Write(id, d)
  PROVE  /\ OnDisk' = OnDisk \cup {id}
         /\ disk' \in [OnDisk' -> Directory]
         /\ older' \subseteq OnDisk' \X OnDisk'
<1>1. OnDisk' = OnDisk \cup {id}
  BY DEF Write, OnDisk
<1>2. disk' \in [OnDisk' -> Directory]
  <2>1. disk' = [x \in OnDisk' |-> IF x = id THEN d ELSE disk[x]]
    BY <1>1 DEF Write
  <2>2. \A x \in OnDisk' : (IF x = id THEN d ELSE disk[x]) \in Directory
    BY <1>1 DEF TypeOK
  <2> QED
    BY <2>1, <2>2
<1>3. older' \subseteq OnDisk' \X OnDisk'
  <2>1. older \subseteq OnDisk' \X OnDisk'
    BY <1>1 DEF TypeOK
  <2>2. {<<other, id>> : other \in OnDisk \ {id}} \subseteq OnDisk' \X OnDisk'
    BY <1>1
  <2> QED
    BY <2>1, <2>2 DEF Write, Touched
<1> QED
  BY <1>1, <1>2, <1>3

\* So does removing one, and the runs stay well typed.
LEMMA TypedRemove ==
  ASSUME TypeOK, NEW id \in Ids, Remove(id)
  PROVE  /\ OnDisk' = OnDisk \ {id}
         /\ disk' \in [OnDisk' -> Directory]
         /\ older' \subseteq OnDisk' \X OnDisk'
         /\ run' \in [Modes -> Run]
         /\ \A m \in Modes : run'[m].dir = IF run[m].dir = id THEN None
                                          ELSE run[m].dir
<1>1. OnDisk' = OnDisk \ {id}
  BY DEF Remove, OnDisk
<1>2. disk' \in [OnDisk' -> Directory]
  <2>1. disk' = [x \in OnDisk' |-> disk[x]]
    BY <1>1 DEF Remove
  <2> QED
    BY <1>1, <2>1 DEF TypeOK
<1>3. older' \subseteq OnDisk' \X OnDisk'
  <2> SUFFICES ASSUME NEW p \in older'
               PROVE  p \in OnDisk' \X OnDisk'
    OBVIOUS
  <2>1. p \in older /\ id \notin {p[1], p[2]}
    BY DEF Remove
  <2>2. p \in OnDisk \X OnDisk
    BY <2>1 DEF TypeOK
  <2> QED
    BY <1>1, <2>1, <2>2
<1>4. run' \in [Modes -> Run]
  <2>1. \A m \in Modes : [run[m] EXCEPT !.dir = None] \in Run
    BY DEF TypeOK, Run
  <2> QED
    BY <2>1 DEF TypeOK, Remove
<1>5. \A m \in Modes : run'[m].dir = IF run[m].dir = id THEN None
                                    ELSE run[m].dir
  BY DEF TypeOK, Remove, Run
<1> QED
  BY <1>1, <1>2, <1>3, <1>4, <1>5

\* A play that has not ended is a plan for a release directory.
LEMMA PlayType ==
  ASSUME TypeOK, play.at # "idle"
  PROVE  play \in Plans /\ play # Idle /\ Release \in Ids
<1>1. play \in Plans /\ play # Idle
  BY DEF TypeOK, Idle, Plans
<1> QED
  BY <1>1 DEF Plans, Release

\* Going on to the next task changes nothing else about the plan.
LEMMA GotoType ==
  ASSUME TypeOK, play.at # "idle", NEW task \in Tasks, Goto(task)
  PROVE  /\ play' \in Plans
         /\ play'.at = task
         /\ play'.build = play.build /\ play'.mg = play.mg
         /\ play'.doomed = play.doomed
  BY PlayType DEF Goto, Plans

\* A task that writes into the release directory and goes on.
LEMMA TypedTask ==
  ASSUME TypeOK, play.at # "idle", NEW task \in Tasks, Goto(task),
         Working,
         \/ UNCHANGED <<disk, older>> /\ Release \in OnDisk
         \/ \E d \in Directory : Write(Release, d),
         UNCHANGED <<current, settings, timers, run, replaced>>
  PROVE  TypeOK' /\ Working'
<1>1. /\ Release \in Ids
      /\ play' \in Plans /\ Release' = Release /\ play'.doomed = play.doomed
  BY PlayType, GotoType DEF Release
<1>2. CASE UNCHANGED <<disk, older>> /\ Release \in OnDisk
  BY <1>1, <1>2 DEF TypeOK, Plans, Working, OnDisk
<1>3. CASE \E d \in Directory : Write(Release, d)
  <2>1. /\ OnDisk' = OnDisk \cup {Release}
        /\ disk' \in [OnDisk' -> Directory]
        /\ older' \subseteq OnDisk' \X OnDisk'
    BY <1>1, <1>3, TypedWrite
  <2> QED
    BY <1>1, <2>1 DEF TypeOK, Plans, Working
<1> QED
  BY <1>2, <1>3

\* A task that changes neither directories nor runs.
LEMMA TypedGoto ==
  ASSUME TypeOK, Working, play.at \notin {"idle", "directories"},
         NEW task \in Tasks, Goto(task), UNCHANGED <<disk, older, run>>,
         current' \in Ids \cup {None}, settings' \in Mgs \cup {None},
         timers' \in BOOLEAN, replaced' \subseteq Ids
  PROVE  TypeOK' /\ Working'
<1>1. play' \in Plans /\ Release' = Release /\ play'.doomed = play.doomed
  BY PlayType, GotoType DEF Release
<1> QED
  BY <1>1 DEF TypeOK, Plans, Working, OnDisk

\* A broken-off play.
LEMMA TypedStop ==
  ASSUME TypeOK, Working, play' = Idle,
         UNCHANGED <<current, settings, timers, run, replaced>>,
         /\ OnDisk \subseteq OnDisk' /\ OnDisk' \subseteq Ids
         /\ disk' \in [OnDisk' -> Directory]
         /\ older' \subseteq OnDisk' \X OnDisk'
  PROVE  TypeOK' /\ Working'
  BY DEF TypeOK, Working, Idle

\* A run's own step.
LEMMA TypedRun ==
  ASSUME TypeOK, Working, NEW m \in Modes, NEW r \in Run, Change(m, r),
         r.dir # None => r.dir \in OnDisk
  PROVE  TypeOK' /\ Working'
<1>1. run' \in [Modes -> Run]
  BY DEF TypeOK, Change
<1> QED
  BY <1>1 DEF TypeOK, Working, Change, OnDisk, Release, Run

\* What a run takes from a venv is all that FromVenv changes.
LEMMA VenvType ==
  ASSUME TypeOK, HasVenv, NEW r \in Run
  PROVE  /\ FromVenv(r) \in Run
         /\ FromVenv(r).at = r.at /\ FromVenv(r).mg = r.mg
         /\ FromVenv(r).dir = r.dir /\ FromVenv(r).code = r.code
         /\ FromVenv(r).venvs = r.venvs \cup {disk[current].build}
<1>1. disk[current].build \in Builds \cup {None}
  BY DEF TypeOK, HasVenv, Directory
<1> QED
  BY <1>1 DEF FromVenv, Run

\* A run's steps in terms of what they leave behind.
LEMMA RunSteps ==
  ASSUME TypeOK, NEW m \in Modes
  PROVE  /\ Spawn(m) => \E r \in Run :
              /\ Change(m, r) /\ r.at = "spawned" /\ r.mg = settings
              /\ r.dir = None
         /\ Enter(m) => \E r \in Run :
              /\ Change(m, r) /\ r.at = "entered" /\ r.mg = run[m].mg
              /\ r.dir = current
         /\ Execute(m) => \E r \in Run :
              /\ Change(m, r) /\ r.at = "executed" /\ r.mg = run[m].mg
              /\ r.dir = run[m].dir
              /\ r.venvs = run[m].venvs \cup {disk[current].build}
         /\ Load(m) /\ run[m].dir \in OnDisk => \E r \in Run :
              /\ Change(m, r) /\ r.at = "running" /\ r.mg = run[m].mg
              /\ r.dir = run[m].dir /\ r.code = disk[run[m].dir].build
              /\ r.venvs = run[m].venvs \cup {disk[current].build}
         /\ End(m) => Change(m, NoRun) /\ NoRun \in Run
<1>0. run[m] \in Run /\ NoRun \in Run
  BY DEF TypeOK, NoRun, Run
<1>1. ASSUME Spawn(m)
      PROVE  \E r \in Run : /\ Change(m, r) /\ r.at = "spawned"
                            /\ r.mg = settings /\ r.dir = None
  <2> DEFINE r == [NoRun EXCEPT !.at = "spawned", !.mg = settings]
  <2>1. /\ r \in Run /\ r.at = "spawned" /\ r.mg = settings /\ r.dir = None
    BY DEF TypeOK, NoRun, Run
  <2>2. Change(m, r)
    BY <1>1 DEF Spawn
  <2> HIDE DEF r
  <2> QED
    BY <2>1, <2>2
<1>2. ASSUME Enter(m)
      PROVE  \E r \in Run : /\ Change(m, r) /\ r.at = "entered"
                            /\ r.mg = run[m].mg /\ r.dir = current
  <2> DEFINE r == [run[m] EXCEPT !.at = "entered", !.dir = current]
  <2>1. /\ r \in Run /\ r.at = "entered" /\ r.mg = run[m].mg
        /\ r.dir = current
    BY <1>0 DEF TypeOK, Run
  <2>2. Change(m, r)
    BY <1>2 DEF Enter
  <2> HIDE DEF r
  <2> QED
    BY <2>1, <2>2
<1>3. ASSUME Execute(m)
      PROVE  \E r \in Run : /\ Change(m, r) /\ r.at = "executed"
                            /\ r.mg = run[m].mg /\ r.dir = run[m].dir
                            /\ r.venvs = run[m].venvs
                                           \cup {disk[current].build}
  <2> DEFINE q == [run[m] EXCEPT !.at = "executed"]
  <2>1. /\ q \in Run /\ q.at = "executed" /\ q.mg = run[m].mg
        /\ q.dir = run[m].dir /\ q.venvs = run[m].venvs
    BY <1>0 DEF Run
  <2>2. Change(m, FromVenv(q)) /\ HasVenv
    BY <1>3 DEF Execute
  <2> HIDE DEF q
  <2> QED
    BY <2>1, <2>2, VenvType
<1>4. ASSUME Load(m), run[m].dir \in OnDisk
      PROVE  \E r \in Run : /\ Change(m, r) /\ r.at = "running"
                            /\ r.mg = run[m].mg /\ r.dir = run[m].dir
                            /\ r.code = disk[run[m].dir].build
                            /\ r.venvs = run[m].venvs
                                           \cup {disk[current].build}
  <2> DEFINE q == [run[m] EXCEPT !.at = "running",
                                 !.code = disk[run[m].dir].build]
  <2>1. disk[run[m].dir].build \in Builds \cup {None}
    BY <1>4 DEF TypeOK, Directory
  <2>2. /\ q \in Run /\ q.at = "running" /\ q.mg = run[m].mg
        /\ q.dir = run[m].dir /\ q.venvs = run[m].venvs
        /\ q.code = disk[run[m].dir].build
    BY <1>0, <2>1 DEF Run
  <2>3. Change(m, FromVenv(q)) /\ HasVenv
    BY <1>4 DEF Load
  <2> HIDE DEF q
  <2> QED
    BY <2>2, <2>3, VenvType
<1> QED
  BY <1>0, <1>1, <1>2, <1>3, <1>4 DEF End

\* Every step keeps the state well typed.
LEMMA TypedNext == TypeOK /\ Working /\ [Next]_vars => TypeOK' /\ Working'
<1> SUFFICES ASSUME TypeOK, Working, [Next]_vars
             PROVE  TypeOK' /\ Working'
  OBVIOUS
<1>1. ASSUME NEW b \in Builds, NEW mg \in Mgs, StartPlay(b, mg)
      PROVE  TypeOK' /\ Working'
  <2>1. play' \in Plans /\ play'.at = "directories" /\ play'.doomed = {}
    BY <1>1 DEF StartPlay, Plan, Plans, Tasks
  <2> QED
    BY <1>1, <2>1 DEF StartPlay, TypeOK, Working, OnDisk, Plans
<1>2. ASSUME NEW b \in Builds, NEW mg \in Mgs, Reinstall(b, mg)
      PROVE  TypeOK' /\ Working'
  <2>1. IdOf[b] \in Ids /\ Remove(IdOf[b])
    BY <1>2 DEF Reinstall
  <2>2. play' \in Plans /\ play'.at = "directories" /\ play'.doomed = {}
    BY <1>2 DEF Reinstall, Plan, Plans, Tasks
  <2>3. OnDisk' \subseteq Ids
    BY <2>1, TypedRemove DEF TypeOK
  <2> QED
    BY <1>2, <2>1, <2>2, <2>3, TypedRemove DEF Reinstall, TypeOK, Working, Plans
<1>3. CASE CreateDirectories
  <2>1. [build |-> None, unpacked |-> "no", venv |-> FALSE] \in Directory
    BY DEF Directory
  <2> QED
    BY <1>3, <2>1, TypedTask DEF CreateDirectories, Tasks
<1>4. CASE Unpack
  <2>1. Release \in OnDisk
    BY <1>4 DEF Unpack, Working
  <2>2. Unpacked("full") \in Directory
    BY <1>4, <2>1, PlayType DEF Unpack, Unpacked, Directory, TypeOK, Plans
  <2> QED
    BY <1>4, <2>1, <2>2, TypedTask DEF Unpack, Tasks
<1>5. CASE UnpackInterrupted
  <2>1. Release \in OnDisk /\ Release \in Ids
    BY <1>5, PlayType DEF UnpackInterrupted, Working
  <2>2. \A how \in {"no", "part", "unsigned"} : Unpacked(how) \in Directory
    BY <1>5, <2>1, PlayType DEF UnpackInterrupted, Unpacked, Directory, TypeOK,
                              Plans
  <2>3. /\ OnDisk' = OnDisk \cup {Release}
        /\ disk' \in [OnDisk' -> Directory]
        /\ older' \subseteq OnDisk' \X OnDisk'
    BY <1>5, <2>1, <2>2, TypedWrite DEF UnpackInterrupted
  <2> QED
    BY <1>5, <2>1, <2>3, TypedStop DEF UnpackInterrupted, TypeOK
<1>6. CASE VenvInterrupted
  <2>1. Release \in OnDisk /\ Release \in Ids /\ disk[Release] \in Directory
    BY <1>6, PlayType DEF VenvInterrupted, Working, TypeOK
  <2>2. /\ OnDisk' = OnDisk \cup {Release}
        /\ disk' \in [OnDisk' -> Directory]
        /\ older' \subseteq OnDisk' \X OnDisk'
    BY <1>6, <2>1, TypedWrite DEF VenvInterrupted
  <2> QED
    BY <1>6, <2>1, <2>2, TypedStop DEF VenvInterrupted, TypeOK
<1>7. CASE CreateVenv
  <2>1. Release \in OnDisk /\ disk[Release] \in Directory
    BY <1>7 DEF CreateVenv, Working, TypeOK
  <2>2. [disk[Release] EXCEPT !.venv = TRUE] \in Directory
    BY <2>1 DEF Directory
  <2> QED
    BY <1>7, <2>1, <2>2, TypedTask DEF CreateVenv, Tasks
<1>8. CASE SmokeTest
  BY <1>8, TypedGoto DEF SmokeTest, Tasks, TypeOK
<1>9. CASE WriteSettings
  <2>1. play.mg \in Mgs
    BY <1>9, PlayType DEF WriteSettings, Plans
  <2> QED
    BY <1>9, <2>1, TypedGoto DEF WriteSettings, Tasks, TypeOK
<1>10. CASE SwitchCurrent
  BY <1>10, PlayType, TypedGoto DEF SwitchCurrent, Tasks, TypeOK
<1>11. CASE InstallUnits
  BY <1>11, TypedGoto DEF InstallUnits, Tasks, TypeOK
<1>12. CASE ListReleases
  <2>1. play \in Plans
    BY <1>12, PlayType DEF ListReleases
  <2>2. Doomed \subseteq Ids \ {Release}
    BY DEF Doomed, Old, TypeOK
  <2>3. play' \in Plans
    BY <1>12, <2>1, <2>2 DEF ListReleases, Plans, Tasks
  <2>4. Release' = Release /\ play'.doomed = Doomed
    BY <1>12, <2>1 DEF ListReleases, Release, Plans
  <2>5. Release \in OnDisk
    BY <1>12 DEF ListReleases, Working
  <2> QED
    BY <1>12, <2>2, <2>3, <2>4, <2>5 DEF ListReleases, TypeOK, Working, OnDisk,
                                         Plans
<1>13. ASSUME NEW id \in Ids, RemoveOld(id)
       PROVE  TypeOK' /\ Working'
  <2>1. play \in Plans /\ Release \in OnDisk /\ Release \notin play.doomed
    BY <1>13, PlayType DEF RemoveOld, Working
  <2>2. /\ play' \in Plans /\ Release' = Release
        /\ play'.doomed = play.doomed \ {id}
    BY <1>13, <2>1 DEF RemoveOld, Plans, Release
  <2>3. Release \in OnDisk'
    BY <1>13, <2>1, TypedRemove DEF RemoveOld
  <2>4. OnDisk' \subseteq Ids
    BY <1>13, TypedRemove DEF RemoveOld, TypeOK
  <2> QED
    BY <1>13, <2>1, <2>2, <2>3, <2>4, TypedRemove
       DEF RemoveOld, TypeOK, Working,
                                                     Plans
<1>14. CASE FinishPlay
  BY <1>14, TypedStop DEF FinishPlay, TypeOK, OnDisk
<1>15. CASE StopPlay
  BY <1>15, TypedStop DEF StopPlay, TypeOK, OnDisk
<1>16. ASSUME NEW m \in Modes,
              Spawn(m) \/ Enter(m) \/ Execute(m) \/ Load(m) \/ End(m)
       PROVE  TypeOK' /\ Working'
  <2>1. /\ Load(m) => run[m].dir \in OnDisk
        /\ Enter(m) => current \in OnDisk
        /\ run[m].dir # None => run[m].dir \in OnDisk
        /\ NoRun.dir = None
    BY DEF Enter, Load, NoRun, Working
  <2> QED
    BY <1>16, <2>1, RunSteps, TypedRun
<1>17. CASE UNCHANGED vars
  BY <1>17 DEF vars, TypeOK, Working, OnDisk, Release
<1> QED
  BY <1>1, <1>2, <1>3, <1>4, <1>5, <1>6, <1>7, <1>8, <1>9, <1>10, <1>11, <1>12,
     <1>13, <1>14, <1>15, <1>16, <1>17
  DEF Next, Play

\* The state is always well typed, and a play never loses the directory it
\* works in.
THEOREM TypeCorrect == Spec => []TypeOK
<1>1. Init => TypeOK /\ Working
  BY TypedInit
<1>2. (TypeOK /\ Working) /\ [Next]_vars => (TypeOK /\ Working)'
  BY TypedNext
<1> QED
  BY <1>1, <1>2, PTL DEF Spec
-----------------------------------------------------------------------------
(* What a play has achieved when it stands before a task.                  *)

Achieved ==
    /\ play.at \in {"smoke", "settings", "switch", "units", "list", "prune"} =>
          disk[Release].venv
    /\ play.at \in {"settings", "switch", "units", "list", "prune"} => Works
    /\ play.at \in {"switch", "units", "list", "prune"} => settings = play.mg
    /\ play.at \in {"units", "list", "prune"} => current = Release
    /\ (/\ play.at # "idle" /\ Release \in OnDisk
        /\ disk[Release].unpacked = "full")
          => disk[Release].build = play.build

\* A step that leaves a play and its directory as they are keeps what the
\* play has achieved.
LEMMA AchievedStays ==
  ASSUME Achieved, play'.at = play.at, play'.build = play.build,
         play'.mg = play.mg, UNCHANGED <<current, settings>>,
         Release \in OnDisk' =>
             Release \in OnDisk /\ disk'[Release] = disk[Release],
         play.at \notin {"idle", "directories"} => Release \in OnDisk'
  PROVE  Achieved'
<1>1. Release' = Release
  BY DEF Release
<1>2. CASE play.at \in {"idle", "directories"}
  BY <1>1, <1>2 DEF Achieved
<1>3. CASE play.at \notin {"idle", "directories"}
  BY <1>1, <1>3 DEF Achieved, Works
<1> QED
  BY <1>2, <1>3

\* Every step keeps what the play has achieved.
LEMMA AchievedNext ==
  ASSUME TypeOK, Working, TypeOK', Working', Achieved, [Next]_vars
  PROVE  Achieved'
<1>1. ASSUME NEW b \in Builds, NEW mg \in Mgs, StartPlay(b, mg)
      PROVE  Achieved'
  <2>1. /\ play'.at = "directories" /\ play'.build = b /\ Release' = IdOf[b]
        /\ UNCHANGED disk
    BY <1>1 DEF StartPlay, Plan, Release
  <2> QED
    BY <1>1, <2>1 DEF StartPlay, ReusedId, Achieved, OnDisk
<1>2. ASSUME NEW b \in Builds, NEW mg \in Mgs, Reinstall(b, mg)
      PROVE  Achieved'
  <2>1. play'.at = "directories" /\ Release' = IdOf[b]
    BY <1>2 DEF Reinstall, Plan, Release
  <2>2. Release' \notin OnDisk'
    BY <1>2, <2>1, TypedRemove DEF Reinstall
  <2> QED
    BY <2>1, <2>2 DEF Achieved
<1>3. CASE CreateDirectories
  <2>1. /\ play'.at = "unpack" /\ play'.build = play.build /\ Release' = Release
    BY <1>3, GotoType DEF CreateDirectories, Tasks, Release
  <2>2. CASE Release \in OnDisk
    BY <1>3, <2>1, <2>2 DEF CreateDirectories, Achieved, OnDisk
  <2>3. CASE Release \notin OnDisk
    <3>1. disk'[Release].unpacked = "no"
      BY <1>3, <2>3 DEF CreateDirectories, Write
    <3> QED
      BY <2>1, <3>1 DEF Achieved
  <2> QED
    BY <2>2, <2>3
<1>4. CASE Unpack
  <2>1. /\ play'.at = "venv" /\ play'.build = play.build /\ Release' = Release
        /\ Release \in OnDisk
    BY <1>4, GotoType DEF Unpack, Tasks, Release, Working
  <2>2. CASE Skipped
    BY <1>4, <2>1, <2>2 DEF Unpack, Achieved, OnDisk
  <2>3. CASE ~Skipped
    <3>1. disk'[Release].build = play.build
      BY <1>4, <2>1, <2>3 DEF Unpack, Write, Unpacked
    <3> QED
      BY <2>1, <3>1 DEF Achieved
  <2> QED
    BY <2>2, <2>3
<1>5. CASE UnpackInterrupted \/ VenvInterrupted \/ FinishPlay \/ StopPlay
  BY <1>5 DEF UnpackInterrupted, VenvInterrupted, FinishPlay, StopPlay, Idle,
              Achieved
<1>6. CASE CreateVenv
  <2>1. /\ play'.at = "smoke" /\ play'.build = play.build /\ Release' = Release
        /\ Release \in OnDisk /\ disk[Release] \in Directory
    BY <1>6, GotoType DEF CreateVenv, Tasks, Release, Working, TypeOK
  <2>2. CASE disk[Release].venv
    BY <1>6, <2>1, <2>2 DEF CreateVenv, Achieved, OnDisk
  <2>3. CASE ~disk[Release].venv
    <3>1. disk'[Release] = [disk[Release] EXCEPT !.venv = TRUE]
      BY <1>6, <2>1, <2>3 DEF CreateVenv, Write
    <3>2. /\ disk'[Release].venv
          /\ disk'[Release].build = disk[Release].build
          /\ disk'[Release].unpacked = disk[Release].unpacked
      BY <2>1, <3>1 DEF Directory
    <3> QED
      BY <1>6, <2>1, <3>2 DEF CreateVenv, Achieved
  <2> QED
    BY <2>2, <2>3
<1>7. CASE SmokeTest
  <2>1. /\ play'.at = "settings" /\ play'.build = play.build
        /\ play'.mg = play.mg /\ Release' = Release /\ UNCHANGED disk
    BY <1>7, GotoType DEF SmokeTest, Tasks, Release
  <2> QED
    BY <1>7, <2>1 DEF SmokeTest, Achieved, Works, OnDisk
<1>8. CASE WriteSettings
  <2>1. /\ play'.at = "switch" /\ play'.build = play.build
        /\ play'.mg = play.mg /\ Release' = Release /\ UNCHANGED disk
    BY <1>8, GotoType DEF WriteSettings, Tasks, Release
  <2> QED
    BY <1>8, <2>1 DEF WriteSettings, Achieved, Works, OnDisk
<1>9. CASE SwitchCurrent
  <2>1. /\ play'.at = "units" /\ play'.build = play.build
        /\ play'.mg = play.mg /\ Release' = Release /\ UNCHANGED disk
    BY <1>9, GotoType DEF SwitchCurrent, Tasks, Release
  <2> QED
    BY <1>9, <2>1 DEF SwitchCurrent, Achieved, Works, OnDisk
<1>10. CASE InstallUnits
  <2>1. /\ play'.at = "list" /\ play'.build = play.build
        /\ play'.mg = play.mg /\ Release' = Release /\ UNCHANGED disk
    BY <1>10, GotoType DEF InstallUnits, Tasks, Release
  <2> QED
    BY <1>10, <2>1 DEF InstallUnits, Achieved, Works, OnDisk
<1>11. CASE ListReleases
  <2>1. /\ play'.at = "prune" /\ play'.build = play.build
        /\ play'.mg = play.mg /\ Release' = Release /\ UNCHANGED disk
    BY <1>11 DEF ListReleases, Release
  <2> QED
    BY <1>11, <2>1 DEF ListReleases, Achieved, Works, OnDisk
<1>12. ASSUME NEW id \in Ids, RemoveOld(id)
       PROVE  Achieved'
  <2>1. play \in Plans /\ Release \in OnDisk /\ Release # id
    BY <1>12, PlayType DEF RemoveOld, Working
  <2>2. /\ play'.at = play.at /\ play'.build = play.build /\ play'.mg = play.mg
    BY <1>12, <2>1 DEF RemoveOld, Plans
  <2>3. Release \in OnDisk' /\ disk'[Release] = disk[Release]
    BY <1>12, <2>1 DEF RemoveOld, Remove, OnDisk
  <2> QED
    BY <1>12, <2>1, <2>2, <2>3, AchievedStays DEF RemoveOld
<1>13. CASE UNCHANGED <<disk, current, settings, play>>
  BY <1>13, AchievedStays DEF OnDisk, Working
<1>14. ASSUME NEW m \in Modes,
              Spawn(m) \/ Enter(m) \/ Execute(m) \/ Load(m) \/ End(m)
       PROVE  Achieved'
  BY <1>13, <1>14 DEF Spawn, Enter, Execute, Load, End, Change
<1>15. CASE UNCHANGED vars
  BY <1>13, <1>15 DEF vars
<1> QED
  BY <1>1, <1>2, <1>3, <1>4, <1>5, <1>6, <1>7, <1>8, <1>9, <1>10, <1>11, <1>12,
     <1>14, <1>15
  DEF Next, Play

\* The three invariants together.
LEMMA AchievedAlways == Spec => [](TypeOK /\ Working /\ Achieved)
<1>1. Init => TypeOK /\ Working /\ Achieved
  BY TypedInit DEF Init, Idle, Achieved
<1>2. TypeOK /\ Working /\ Achieved /\ [Next]_vars
          => (TypeOK /\ Working /\ Achieved)'
  BY TypedNext, AchievedNext
<1> QED
  BY <1>1, <1>2, PTL DEF Spec

\* A play that gets to its end has installed the build it was given, for any
\* reuse of release ids and any history of broken-off plays.
THEOREM PlayDelivers == Spec => FinishedPlayDelivers
<1>1. TypeOK /\ Working /\ Achieved =>
          (FinishPlay => /\ current = Release
                         /\ settings = play.mg
                         /\ disk[current].unpacked = "full" =>
                               disk[current].build = play.build)
  BY DEF FinishPlay, Achieved, Working
<1> QED
  BY <1>1, AchievedAlways, PTL DEF FinishedPlayDelivers
-----------------------------------------------------------------------------
(* What is live and what runs use, for every reuse of release ids and every *)
(* reinstallation.                                                         *)

Good(id) == Complete(id) /\ disk[id].build \in Tested

CurrentGood == current # None /\ current \notin replaced => Good(current)

RunsGood ==
    \A m \in Modes :
        run[m].dir # None /\ run[m].dir \notin replaced => Good(run[m].dir)

\* A play that is past its smoke test.
Passed ==
    play.at \in {"settings", "switch", "units", "list", "prune"} =>
        Release \notin replaced

Sound == CurrentGood /\ RunsGood /\ Passed

\* Nothing is ever written into a complete directory; it can only go as a whole.
LEMMA CompleteStays ==
  ASSUME TypeOK, Working, [Next]_vars,
         NEW id \in Ids, Complete(id), id \in OnDisk'
  PROVE  disk'[id] = disk[id]
<1>1. ASSUME NEW b \in Builds, NEW mg \in Mgs, StartPlay(b, mg)
      PROVE  disk'[id] = disk[id]
  BY <1>1 DEF StartPlay
<1>2. ASSUME NEW b \in Builds, NEW mg \in Mgs, Reinstall(b, mg)
      PROVE  disk'[id] = disk[id]
  BY <1>2 DEF Reinstall, Remove, OnDisk
<1>3. CASE CreateDirectories
  BY <1>3 DEF CreateDirectories, Write, Complete
<1>4. CASE Unpack
  BY <1>4 DEF Unpack, Skipped, Write, Complete
<1>5. CASE UnpackInterrupted
  BY <1>5 DEF UnpackInterrupted, Skipped, Write, Complete
<1>6. CASE VenvInterrupted
  BY <1>6 DEF VenvInterrupted, Write, Complete
<1>7. CASE CreateVenv
  BY <1>7 DEF CreateVenv, Write, Complete
<1>8. ASSUME NEW x \in Ids, RemoveOld(x)
      PROVE  disk'[id] = disk[id]
  BY <1>8 DEF RemoveOld, Remove, OnDisk
<1>9. CASE UNCHANGED disk
  BY <1>9
<1>10. CASE SmokeTest \/ WriteSettings \/ SwitchCurrent \/ InstallUnits
            \/ ListReleases \/ FinishPlay \/ StopPlay
  BY <1>9, <1>10 DEF SmokeTest, WriteSettings, SwitchCurrent, InstallUnits,
                     ListReleases, FinishPlay, StopPlay
<1>11. ASSUME NEW m \in Modes,
              Spawn(m) \/ Enter(m) \/ Execute(m) \/ Load(m) \/ End(m)
       PROVE  disk'[id] = disk[id]
  BY <1>11 DEF Spawn, Enter, Execute, Load, End, Change
<1>12. CASE UNCHANGED vars
  BY <1>12 DEF vars
<1> QED
  BY <1>1, <1>2, <1>3, <1>4, <1>5, <1>6, <1>7, <1>8, <1>10, <1>11, <1>12
  DEF Next, Play

\* So a good directory that stays, stays good.
LEMMA GoodStays ==
  ASSUME TypeOK, Working, [Next]_vars,
         NEW id \in Ids, Good(id), id \in OnDisk'
  PROVE  Good(id)'
  BY CompleteStays DEF Good, Complete

\* What the play switches to is good, and what passes the smoke test is.
LEMMA ReleaseGood ==
  ASSUME TypeOK, Working, play.at \notin {"idle", "directories"},
         disk[Release].venv, Works
  PROVE  Good(Release)
<1>1. Release \in OnDisk
  BY DEF Working
<1>2. disk[Release].build \in Tested
  <2>1. play.mg \in Mgs /\ <<disk[Release].build, play.mg>> \in Passes
    BY PlayType DEF Works, Plans
  <2>2. disk[Release].build \in Builds
    BY <2>1
  <2> QED
    BY <2>1, <2>2 DEF Tested
<1> QED
  BY <1>1, <1>2 DEF Good, Complete, Works

\* The release of a play that is past its smoke test passed it.
LEMMA PassedNext ==
  ASSUME TypeOK, Working, Passed, [Next]_vars
  PROVE  Passed'
<1>1. CASE play'.at \notin {"settings", "switch", "units", "list", "prune"}
  BY <1>1 DEF Passed
<1>2. CASE SmokeTest
  <2>1. Release' = Release /\ replaced' = replaced \ {Release}
    BY <1>2, GotoType DEF SmokeTest, Tasks, Release
  <2> QED
    BY <2>1 DEF Passed
<1>3. CASE /\ play.at \in {"settings", "switch", "units", "list", "prune"}
           /\ Release' = Release /\ UNCHANGED replaced
  BY <1>3 DEF Passed
<1>4. CASE WriteSettings \/ SwitchCurrent \/ InstallUnits
  <2>1. /\ play.at \in {"settings", "switch", "units"}
        /\ Release' = Release /\ UNCHANGED replaced
    BY <1>4, GotoType
    DEF WriteSettings, SwitchCurrent, InstallUnits, Tasks, Release
  <2> QED
    BY <1>3, <2>1
<1>5. CASE ListReleases
  BY <1>3, <1>5 DEF ListReleases, Release
<1>6. ASSUME NEW id \in Ids, RemoveOld(id)
      PROVE  Passed'
  <2>1. play'.build = play.build
    BY <1>6, PlayType DEF RemoveOld, Plans
  <2> QED
    BY <1>3, <1>6, <2>1 DEF RemoveOld, Release
<1>7. ASSUME NEW b \in Builds, NEW mg \in Mgs,
             StartPlay(b, mg) \/ Reinstall(b, mg)
      PROVE  Passed'
  BY <1>1, <1>7 DEF StartPlay, Reinstall, Plan
<1>8. CASE CreateDirectories \/ Unpack \/ CreateVenv
  <2>1. play'.at \in {"unpack", "venv", "smoke"}
    BY <1>8, GotoType DEF CreateDirectories, Unpack, CreateVenv, Tasks
  <2> QED
    BY <1>1, <2>1
<1>9. CASE UnpackInterrupted \/ VenvInterrupted \/ FinishPlay \/ StopPlay
  BY <1>1, <1>9 DEF UnpackInterrupted, VenvInterrupted, FinishPlay, StopPlay,
                    Idle
<1>10. CASE UNCHANGED <<play, replaced>>
  BY <1>10 DEF Passed, Release
<1>11. ASSUME NEW m \in Modes,
              Spawn(m) \/ Enter(m) \/ Execute(m) \/ Load(m) \/ End(m)
       PROVE  Passed'
  BY <1>10, <1>11 DEF Spawn, Enter, Execute, Load, End, Change
<1> QED
  BY <1>2, <1>4, <1>5, <1>6, <1>7, <1>8, <1>9, <1>10, <1>11 DEF Next, Play, vars

\* `current` moves only to the release of a play that passed the smoke test,
\* and what it points to is removed for --reinstall only.
LEMMA CurrentNext ==
  ASSUME TypeOK, Working, Achieved, Sound, [Next]_vars
  PROVE  /\ CurrentGood'
         /\ current # None => current' # None
         /\ current' # current => current' \notin replaced'
<1>0. /\ current # None => current \in Ids
      /\ current # None /\ current \notin replaced => Good(current)
  BY DEF TypeOK, Sound, CurrentGood
<1>1. CASE /\ UNCHANGED current
           /\ replaced \subseteq replaced'
           /\ current # None /\ current \notin replaced'
                => current \in OnDisk'
  BY <1>0, <1>1, GoodStays DEF CurrentGood
<1>2. CASE SwitchCurrent
  <2>1. /\ Good(Release) /\ Release \in Ids /\ Release \notin replaced
        /\ Release # None
    BY <1>2, ReleaseGood, PlayType DEF SwitchCurrent, Achieved, Sound, Passed
  <2>2. UNCHANGED <<disk, replaced>> /\ current' = Release
    BY <1>2 DEF SwitchCurrent
  <2> QED
    BY <2>1, <2>2 DEF CurrentGood, Good, Complete, OnDisk
<1>3. CASE SmokeTest
  <2>1. Good(Release)
    BY <1>3, ReleaseGood DEF SmokeTest, Achieved
  <2>2. UNCHANGED <<disk, current>> /\ replaced' = replaced \ {Release}
    BY <1>3 DEF SmokeTest
  <2>3. Good(current) => Good(current)'
    BY <2>2 DEF Good, Complete, OnDisk
  <2> QED
    BY <1>0, <2>1, <2>2, <2>3 DEF CurrentGood
<1>4. CASE CreateDirectories \/ Unpack \/ UnpackInterrupted \/ CreateVenv
           \/ VenvInterrupted
  <2>1. UNCHANGED <<current, replaced>> /\ OnDisk \subseteq OnDisk'
    BY <1>4 DEF CreateDirectories, Unpack, UnpackInterrupted, CreateVenv,
                VenvInterrupted, Write, OnDisk
  <2> QED
    BY <1>0, <1>1, <2>1 DEF Good, Complete
<1>5. ASSUME NEW id \in Ids, RemoveOld(id)
      PROVE  /\ UNCHANGED <<current, replaced>>
             /\ current # None => current \in OnDisk'
  BY <1>5 DEF RemoveOld, Remove, OnDisk, Achieved, Working
<1>6. ASSUME NEW b \in Builds, NEW mg \in Mgs, Reinstall(b, mg)
      PROVE  /\ UNCHANGED current /\ replaced \subseteq replaced'
             /\ current # None /\ current \notin replaced'
                  => current \in OnDisk'
  <2>1. /\ replaced' = replaced \cup {IdOf[b]} /\ UNCHANGED current
        /\ OnDisk' = OnDisk \ {IdOf[b]}
    BY <1>6 DEF Reinstall, Remove, OnDisk
  <2> QED
    BY <1>0, <2>1 DEF Good, Complete
<1>7. CASE UNCHANGED <<disk, current, replaced>>
  BY <1>0, <1>1, <1>7 DEF OnDisk, Good, Complete
<1>8. CASE WriteSettings \/ InstallUnits \/ ListReleases
           \/ FinishPlay \/ StopPlay
  BY <1>7, <1>8 DEF WriteSettings, InstallUnits, ListReleases, FinishPlay,
                    StopPlay
<1>9. ASSUME NEW m \in Modes,
             Spawn(m) \/ Enter(m) \/ Execute(m) \/ Load(m) \/ End(m)
      PROVE  UNCHANGED <<disk, current, replaced>>
  BY <1>9 DEF Spawn, Enter, Execute, Load, End, Change
<1>10. ASSUME NEW b \in Builds, NEW mg \in Mgs, StartPlay(b, mg)
       PROVE  UNCHANGED <<disk, current, replaced>>
  BY <1>10 DEF StartPlay
<1> QED
  BY <1>1, <1>2, <1>3, <1>4, <1>5, <1>6, <1>7, <1>8, <1>9, <1>10
  DEF Next, Play, vars

\* A run enters what `current` points to, and keeps it or loses it.
LEMMA RunsNext ==
  ASSUME TypeOK, Working, Achieved, Sound, [Next]_vars
  PROVE  RunsGood'
<1>0. \A m \in Modes : run[m].dir # None /\ run[m].dir \notin replaced =>
          run[m].dir \in Ids /\ Good(run[m].dir) /\ run[m].dir \in OnDisk
  BY DEF TypeOK, Run, Sound, RunsGood, Working
<1>1. CASE UNCHANGED run /\ replaced \subseteq replaced'
           /\ OnDisk \subseteq OnDisk'
  BY <1>0, <1>1, GoodStays DEF RunsGood
<1>2. ASSUME NEW id \in Ids, Remove(id), replaced \subseteq replaced'
      PROVE  RunsGood'
  <2>1. /\ OnDisk' = OnDisk \ {id}
        /\ \A m \in Modes : run'[m].dir = IF run[m].dir = id THEN None
                                         ELSE run[m].dir
    BY <1>2, TypedRemove
  <2> QED
    BY <1>0, <1>2, <2>1, GoodStays DEF RunsGood
<1>3. ASSUME NEW b \in Builds, NEW mg \in Mgs, Reinstall(b, mg)
      PROVE  RunsGood'
  BY <1>2, <1>3 DEF Reinstall
<1>4. ASSUME NEW id \in Ids, RemoveOld(id)
      PROVE  RunsGood'
  BY <1>2, <1>4 DEF RemoveOld
<1>5. CASE SmokeTest
  <2>1. Good(Release)
    BY <1>5, ReleaseGood DEF SmokeTest, Achieved
  <2>2. UNCHANGED <<disk, run>> /\ replaced' = replaced \ {Release}
    BY <1>5 DEF SmokeTest
  <2>3. \A id : Good(id) => Good(id)'
    BY <2>2 DEF Good, Complete, OnDisk
  <2> QED
    BY <1>0, <2>1, <2>2, <2>3 DEF RunsGood
<1>6. ASSUME NEW m \in Modes, NEW r \in Run, Change(m, r),
             r.dir # None /\ r.dir \notin replaced => Good(r.dir)
      PROVE  RunsGood'
  <2>1. /\ \A x \in Modes : run'[x] = IF x = m THEN r ELSE run[x]
        /\ UNCHANGED <<disk, replaced>>
    BY <1>6 DEF Change, TypeOK
  <2>2. \A id : Good(id) => Good(id)'
    BY <2>1 DEF Good, Complete, OnDisk
  <2> QED
    BY <1>0, <1>6, <2>1, <2>2 DEF RunsGood
<1>7. ASSUME NEW m \in Modes,
             Spawn(m) \/ Enter(m) \/ Execute(m) \/ Load(m) \/ End(m)
      PROVE  RunsGood'
  <2>1. /\ Load(m) => run[m].dir \in OnDisk
        /\ NoRun.dir = None
        /\ current # None /\ current \notin replaced => Good(current)
        /\ run[m].dir # None /\ run[m].dir \notin replaced => Good(run[m].dir)
    BY <1>0 DEF Load, NoRun, Working, Sound, CurrentGood
  <2> QED
    BY <1>6, <1>7, <2>1, RunSteps
<1>8. CASE CreateDirectories \/ Unpack \/ UnpackInterrupted \/ CreateVenv
           \/ VenvInterrupted
  BY <1>1, <1>8
  DEF CreateDirectories, Unpack, UnpackInterrupted, CreateVenv, VenvInterrupted,
      Write, OnDisk
<1>9. CASE UNCHANGED <<disk, run, replaced>>
  BY <1>1, <1>9 DEF OnDisk
<1>10. CASE WriteSettings \/ SwitchCurrent \/ InstallUnits \/ ListReleases
            \/ FinishPlay \/ StopPlay
  BY <1>9, <1>10
  DEF WriteSettings, SwitchCurrent, InstallUnits, ListReleases, FinishPlay,
      StopPlay
<1>11. ASSUME NEW b \in Builds, NEW mg \in Mgs, StartPlay(b, mg)
       PROVE  RunsGood'
  BY <1>9, <1>11 DEF StartPlay
<1> QED
  BY <1>3, <1>4, <1>5, <1>7, <1>8, <1>9, <1>10, <1>11 DEF Next, Play, vars

Always == TypeOK /\ Working /\ Achieved /\ Sound

\* At first nothing is installed, running or live.
LEMMA AlwaysInit == Init => Always
<1> SUFFICES ASSUME Init
             PROVE  Always
  OBVIOUS
<1>1. OnDisk = {} /\ play = Idle /\ \A m \in Modes : run[m] = NoRun
  BY DEF Init, OnDisk
<1> QED
  BY <1>1, TypedInit DEF Always, Init, Idle, NoRun, Achieved, Sound, Passed,
                         CurrentGood, RunsGood

\* No step breaks the invariants.
LEMMA AlwaysNext ==
  ASSUME Always, [Next]_vars
  PROVE  Always'
<1>1. TypeOK' /\ Working'
  BY TypedNext DEF Always
<1>2. Achieved'
  BY <1>1, AchievedNext DEF Always
<1>3. Sound'
  BY CurrentNext, RunsNext, PassedNext DEF Always, Sound
<1> QED
  BY <1>1, <1>2, <1>3 DEF Always

\* All invariants together.
LEMMA SoundAlways == Spec => []Always
<1> QED
  BY AlwaysNext, AlwaysInit, PTL DEF Spec

\* `current` always points to a whole, tested release, for every history of
\* plays, failed, repeated or interrupted, and every reuse of ids, unless
\* --reinstall removed it and no play of its id has passed its test since.
THEOREM LiveIsTested == Spec => []LiveReleaseWorks
<1>1. Always => LiveReleaseWorks
  BY DEF Always, Sound, CurrentGood, Good, LiveReleaseWorks
<1> QED
  BY <1>1, SoundAlways, PTL

\* What one start-up step takes from a release is tested.
LEMMA TestedStep ==
  ASSUME Always, NEW m \in Modes
  PROVE  /\ Load(m) => run[m].dir \in replaced \/ run'[m].code \in Tested
         /\ Execute(m) \/ Load(m) =>
               current \in replaced
               \/ run'[m].venvs \ run[m].venvs \subseteq Tested
<1>1. ASSUME NEW r \in Run, Change(m, r)
      PROVE  run'[m] = r
  BY <1>1 DEF Change, Always, TypeOK
<1>2. ASSUME Load(m), run[m].dir \notin replaced
      PROVE  run'[m].code \in Tested
  <2>1. run[m].dir \in OnDisk /\ Good(run[m].dir)
    BY <1>2 DEF Load, Always, Working, Sound, RunsGood
  <2> QED
    BY <1>1, <1>2, <2>1, RunSteps DEF Always, Good
<1>3. ASSUME Execute(m) \/ Load(m), current \notin replaced
      PROVE  run'[m].venvs \ run[m].venvs \subseteq Tested
  <2>1. current # None
    BY <1>3 DEF Execute, Load, HasVenv, Always, TypeOK
  <2>2. disk[current].build \in Tested
    BY <1>3, <2>1 DEF Always, Sound, CurrentGood, Good
  <2>3. Load(m) => run[m].dir \in OnDisk
    BY DEF Load, Always, Working
  <2>4. run'[m].venvs = run[m].venvs \cup {disk[current].build}
    BY <1>1, <1>3, <2>3, RunSteps DEF Always
  <2> QED
    BY <2>2, <2>4
<1> QED
  BY <1>2, <1>3

\* So every starting run takes code and dependencies of tested builds only,
\* however its start interleaves with plays, and although it follows `current`
\* three times.
THEOREM RunsAreTested == Spec => OnlyTestedCodeRuns
<1>1. Always => \A m \in Modes :
          /\ Load(m) => run[m].dir \in replaced \/ run'[m].code \in Tested
          /\ Execute(m) \/ Load(m) =>
                current \in replaced
                \/ run'[m].venvs \ run[m].venvs \subseteq Tested
  BY TestedStep
<1> QED
  BY <1>1, SoundAlways, PTL DEF OnlyTestedCodeRuns

\* What the invariants say of a step: what is live stays, is replaced, or
\* becomes a tested build.
LEMMA LiveStep ==
  ASSUME Always, Always', [Next]_vars
  PROVE  [Live!Next]_<<LiveBuild, current \in replaced>>
<1>1. CASE current' = None
  <2>1. current = None
    BY <1>1, CurrentNext DEF Always
  <2>2. (current \in replaced) = FALSE /\ (current' \in replaced') = FALSE
    BY <1>1, <2>1 DEF Always, TypeOK
  <2> QED
    BY <1>1, <2>1, <2>2 DEF LiveBuild
<1>2. CASE current' # None /\ current' \notin replaced'
  <2>1. LiveBuild' = disk'[current'].build /\ LiveBuild' \in Tested
    BY <1>2 DEF Always, Sound, CurrentGood, Good, LiveBuild, Tested
  <2>2. (current' \in replaced') = FALSE
    BY <1>2
  <2> QED
    BY <2>1, <2>2 DEF Live!Next, Live!GoLive
<1>3. CASE current' # None /\ current' \in replaced'
  <2>1. current' = current
    BY <1>3, CurrentNext DEF Always
  <2>2. LiveBuild' = None /\ (current' \in replaced') = TRUE
    BY <1>3 DEF LiveBuild
  <2>3. CASE current \in replaced
    <3>1. LiveBuild = None /\ (current \in replaced) = TRUE
      BY <2>3 DEF LiveBuild
    <3> QED
      BY <2>2, <3>1
  <2>4. CASE current \notin replaced
    <3>1. Good(current)
      BY <1>3, <2>1, <2>4 DEF Always, Sound, CurrentGood
    <3>2. LiveBuild # None
      BY <1>3, <2>1, <2>4, <3>1 DEF LiveBuild, Good, Tested
    <3> QED
      BY <2>2, <3>2 DEF Live!Next, Live!Replace
  <2> QED
    BY <2>3, <2>4
<1> QED
  BY <1>1, <1>2, <1>3

\* At first nothing is live.
LEMMA LiveInit == Init => Live!Init
  BY DEF Init, Live!Init, LiveBuild

\* The role implements LiveRelease: what is live changes only to a tested build
\* and is lost for --reinstall only.
THEOREM RoleImplementsLive == Spec => ImplementsLive
<1>1. Always /\ Always' /\ [Next]_vars
          => [Live!Next]_<<LiveBuild, current \in replaced>>
  BY LiveStep
<1> QED
  BY <1>1, LiveInit, SoundAlways, PTL DEF Spec, Live!Spec, ImplementsLive
-----------------------------------------------------------------------------
(* When --reinstall never does anything: with one build per id, as         *)
(* vm-install.sh names them.                                               *)

\* A directory holds the build its name says.
Named ==
    \A id \in OnDisk : disk[id].unpacked # "no" =>
        disk[id].build \in Builds /\ IdOf[disk[id].build] = id

\* With one build per id install.sh never meets a reused one.
LEMMA NoReuse ==
  ASSUME Named, OneBuildPerId, NEW b \in Builds
  PROVE  ~ReusedId(b)
  BY DEF Named, OneBuildPerId, ReusedId

\* Every directory keeps its name's build.
LEMMA NamedNext ==
  ASSUME TypeOK, Working, Named, OneBuildPerId, [Next]_vars
  PROVE  Named'
<1> USE DEF Named
<1>1. CASE UNCHANGED disk
  BY <1>1 DEF OnDisk
<1>2. ASSUME NEW b \in Builds, NEW mg \in Mgs,
             StartPlay(b, mg) \/ Reinstall(b, mg)
      PROVE  Named'
  <2>1. ~ReusedId(b)
    BY NoReuse
  <2> QED
    BY <1>1, <1>2, <2>1 DEF StartPlay, Reinstall
<1>3. CASE CreateDirectories
  <2>1. CASE Release \in OnDisk
    BY <1>1, <1>3, <2>1 DEF CreateDirectories
  <2>2. CASE Release \notin OnDisk
    BY <1>3, <2>2 DEF CreateDirectories, Write, OnDisk
  <2> QED
    BY <2>1, <2>2
<1>4. ASSUME NEW how \in {"no", "part", "unsigned", "full"},
             Write(Release, Unpacked(how)),
             play.at # "idle"
      PROVE  Named'
  <2>1. play.build \in Builds /\ Release = IdOf[play.build]
    BY <1>4, PlayType DEF Plans, Release
  <2>2. Unpacked(how).build = play.build
    BY DEF Unpacked
  <2> QED
    BY <1>4, <2>1, <2>2 DEF Write, OnDisk
<1>5. CASE Unpack
  BY <1>1, <1>4, <1>5 DEF Unpack
<1>6. CASE UnpackInterrupted
  BY <1>4, <1>6 DEF UnpackInterrupted
<1>7. CASE VenvInterrupted
  BY <1>7 DEF VenvInterrupted, Write, OnDisk, Working
<1>8. CASE CreateVenv
  <2>1. Release \in OnDisk /\ disk[Release] \in Directory
    BY <1>8 DEF CreateVenv, Working, TypeOK
  <2> DEFINE d == [disk[Release] EXCEPT !.venv = TRUE]
  <2>2. d.build = disk[Release].build /\ d.unpacked = disk[Release].unpacked
    BY <2>1 DEF Directory
  <2>3. CASE Write(Release, d)
    <3> HIDE DEF d
    <3> QED
      BY <2>1, <2>2, <2>3 DEF Write, OnDisk
  <2> QED
    BY <1>1, <1>8, <2>3 DEF CreateVenv
<1>9. ASSUME NEW x \in Ids, RemoveOld(x)
      PROVE  Named'
  BY <1>9 DEF RemoveOld, Remove, OnDisk
<1>10. CASE SmokeTest \/ WriteSettings \/ SwitchCurrent \/ InstallUnits
            \/ ListReleases \/ FinishPlay \/ StopPlay
  BY <1>1, <1>10 DEF SmokeTest, WriteSettings, SwitchCurrent, InstallUnits,
                     ListReleases, FinishPlay, StopPlay
<1>11. ASSUME NEW m \in Modes,
              Spawn(m) \/ Enter(m) \/ Execute(m) \/ Load(m) \/ End(m)
       PROVE  Named'
  BY <1>1, <1>11 DEF Spawn, Enter, Execute, Load, End, Change
<1>12. CASE UNCHANGED vars
  BY <1>1, <1>12 DEF vars
<1> QED
  BY <1>2, <1>3, <1>5, <1>6, <1>7, <1>8, <1>9, <1>10, <1>11, <1>12
  DEF Next, Play

\* While a release id names one build --reinstall replaces nothing, so what is
\* said above holds of every release without exception.
THEOREM NothingReplaced ==
  ASSUME OneBuildPerId
  PROVE  Spec => [](replaced = {})
<1>1. Init => Named /\ replaced = {}
  <2> SUFFICES ASSUME Init
               PROVE  Named /\ replaced = {}
    OBVIOUS
  <2>1. OnDisk = {}
    BY DEF Init, OnDisk
  <2> QED
    BY <2>1 DEF Init, Named
<1>2. TypeOK /\ Working /\ Named /\ replaced = {} /\ [Next]_vars
          => (Named /\ replaced = {})'
  <2> SUFFICES ASSUME TypeOK, Working, Named, replaced = {}, [Next]_vars
               PROVE  Named' /\ replaced' = {}
    OBVIOUS
  <2>1. Named'
    BY NamedNext
  <2>2. \A b \in Builds, mg \in Mgs : ~Reinstall(b, mg)
    BY NoReuse DEF Reinstall
  <2>3. replaced' \subseteq replaced
    BY <2>2
    DEF Next, Play, StartPlay, CreateDirectories, Unpack, UnpackInterrupted,
        CreateVenv, VenvInterrupted, SmokeTest, WriteSettings, SwitchCurrent,
        InstallUnits, ListReleases, RemoveOld, FinishPlay, StopPlay, Spawn,
        Enter, Execute, Load, End, Change, vars
  <2> QED
    BY <2>1, <2>3
<1>3. Spec => [](TypeOK /\ Working /\ Achieved)
  BY AchievedAlways
<1> QED
  BY <1>1, <1>2, <1>3, PTL DEF Spec
-----------------------------------------------------------------------------
(* When a run's configuration is tested, too.  LoadedConfigWasTested fails *)
(* when a VM is moved to another management group; this is what it takes.  *)

\* A build's configuration is fit for every group or for none: so it is on a
\* VM that stays with one group.
GroupsAlike ==
    \A b \in Builds : \A m, n \in Mgs :
        <<b, m>> \in Passes => <<b, n>> \in Passes

\* Timers are started over settings, and a run has those it was started with.
Grouped ==
    /\ timers => settings \in Mgs
    /\ \A m \in Modes : run[m].at # "idle" => run[m].mg \in Mgs

\* Runs keep the group they were started for.
LEMMA GroupedNext ==
  ASSUME TypeOK, Working, Achieved, Grouped, [Next]_vars
  PROVE  Grouped'
<1>0. play # Idle => play.mg \in Mgs
  BY DEF TypeOK
<1>1. ASSUME NEW m \in Modes, NEW r, Change(m, r),
             r.at # "idle" => r.mg \in Mgs
      PROVE  Grouped'
  <2>1. \A x \in Modes : run'[x] = IF x = m THEN r ELSE run[x]
    BY <1>1 DEF Change, TypeOK
  <2> QED
    BY <1>1, <2>1 DEF Change, Grouped
<1>2. ASSUME NEW m \in Modes,
             Spawn(m) \/ Enter(m) \/ Execute(m) \/ Load(m) \/ End(m)
      PROVE  Grouped'
  <2>1. /\ Load(m) => run[m].dir \in OnDisk
        /\ Spawn(m) => settings \in Mgs
        /\ Enter(m) \/ Execute(m) \/ Load(m) => run[m].mg \in Mgs
        /\ NoRun.at = "idle"
    BY DEF Load, Spawn, Enter, Execute, NoRun, Working, Grouped
  <2> QED
    BY <1>1, <1>2, <2>1, RunSteps
<1>3. ASSUME NEW id, Remove(id), UNCHANGED <<settings, timers>>
      PROVE  Grouped'
  <2>1. ASSUME NEW m \in Modes
        PROVE  run'[m].at = run[m].at /\ run'[m].mg = run[m].mg
    <3>1. run[m] \in Run /\ run'[m] = IF run[m].dir = id
                                      THEN [run[m] EXCEPT !.dir = None]
                                      ELSE run[m]
      BY <1>3 DEF Remove, TypeOK
    <3> QED
      BY <3>1 DEF Run
  <2> QED
    BY <1>3, <2>1 DEF Grouped
<1>4. CASE WriteSettings
  BY <1>0, <1>4 DEF WriteSettings, Grouped, Idle
<1>5. CASE InstallUnits
  <2>1. settings = play.mg /\ play.mg \in Mgs
    BY <1>0, <1>5 DEF InstallUnits, Achieved, Idle
  <2> QED
    BY <1>5, <2>1 DEF InstallUnits, Grouped
<1>6. CASE UNCHANGED <<settings, timers, run>>
  BY <1>6 DEF Grouped
<1>7. CASE Play
  BY <1>3, <1>4, <1>5, <1>6, <1>7
  DEF Play, StartPlay, Reinstall, CreateDirectories, Unpack, UnpackInterrupted,
      CreateVenv, VenvInterrupted, SmokeTest, SwitchCurrent, ListReleases,
      RemoveOld, FinishPlay, StopPlay
<1> QED
  BY <1>2, <1>6, <1>7 DEF Next, vars

\* While nothing is replaced, what runs was tested.
CodeTested ==
    \A m \in Modes : run[m].at = "running" => run[m].code \in Tested

\* Loading keeps it so, and nothing else changes what runs.
LEMMA CodeNext ==
  ASSUME Always, CodeTested, replaced = {}, [Next]_vars
  PROVE  CodeTested'
<1>1. ASSUME NEW m \in Modes, NEW r \in Run, Change(m, r),
             r.at = "running" => r.code \in Tested
      PROVE  CodeTested'
  <2>1. \A x \in Modes : run'[x] = IF x = m THEN r ELSE run[x]
    BY <1>1 DEF Change, Always, TypeOK
  <2> QED
    BY <1>1, <2>1 DEF CodeTested
<1>2. ASSUME NEW m \in Modes,
             Spawn(m) \/ Enter(m) \/ Execute(m) \/ Load(m) \/ End(m)
      PROVE  CodeTested'
  <2>1. /\ Load(m) => run[m].dir \in OnDisk /\ Good(run[m].dir)
        /\ NoRun.at = "idle"
    BY DEF Load, NoRun, Always, Working, Sound, RunsGood
  <2> QED
    BY <1>1, <1>2, <2>1, RunSteps DEF Always, Good
<1>3. ASSUME NEW id, Remove(id)
      PROVE  CodeTested'
  <2>1. ASSUME NEW m \in Modes
        PROVE  run'[m].at = run[m].at /\ run'[m].code = run[m].code
    <3>1. run[m] \in Run /\ run'[m] = IF run[m].dir = id
                                      THEN [run[m] EXCEPT !.dir = None]
                                      ELSE run[m]
      BY <1>3 DEF Remove, Always, TypeOK
    <3> QED
      BY <3>1 DEF Run
  <2> QED
    BY <2>1 DEF CodeTested
<1>4. CASE UNCHANGED run
  BY <1>4 DEF CodeTested
<1>5. CASE Play
  BY <1>3, <1>4, <1>5
  DEF Play, StartPlay, Reinstall, CreateDirectories, Unpack, UnpackInterrupted,
      CreateVenv, VenvInterrupted, SmokeTest, WriteSettings, SwitchCurrent,
      InstallUnits, ListReleases, RemoveOld, FinishPlay, StopPlay
<1> QED
  BY <1>2, <1>4, <1>5 DEF Next, vars

\* On a VM that stays with one management group, or whose groups all accept
\* the same builds, every run loads a configuration that the smoke test
\* accepted with its code, whatever plays go on meanwhile.
THEOREM ConfigTested ==
  ASSUME OneBuildPerId, GroupsAlike
  PROVE  Spec => []LoadedConfigWasTested
<1>1. Init => Grouped /\ CodeTested
  BY DEF Init, Grouped, CodeTested, NoRun
<1>2. Always /\ Grouped /\ CodeTested /\ replaced = {} /\ [Next]_vars
          => (Grouped /\ CodeTested)'
  BY GroupedNext, CodeNext DEF Always
<1>3. Grouped /\ CodeTested => LoadedConfigWasTested
  <2> SUFFICES ASSUME Grouped, CodeTested,
                      NEW m \in Modes, run[m].at = "running"
               PROVE  <<run[m].code, run[m].mg>> \in Passes
    BY DEF LoadedConfigWasTested
  <2>1. run[m].code \in Tested /\ run[m].mg \in Mgs
    BY DEF CodeTested, Grouped
  <2> QED
    BY <2>1 DEF Tested, GroupsAlike
<1> QED
  BY <1>1, <1>2, <1>3, SoundAlways, NothingReplaced, PTL DEF Spec
-----------------------------------------------------------------------------
(* Disk use.                                                               *)

\* R puts the members of S in a row.
InARow(S, R) ==
    /\ \A a, b \in S : a # b => <<a, b>> \in R \/ <<b, a>> \in R
    /\ \A a, b \in S : <<a, b>> \in R => <<b, a>> \notin R
    /\ \A a, b, c \in S : <<a, b>> \in R /\ <<b, c>> \in R => <<a, c>> \in R

After(S, R, a) == {x \in S : <<a, x>> \in R}

\* The members with fewer than k after them.
Last(S, R, k) == {a \in S : Cardinality(After(S, R, a)) < k}

\* Directories have ages; what the play leaves is bounded once it has listed
\* what it will remove.
Dated == InARow(OnDisk, older)

Kept == OnDisk \ play.doomed

Pruned ==
    play.at = "prune" =>
        \/ Cardinality(Kept) <= KeepReleases
        \/ /\ Cardinality(Kept) = KeepReleases + 1
           /\ \A id \in Kept \ {Release} : <<Release, id>> \in older

\* Directories can be counted.
LEMMA DirectorySets ==
    \A S \in SUBSET Ids : IsFiniteSet(S) /\ Cardinality(S) \in Nat
  BY FS_Subset, FS_CardinalityType

\* A set of naturals that is not empty has a least element.
LEMMA LeastNatural ==
    ASSUME NEW S \in SUBSET Nat, S # {}
    PROVE  \E m \in S : \A n \in S : m <= n
<1>1. PICK m \in S : \A n \in S : <<n, m>> \notin OpToRel(<, Nat)
  BY NatLessThanWellFounded, WFMin
<1>2. \A n \in S : ~(n < m)
  BY <1>1 DEF OpToRel
<1> QED
  BY <1>2

\* Of a row, at most k have fewer than k after them.
LEMMA LastFew ==
    ASSUME NEW S \in SUBSET Ids, NEW R, NEW k \in Nat, InARow(S, R)
    PROVE  Cardinality(Last(S, R, k)) <= k
<1> DEFINE L == Last(S, R, k)
           n(a) == Cardinality(After(S, R, a))
           Room == {k - n(a) : a \in L}
<1>1. \A a \in S : After(S, R, a) \in SUBSET Ids /\ n(a) \in Nat
  BY DirectorySets DEF After
<1>2. L \subseteq S /\ \A a \in L : n(a) < k
  BY DEF Last
<1>3. CASE L = {}
  BY <1>3, FS_EmptySet
<1>4. CASE L # {}
  <2>1. Room \in SUBSET Nat /\ Room # {}
    <3>1. ASSUME NEW a \in L PROVE k - n(a) \in Nat
      <4>1. n(a) \in Nat /\ n(a) < k
        BY <1>1, <1>2
      <4> HIDE DEF n
      <4> QED
        BY <4>1
    <3> QED
      BY <1>4, <3>1
  <2>2. PICK least \in Room : \A i \in Room : least <= i
    BY <2>1, LeastNatural
  <2>3. PICK a \in L : least = k - n(a)
    BY <2>2
  <2>4. \A b \in L : n(b) <= n(a)
    <3> SUFFICES ASSUME NEW b \in L PROVE n(b) <= n(a)
      OBVIOUS
    <3>1. k - n(a) <= k - n(b)
      BY <2>2, <2>3
    <3>2. n(a) \in Nat /\ n(b) \in Nat
      BY <1>1, <1>2
    <3> HIDE DEF n
    <3> QED
      BY <3>1, <3>2
  <2>5. L \subseteq After(S, R, a) \cup {a}
    <3> SUFFICES ASSUME NEW b \in L, b # a, <<a, b>> \notin R
                 PROVE  FALSE
      BY <1>2 DEF After
    <3>1. a \in S /\ b \in S /\ <<b, a>> \in R
      BY <1>2 DEF InARow
    <3>2. After(S, R, a) \cup {a} \subseteq After(S, R, b)
      BY <3>1 DEF After, InARow
    <3>3. a \notin After(S, R, a)
      BY <3>1 DEF After, InARow
    <3>4. IsFiniteSet(After(S, R, a)) /\ IsFiniteSet(After(S, R, b))
      BY <1>1, <3>1, DirectorySets
    <3>5. Cardinality(After(S, R, a) \cup {a}) = n(a) + 1
      BY <3>3, <3>4, FS_AddElement
    <3>6. n(a) + 1 <= n(b)
      BY <3>2, <3>4, <3>5, FS_Subset
    <3>7. n(b) <= n(a) /\ n(a) \in Nat /\ n(b) \in Nat
      BY <1>1, <2>4, <3>1
    <3> HIDE DEF n
    <3> QED
      BY <3>6, <3>7
  <2>6. IsFiniteSet(After(S, R, a)) /\ IsFiniteSet(After(S, R, a) \cup {a})
    BY <1>1, <1>2, DirectorySets, FS_AddElement
  <2>7. Cardinality(After(S, R, a) \cup {a}) <= n(a) + 1
    <3>1. n(a) \in Nat
      BY <1>1, <1>2
    <3>2. Cardinality(After(S, R, a) \cup {a}) = n(a)
            \/ Cardinality(After(S, R, a) \cup {a}) = n(a) + 1
      BY <2>6, FS_AddElement
    <3> HIDE DEF n
    <3> QED
      BY <3>1, <3>2
  <2>8. /\ Cardinality(L) <= Cardinality(After(S, R, a) \cup {a})
        /\ Cardinality(L) \in Nat
        /\ Cardinality(After(S, R, a) \cup {a}) \in Nat
    BY <1>2, <2>5, <2>6, FS_Subset, FS_CardinalityType, DirectorySets
  <2>9. n(a) < k /\ n(a) \in Nat
    BY <1>1, <1>2
  <2> HIDE DEF n, L
  <2>10. Cardinality(L) <= k
    BY <2>7, <2>8, <2>9
  <2> QED
    BY <2>10 DEF L
<1> QED
  BY <1>3, <1>4

\* What is neither old nor the release itself is at most KeepReleases; if the
\* release comes on top of that many, it is older than all of them.
LEMMA ListedFew ==
    ASSUME TypeOK, Dated, Release \in OnDisk
    PROVE  \/ Cardinality(OnDisk \ Doomed) <= KeepReleases
           \/ /\ Cardinality(OnDisk \ Doomed) = KeepReleases + 1
              /\ \A id \in (OnDisk \ Doomed) \ {Release} :
                    <<Release, id>> \in older
<1> DEFINE N == Last(OnDisk, older, KeepReleases)
           n(a) == Cardinality(After(OnDisk, older, a))
<1>1. OnDisk \in SUBSET Ids /\ KeepReleases \in Nat
  BY KeepAssumption DEF TypeOK
<1>2. Cardinality(N) <= KeepReleases
  BY <1>1, LastFew DEF Dated
<1>3. N \in SUBSET Ids /\ N \subseteq OnDisk
  BY <1>1 DEF Last
<1>4. \A id \in OnDisk : n(id) \in Nat
  BY <1>1, DirectorySets DEF After
<1>5. OnDisk \ Doomed = N \cup {Release}
  <2>1. ASSUME NEW id \in OnDisk
        PROVE  id \in Old <=> id \notin N
    <3>1. id \in Old <=> n(id) >= KeepReleases
      BY DEF Old, After
    <3>2. id \in N <=> n(id) < KeepReleases
      BY DEF Last
    <3>3. n(id) \in Nat
      BY <1>4
    <3> HIDE DEF n, N
    <3> QED
      BY <1>1, <3>1, <3>2, <3>3
  <2> HIDE DEF N
  <2> QED
    BY <1>3, <2>1 DEF Doomed
<1>6. IsFiniteSet(N) /\ Cardinality(N) \in Nat
  BY <1>3, DirectorySets
<1>7. CASE Release \in N
  <2>1. OnDisk \ Doomed = N
    BY <1>5, <1>7
  <2> QED
    BY <1>2, <2>1
<1>8. CASE Release \notin N
  <2>1. ASSUME NEW id \in N
        PROVE  <<Release, id>> \in older
    <3> SUFFICES ASSUME <<Release, id>> \notin older
                 PROVE  FALSE
      OBVIOUS
    <3>1. id # Release /\ id \in OnDisk
      BY <1>3, <1>8
    <3>2. <<id, Release>> \in older
      BY <3>1 DEF Dated, InARow
    <3>3. After(OnDisk, older, Release) \subseteq After(OnDisk, older, id)
      BY <3>1, <3>2 DEF After, Dated, InARow
    <3>4. /\ IsFiniteSet(After(OnDisk, older, id))
          /\ n(Release) <= n(id)
      BY <1>1, <3>3, DirectorySets, FS_Subset DEF After
    <3>5. n(id) < KeepReleases
      BY DEF Last
    <3>6. n(Release) \in Nat /\ n(id) \in Nat
      BY <1>4, <3>1
    <3>7. n(Release) < KeepReleases
      <4> HIDE DEF n
      <4> QED
        BY <1>1, <3>4, <3>5, <3>6
    <3> QED
      BY <1>8, <3>7 DEF Last
  <2>2. Cardinality(N \cup {Release}) = Cardinality(N) + 1
    BY <1>6, <1>8, FS_AddElement
  <2> HIDE DEF N
  <2>3. \/ Cardinality(OnDisk \ Doomed) <= KeepReleases
        \/ Cardinality(OnDisk \ Doomed) = KeepReleases + 1
    <3>1. Cardinality(OnDisk \ Doomed) = Cardinality(N) + 1
      BY <1>5, <2>2
    <3> QED
      BY <1>1, <1>2, <1>6, <3>1
  <2> QED
    BY <1>5, <2>1, <2>3
<1> QED
  BY <1>7, <1>8

\* A directory that is written becomes the newest of the row.
LEMMA DatedWrite ==
    ASSUME TypeOK, Dated, NEW id \in Ids, NEW d \in Directory, Write(id, d)
    PROVE  Dated'
<1>1. OnDisk' = OnDisk \cup {id} /\ older \subseteq OnDisk \X OnDisk
  BY TypedWrite DEF TypeOK
<1>2. \A a, b : <<a, b>> \in older' <=>
          \/ <<a, b>> \in older /\ id \notin {a, b}
          \/ b = id /\ a \in OnDisk \ {id}
  <2> TAKE a, b
  <2>1. <<a, b>>[1] = a /\ <<a, b>>[2] = b
    OBVIOUS
  <2>2. <<a, b>> \in {<<other, id>> : other \in OnDisk \ {id}}
            <=> b = id /\ a \in OnDisk \ {id}
    OBVIOUS
  <2> QED
    BY <2>1, <2>2 DEF Write, Touched
<1> QED
  BY <1>1, <1>2 DEF Dated, InARow

\* A directory that is removed leaves the others in their row.
LEMMA DatedRemove ==
    ASSUME TypeOK, Dated, NEW id \in Ids, Remove(id)
    PROVE  Dated'
<1>1. OnDisk' = OnDisk \ {id}
  BY TypedRemove
<1>2. \A a, b \in OnDisk' : <<a, b>> \in older' <=> <<a, b>> \in older
  <2> TAKE a, b \in OnDisk'
  <2>1. <<a, b>>[1] = a /\ <<a, b>>[2] = b
    OBVIOUS
  <2> QED
    BY <1>1, <2>1 DEF Remove
<1> QED
  BY <1>1, <1>2 DEF Dated, InARow

\* Every step keeps the directories in a row and, from the listing to the end
\* of the play, what will be left of them bounded.
LEMMA PrunedNext ==
  ASSUME TypeOK, Working, TypeOK', Dated, Pruned, [Next]_vars
  PROVE  Dated' /\ Pruned'
<1>1. ASSUME UNCHANGED <<disk, older>>, play'.at # "prune"
      PROVE  Dated' /\ Pruned'
  BY <1>1 DEF Dated, OnDisk, Pruned
<1>2. ASSUME NEW d \in Directory, play.at # "idle", Write(Release, d),
             play'.at # "prune"
      PROVE  Dated' /\ Pruned'
  BY <1>2, PlayType, DatedWrite DEF Pruned
<1>3. ASSUME NEW b \in Builds, NEW mg \in Mgs, StartPlay(b, mg)
      PROVE  Dated' /\ Pruned'
  BY <1>1, <1>3 DEF StartPlay, Plan
<1>4. ASSUME NEW b \in Builds, NEW mg \in Mgs, Reinstall(b, mg)
      PROVE  Dated' /\ Pruned'
  BY <1>4, DatedRemove DEF Reinstall, Plan, Pruned
<1>5. CASE CreateDirectories
  <2>1. play'.at = "unpack" /\ play.at # "idle"
    BY <1>5, GotoType DEF CreateDirectories, Tasks
  <2>2. [build |-> None, unpacked |-> "no", venv |-> FALSE] \in Directory
    BY DEF Directory
  <2> QED
    BY <1>1, <1>2, <1>5, <2>1, <2>2 DEF CreateDirectories
<1>6. CASE Unpack
  <2>1. play'.at = "venv" /\ play.at # "idle"
    BY <1>6, GotoType DEF Unpack, Tasks
  <2>2. Unpacked("full") \in Directory
    BY <1>6, PlayType DEF Unpack, Unpacked, Directory, TypeOK, Plans, Working
  <2> QED
    BY <1>1, <1>2, <1>6, <2>1, <2>2 DEF Unpack
<1>7. CASE UnpackInterrupted
  <2>1. \A how \in {"no", "part", "unsigned"} : Unpacked(how) \in Directory
    BY <1>7, PlayType DEF UnpackInterrupted, Unpacked, Directory, TypeOK,
                          Plans, Working
  <2> QED
    BY <1>2, <1>7, <2>1 DEF UnpackInterrupted, Idle
<1>8. CASE VenvInterrupted
  <2>1. disk[Release] \in Directory
    BY <1>8 DEF VenvInterrupted, Working, TypeOK
  <2> QED
    BY <1>2, <1>8, <2>1 DEF VenvInterrupted, Idle
<1>9. CASE CreateVenv
  <2>1. play'.at = "smoke" /\ play.at # "idle"
    BY <1>9, GotoType DEF CreateVenv, Tasks
  <2>2. disk[Release] \in Directory
    BY <1>9 DEF CreateVenv, Working, TypeOK
  <2>3. [disk[Release] EXCEPT !.venv = TRUE] \in Directory
    BY <2>2 DEF Directory
  <2> QED
    BY <1>1, <1>2, <1>9, <2>1, <2>3 DEF CreateVenv
<1>10. CASE SmokeTest \/ WriteSettings \/ SwitchCurrent \/ InstallUnits
  <2>1. play'.at # "prune" /\ UNCHANGED <<disk, older>>
    BY <1>10, GotoType DEF SmokeTest, WriteSettings, SwitchCurrent,
                           InstallUnits, Tasks
  <2> QED
    BY <1>1, <2>1
<1>11. CASE ListReleases
  <2>1. /\ UNCHANGED <<disk, older>> /\ play'.doomed = Doomed
        /\ Release' = Release
    BY <1>11 DEF ListReleases, Release
  <2>2. Release \in OnDisk
    BY <1>11 DEF ListReleases, Working
  <2>3. Kept' = OnDisk \ Doomed
    BY <2>1 DEF Kept, OnDisk
  <2> QED
    BY <2>1, <2>2, <2>3, ListedFew DEF Dated, OnDisk, Pruned
<1>12. ASSUME NEW id \in Ids, RemoveOld(id)
       PROVE  Dated' /\ Pruned'
  <2>1. /\ play \in Plans /\ play.at = "prune" /\ id \in play.doomed
        /\ Release # id /\ Remove(id)
    BY <1>12, PlayType DEF RemoveOld, Working
  <2>2. /\ OnDisk' = OnDisk \ {id} /\ play'.doomed = play.doomed \ {id}
        /\ Release' = Release
    BY <1>12, <2>1, TypedRemove DEF RemoveOld, Plans, Release
  <2>3. Kept' = Kept /\ id \notin Kept
    BY <2>1, <2>2 DEF Kept
  <2>4. ASSUME NEW x \in Kept, <<Release, x>> \in older
        PROVE  <<Release, x>> \in older'
    <3>1. <<Release, x>>[1] = Release /\ <<Release, x>>[2] = x /\ x # id
      BY <2>3
    <3> QED
      BY <2>1, <2>4, <3>1 DEF Remove
  <2> QED
    BY <1>12, <2>1, <2>2, <2>3, <2>4, DatedRemove DEF Pruned
<1>13. CASE FinishPlay \/ StopPlay
  BY <1>1, <1>13 DEF FinishPlay, StopPlay, Idle
<1>14. CASE UNCHANGED <<disk, older, play>>
  BY <1>14 DEF Dated, OnDisk, Pruned, Kept, Release
<1>15. ASSUME NEW m \in Modes,
              Spawn(m) \/ Enter(m) \/ Execute(m) \/ Load(m) \/ End(m)
       PROVE  Dated' /\ Pruned'
  BY <1>14, <1>15 DEF Spawn, Enter, Execute, Load, End, Change
<1>16. CASE UNCHANGED vars
  BY <1>14, <1>16 DEF vars
<1> QED
  BY <1>3, <1>4, <1>5, <1>6, <1>7, <1>8, <1>9, <1>10, <1>11, <1>12, <1>13,
     <1>15, <1>16
  DEF Next, Play

\* A play that ends by itself leaves KeepReleases directories or fewer; one more
\* only if that is the release it installed, an older one than all of them (the
\* last two tasks of tasks/main.yml), whatever was broken off, reinstalled or
\* played again before.
THEOREM DiskUseBounded == Spec => DiskBound
<1>1. Init => Dated /\ Pruned
  BY DEF Init, Dated, InARow, OnDisk, Pruned, Idle
<1>2. TypeOK /\ Working /\ TypeOK' /\ Dated /\ Pruned /\ [Next]_vars
          => (Dated /\ Pruned)'
  BY PrunedNext
<1>3. Pruned =>
        (FinishPlay =>
            \/ Cardinality(OnDisk) <= KeepReleases
            \/ /\ Cardinality(OnDisk) = KeepReleases + 1
               /\ \A id \in OnDisk \ {Release} : <<Release, id>> \in older)
  <2> SUFFICES ASSUME Pruned, FinishPlay
               PROVE  \/ Cardinality(OnDisk) <= KeepReleases
                      \/ /\ Cardinality(OnDisk) = KeepReleases + 1
                         /\ \A id \in OnDisk \ {Release} :
                               <<Release, id>> \in older
    OBVIOUS
  <2>1. Kept = OnDisk
    BY DEF FinishPlay, Kept
  <2> QED
    BY <2>1 DEF FinishPlay, Pruned
<1>4. Spec => [](TypeOK /\ Working /\ Achieved)
  BY AchievedAlways
<1> QED
  BY <1>1, <1>2, <1>3, <1>4, PTL DEF Spec, DiskBound
=============================================================================
