-------------------------- MODULE HiMigratorProofs --------------------------
(* What HiMigrator promises, for every pair of delays with the timer's the *)
(* shorter one, every number of attempts and every number of resets.       *)
EXTENDS HiMigrator, TLAPS

-----------------------------------------------------------------------------
(* Type correctness.                                                       *)

LEMMA TypeInit == Init => TypeOK
  <1>. SUFFICES ASSUME Init PROVE TypeOK
    OBVIOUS
  <1>1. /\ region \in [Region -> {"old", "new", "torn"}]
        /\ slot \in [Slot -> {"migrator", "legacy", "firmware", "torn"}]
        /\ otaState \in [Slot -> {"new", "pending", "valid", "aborted"}]
        /\ bootAt \in Slot /\ running \in Slot
    BY DEF Init
  <1>2. /\ job \in [region : Region, restoring : BOOLEAN, attempt : 1 .. Attempts]
        /\ delay \in 0 .. CommitTicks /\ timer \in -1 .. TimerTicks
        /\ faults \in 0 .. MaxFaults
    BY TimeAssumption, AttemptsAssumption, FaultAssumption, SMT
       DEF Init, NoJob, Region
  <1>3. /\ brownout \in BOOLEAN /\ checked \in BOOLEAN
        /\ isNew \in [Region -> BOOLEAN]
        /\ run \in [Runner -> {"none", "check", "begin", "write", "restart"}]
    BY DEF Init, NoRuns
  <1>4. /\ main = "off" /\ stage \in Stage /\ commit = "none"
        /\ torn = "no" /\ rolledBack = "no"
    BY DEF Init, Stage
  <1>. QED  BY <1>1, <1>2, <1>3, <1>4 DEF TypeOK

\* A reset, of any cause, keeps the types.
LEMMA TypeReset ==
    ASSUME TypeOK, Reset, brownout' \in BOOLEAN, faults' \in 0 .. MaxFaults,
           torn' \in {"no", "cut", "restore"}
    PROVE  TypeOK'
  <1>1. NoJob \in [region : Region, restoring : BOOLEAN, attempt : 1 .. Attempts]
    BY AttemptsAssumption DEF NoJob, Region
  <1>2. delay' \in 0 .. CommitTicks /\ timer' \in -1 .. TimerTicks
    BY TimeAssumption DEF Reset
  <1>. QED  BY <1>1, <1>2 DEF TypeOK, Reset, flash, NoRuns, Stage

\* So does every step of the commit.
LEMMA TypeCommit == TypeOK /\ CommitStep => TypeOK'
  <1>. SUFFICES ASSUME TypeOK, CommitStep PROVE TypeOK'
    OBVIOUS
  <1>. DEFINE Job == [region : Region, restoring : BOOLEAN,
                      attempt : 1 .. Attempts]
              Ok  == /\ region' \in [Region -> {"old", "new", "torn"}]
                     /\ stage' \in {stage, "error"}
                     /\ isNew' \in [Region -> BOOLEAN]
                     /\ commit' \in {"none", "erase", "program", "failed",
                                     "verified", "restart"}
                     /\ job' \in Job
                     /\ torn' \in {torn, "restore"}
  <1>0. /\ job \in Job /\ region \in [Region -> {"old", "new", "torn"}]
        /\ isNew \in [Region -> BOOLEAN]
    BY DEF TypeOK
  <1>1. \A r \in Region, back \in BOOLEAN :
           [region |-> r, restoring |-> back, attempt |-> 1] \in Job
    BY AttemptsAssumption
  <1>2. CASE Backup
    <2>1. FirstRegion \in Region
      BY DEF FirstRegion, Region
    <2>2. CommitFrame /\ Ok
      BY <1>0, <1>1, <1>2, <2>1, Zenon DEF Backup, GiveUp, Finish, Write
    <2>. QED  BY <2>2 DEF TypeOK, CommitFrame, Stage
  <1>3. CASE Erase
    BY <1>0, <1>3 DEF Erase, TypeOK, CommitFrame
  <1>4. CASE Program
    BY <1>0, <1>4 DEF Program, Target, TypeOK, CommitFrame
  <1>5. CASE Failed
    <2>1. [job EXCEPT !.attempt = @ + 1] \in Job \/ ~MoreAttempts
      BY <1>0, AttemptsAssumption DEF MoreAttempts
    <2>2. job.region \in Region
      BY <1>0
    <2>3. CommitFrame /\ Ok
      BY <1>0, <1>1, <1>5, <2>1, <2>2, Zenon DEF Failed, GiveUp, Write
    <2>. QED  BY <2>3 DEF TypeOK, CommitFrame, Stage
  <1>6. CASE NoMemory
    <2>1. job.region \in Region
      BY <1>0
    <2>2. CommitFrame /\ Ok
      BY <1>0, <1>1, <1>6, <2>1, Zenon DEF NoMemory, GiveUp, Write
    <2>. QED  BY <2>2 DEF TypeOK, CommitFrame, Stage
  <1>7. CASE Verified
    <2>1. [isNew EXCEPT ![job.region] = TRUE] \in [Region -> BOOLEAN]
          /\ "bootloader" \in Region
      BY <1>0 DEF Region
    <2>2. /\ CommitFrame /\ region' = region /\ torn' = torn
          /\ isNew' \in {isNew, [isNew EXCEPT ![job.region] = TRUE]}
          /\ job' \in {job, [region |-> "bootloader", restoring |-> FALSE,
                            attempt |-> 1]}
          /\ commit' \in {"none", "erase", "restart"}
          /\ stage' \in {stage, "error"}
      BY <1>7, SMT DEF Verified, GiveUp, Finish, Write
    <2>3. [region |-> "bootloader", restoring |-> FALSE, attempt |-> 1] \in Job
      BY <1>1, <2>1
    <2>4. isNew' \in [Region -> BOOLEAN] /\ job' \in Job
      BY <1>0, <2>1, <2>2, <2>3
    <2>. QED  BY <2>2, <2>4 DEF TypeOK, CommitFrame, Stage
  <1>8. CASE CommitRestart
    BY <1>8, TypeReset DEF CommitRestart, Restart, TypeOK
  <1>. QED
    BY <1>2, <1>3, <1>4, <1>5, <1>6, <1>7, <1>8 DEF CommitStep

\* So does the end of hi_migrator_run().
LEMMA TypeEnter ==
    ASSUME TypeOK, NEW s \in Stage, Enter(s), checked' \in BOOLEAN,
           run' \in [Runner -> {"none", "check", "begin", "write", "restart"}]
    PROVE  TypeOK'
  BY DEF Enter, TypeOK, flash

LEMMA TypeNext == TypeOK /\ [Next]_vars => TypeOK'
  <1>. SUFFICES ASSUME TypeOK, [Next]_vars PROVE TypeOK'
    OBVIOUS
  <1>. USE TimeAssumption
  <1>0. \A s \in Slot : Other(s) \in Slot
    BY DEF Slot, Other
  <1>1. CASE Bootloader
    <2>1. bootAt' \in Slot /\ running' \in Slot
      BY <1>0, <1>1 DEF TypeOK, Bootloader, Chosen
    <2>2. otaState' \in [Slot -> {"new", "pending", "valid", "aborted"}]
      BY <1>1 DEF TypeOK, Bootloader
    <2>3. main' \in {"migrator", "legacy", "firmware"}
      <3>1. slot[running'] # "torn"
        <4>1. Chosen \in Slot
          BY <1>0 DEF TypeOK, Chosen
        <4>. QED  BY <1>1, <4>1 DEF Bootloader, Whole, Slot, Other
      <3>2. slot[running'] \in {"migrator", "legacy", "firmware", "torn"}
        BY <2>1 DEF TypeOK
      <3>3. main' = slot[running']
        BY <1>1, Zenon DEF Bootloader
      <3>. QED  BY <3>1, <3>2, <3>3
    <2>. QED
      BY <1>1, <2>1, <2>2, <2>3 DEF TypeOK, Bootloader, tasks, Stage
  <1>2. CASE Derive
    BY <1>2 DEF TypeOK, Derive, tasks, history
  <1>3. CASE EnterInstall
    <2>1. \E s \in {"error", "installing"} : Enter(s)
      BY <1>3 DEF EnterInstall
    <2>2. checked' \in BOOLEAN
          /\ run' \in [Runner -> {"none", "check", "begin", "write", "restart"}]
      BY <1>3 DEF EnterInstall, TypeOK
    <2>. QED  BY <2>1, <2>2, TypeEnter DEF Stage
  <1>4. CASE InstallCheck
    BY <1>4 DEF TypeOK, InstallCheck, flash, history, Stage
  <1>5. CASE EnterError \/ EnterChecked \/ RelocateFail
    <2>1. /\ \E s \in {"error", "ready", "not_ready"} : Enter(s)
          /\ run' = run /\ checked' \in BOOLEAN
      BY <1>5 DEF TypeOK, EnterError, EnterChecked, RelocateFail
    <2>2. run' \in [Runner -> {"none", "check", "begin", "write", "restart"}]
      BY <2>1 DEF TypeOK
    <2>. QED  BY <2>1, <2>2, TypeEnter DEF Stage
  <1>6. CASE EnterRelocate
    BY <1>6 DEF TypeOK, EnterRelocate, flash, tasks, history, Stage
  <1>7. CASE RelocateErase \/ RelocateSelect
    <2>1. CASE RelocateErase
      BY <2>1 DEF TypeOK, RelocateErase, tasks, history, Slot
    <2>2. CASE RelocateSelect
      BY <2>2 DEF TypeOK, RelocateSelect, tasks, history, Slot
    <2>. QED  BY <1>7, <2>1, <2>2
  <1>8. CASE RelocateRestart \/ TimerFires \/ FirmwareRestart
             \/ \E r \in Runner : OtaRestart(r)
    <2>1. Restart
      BY <1>8 DEF RelocateRestart, TimerFires, FirmwareRestart, OtaRestart
    <2>. QED  BY <2>1, TypeReset DEF Restart, TypeOK
  <1>9. CASE Cut
    <2>1. Reset /\ brownout' \in BOOLEAN /\ faults' \in 0 .. MaxFaults
          /\ torn' \in {"no", "cut", "restore"}
      BY <1>9, FaultAssumption DEF Cut, TypeOK
    <2>. QED  BY <2>1, TypeReset
  <1>10. CASE CommitStep
    BY <1>10, TypeCommit
  <1>11. CASE Commit
    BY <1>11 DEF TypeOK, Commit, flash, history, Stage
  <1>12. CASE Su
    <2>1. run' \in [Runner -> {"none", "check", "begin", "write", "restart"}]
      BY <1>12 DEF TypeOK, Su
    <2>2. rolledBack' \in {"no", "bootloader", "health"}
          /\ UNCHANGED <<flash, main, running, brownout, stage, isNew, commit,
                         job, delay, timer, faults, checked, torn>>
      BY <1>12 DEF Su
    <2>. QED  BY <2>1, <2>2 DEF TypeOK, flash
  <1>13. CASE Reboot
    <2>1. timer' \in -1 .. TimerTicks
      BY <1>13 DEF TypeOK, Reboot
    <2>2. UNCHANGED <<flash, main, running, brownout, stage, isNew, tasks,
                      faults, history>>
      BY <1>13, Zenon DEF Reboot
    <2>. QED  BY <2>1, <2>2 DEF TypeOK, flash, tasks, history
  <1>14. CASE Tick
    <2>1. delay \in 0 .. CommitTicks /\ timer \in -1 .. TimerTicks
      BY DEF TypeOK
    <2>2. delay' \in 0 .. CommitTicks /\ timer' \in -1 .. TimerTicks
      BY <1>14, <2>1 DEF Tick
    <2>3. UNCHANGED <<flash, main, running, brownout, stage, isNew, commit,
                      job, run, faults, history>>
      BY <1>14, Zenon DEF Tick
    <2>. QED  BY <2>2, <2>3 DEF TypeOK, flash, history
  <1>15. CASE \E r \in Runner : OtaWrite(r) \/ OtaFail(r) \/ OtaSelect(r)
    <2>1. PICK r \in Runner : OtaWrite(r) \/ OtaFail(r) \/ OtaSelect(r)
      BY <1>15
    <2>2. CASE OtaWrite(r)
      BY <1>0, <2>2 DEF TypeOK, OtaWrite, OtaFrame, history
    <2>3. CASE OtaFail(r)
      BY <2>3 DEF TypeOK, OtaFail, OtaFrame, history
    <2>4. CASE OtaSelect(r)
      BY <1>0, <2>4 DEF TypeOK, OtaSelect, OtaFrame, history
    <2>. QED  BY <2>1, <2>2, <2>3, <2>4
  <1>16. CASE FirmwareConfirm \/ FirmwareVerified \/ FirmwareRollback
    <2>1. CASE FirmwareConfirm
      BY <1>0, <2>1 DEF TypeOK, FirmwareConfirm, FirmwareFrame, tasks
    <2>2. CASE FirmwareVerified
      BY <1>0, <2>2 DEF TypeOK, FirmwareVerified, FirmwareFrame, tasks
    <2>3. CASE FirmwareRollback
      BY <1>0, <2>3 DEF TypeOK, FirmwareRollback, FirmwareFrame, tasks
    <2>. QED  BY <1>16, <2>1, <2>2, <2>3
  <1>17. CASE UNCHANGED vars
    BY <1>17 DEF TypeOK, vars
  <1>. QED
    BY <1>1, <1>2, <1>3, <1>4, <1>5, <1>6, <1>7, <1>8, <1>9, <1>10, <1>11,
       <1>12, <1>13, <1>14, <1>15, <1>16, <1>17
       DEF Next, MainStep, OtaStep, FirmwareStep

\* Every variable stays in its type.
THEOREM TypeCorrect == Spec => []TypeOK
  <1>. QED  BY TypeInit, TypeNext, PTL DEF Spec

-----------------------------------------------------------------------------
(* The stages.  What runs beside what is decided by s_stage: a commit has  *)
(* the stage to itself, downloads belong to the last two stages, and       *)
(* nothing of either exists before hi_migrator_run() has returned.         *)

StageInv ==
    /\ main # "serving" => /\ stage \in {"boot", "relocating"}
                           /\ commit = "none" /\ run = NoRuns
    /\ stage = "ready" => checked /\ running = "ota1"
    /\ commit # "none" => stage = "committing" /\ checked /\ running = "ota1"
    /\ \A r \in Runner : run[r] # "none" =>
            stage \in {"installing", "waiting_manual"}

LEMMA StageInit == Init => StageInv
  BY DEF Init, StageInv, NoRuns

LEMMA StageNext == TypeOK /\ StageInv /\ [Next]_vars => StageInv'
  <1>. SUFFICES ASSUME TypeOK, StageInv, [Next]_vars PROVE StageInv'
    OBVIOUS
  <1>. USE DEF StageInv
  <1>0. /\ run \in [Runner -> {"none", "check", "begin", "write", "restart"}]
        /\ "install" \in Runner /\ "su" \in Runner
        /\ \A r \in Runner : NoRuns[r] = "none"
    BY DEF TypeOK, Runner, NoRuns
  <1>1. CASE Bootloader
    BY <1>1 DEF Bootloader, tasks
  <1>2. CASE Derive
    BY <1>2 DEF Derive, tasks, history
  <1>3. CASE EnterInstall
    BY <1>0, <1>3 DEF EnterInstall, Enter, flash
  <1>4. CASE InstallCheck
    BY <1>0, <1>4 DEF InstallCheck, flash, history
  <1>5. CASE EnterError \/ EnterChecked \/ RelocateFail
    BY <1>0, <1>5 DEF EnterError, EnterChecked, RelocateFail, Enter, flash
  <1>6. CASE EnterRelocate \/ RelocateErase \/ RelocateSelect
    BY <1>6 DEF EnterRelocate, RelocateErase, RelocateSelect, flash, tasks,
                history
  <1>7. CASE Reset
    BY <1>0, <1>7 DEF Reset
  <1>8. CASE CommitStep
    <2>1. CASE CommitRestart
      BY <1>7, <2>1 DEF CommitRestart, Restart
    <2>2. ASSUME ~CommitRestart
          PROVE  /\ CommitFrame /\ commit # "none"
                 /\ stage' = stage \/ (stage' = "error" /\ commit' = "none")
      BY <1>8, <2>2
         DEF CommitStep, Backup, Erase, Program, Failed, NoMemory, Verified,
             Write, Finish, GiveUp
    <2>. QED  BY <2>1, <2>2 DEF CommitFrame
  <1>9. CASE Commit
    BY <1>9 DEF Commit, flash, history
  <1>10. CASE Su
    BY <1>0, <1>10 DEF Su, flash
  <1>11. CASE Reboot \/ Tick
    BY <1>11 DEF Reboot, Tick, flash, tasks, history
  <1>12. CASE \E r \in Runner : OtaWrite(r) \/ OtaFail(r) \/ OtaSelect(r)
    BY <1>0, <1>12 DEF OtaWrite, OtaFail, OtaSelect, OtaFrame, history
  <1>13. CASE FirmwareConfirm \/ FirmwareVerified \/ FirmwareRollback
    BY <1>13 DEF FirmwareConfirm, FirmwareVerified, FirmwareRollback,
                 FirmwareFrame, tasks
  <1>14. CASE UNCHANGED vars
    BY <1>14 DEF vars
  <1>. QED
    BY <1>1, <1>2, <1>3, <1>4, <1>5, <1>6, <1>7, <1>8, <1>9, <1>10, <1>11,
       <1>12, <1>13, <1>14
       DEF Next, MainStep, OtaStep, FirmwareStep, RelocateRestart, TimerFires,
           FirmwareRestart, OtaRestart, Restart, Cut

\* The two timers.  A restart asked for before the commit was accepted comes
\* before the commit's delay is over, and none is armed while it writes.
TimeInv ==
    /\ commit = "delay" /\ timer >= 0 => timer < delay
    /\ Writing \/ commit = "restart" => timer = -1

LEMMA TimeInit == Init => TimeInv
  BY DEF Init, TimeInv, Writing

LEMMA TimeNext == TypeOK /\ StageInv /\ TimeInv /\ [Next]_vars => TimeInv'
  <1>. SUFFICES ASSUME TypeOK, StageInv, TimeInv, [Next]_vars PROVE TimeInv'
    OBVIOUS
  <1>. USE DEF TimeInv, Writing
  <1>0. timer \in -1 .. TimerTicks /\ delay \in 0 .. CommitTicks
    BY DEF TypeOK
  <1>1. CASE Reset
    BY <1>1 DEF Reset
  <1>2. CASE CommitStep
    <2>1. CASE Backup
      <3>1. timer = -1 /\ timer' = timer /\ commit' # "delay"
        BY <1>0, <2>1, TimeAssumption
           DEF Backup, GiveUp, Finish, Write, CommitFrame
      <3>. QED  BY <3>1
    <2>2. CASE CommitRestart
      BY <1>1, <2>2 DEF CommitRestart, Restart
    <2>3. CASE Erase \/ Program \/ Failed \/ NoMemory \/ Verified
      <3>1. Writing /\ timer' = timer /\ commit' # "delay"
        BY <2>3 DEF Erase, Program, Failed, NoMemory, Verified, Write, Finish,
                    GiveUp, CommitFrame
      <3>. QED  BY <3>1
    <2>. QED  BY <1>2, <2>1, <2>2, <2>3 DEF CommitStep
  <1>3. CASE Commit
    BY <1>0, <1>3, TimeAssumption DEF Commit
  <1>4. CASE Reboot
    BY <1>4 DEF Reboot, tasks, StageInv
  <1>5. CASE Tick
    BY <1>0, <1>5, TimeAssumption DEF Tick
  <1>6. ASSUME UNCHANGED <<commit, delay, timer>> PROVE TimeInv'
    BY <1>6
  <1>7. CASE Bootloader \/ Derive \/ EnterInstall \/ InstallCheck
             \/ EnterError \/ EnterChecked \/ EnterRelocate
             \/ RelocateErase \/ RelocateFail \/ RelocateSelect
    BY <1>6, <1>7
       DEF Bootloader, Derive, EnterInstall, InstallCheck, EnterError,
           EnterChecked, EnterRelocate, RelocateErase, RelocateFail,
           RelocateSelect, Enter, tasks
  <1>8. CASE FirmwareConfirm \/ FirmwareVerified \/ FirmwareRollback
    BY <1>6, <1>8 DEF FirmwareConfirm, FirmwareVerified, FirmwareRollback,
                      FirmwareFrame, tasks
  <1>9. CASE Su \/ \E r \in Runner : OtaWrite(r) \/ OtaFail(r) \/ OtaSelect(r)
    BY <1>6, <1>9 DEF Su, OtaWrite, OtaFail, OtaSelect, OtaFrame
  <1>10. CASE UNCHANGED vars
    BY <1>6, <1>10 DEF vars
  <1>. QED
    BY <1>1, <1>2, <1>3, <1>4, <1>5, <1>7, <1>8, <1>9, <1>10
       DEF Next, MainStep, OtaStep, FirmwareStep, RelocateRestart, TimerFires,
           FirmwareRestart, OtaRestart, Restart, Cut

-----------------------------------------------------------------------------
(* The regions.  The flags say what the flash holds, but for the moment    *)
(* between a verified write and its flag; the region being written is one  *)
(* whose flag is off, and the other one is at the layout that goes with    *)
(* it: the old bootloader under a table that changes, the new table under  *)
(* a bootloader that changes.                                              *)

RegionInv ==
    /\ TableFirst
    /\ \A r \in Region : region[r] = "torn" =>
            torn # "no" \/ (Writing /\ job.region = r)
    /\ commit = "verified" => region[job.region] = Target
    /\ \A r \in Region : isNew[r] => region[r] = "new"
    /\ Http => \A r \in Region :
            \/ isNew[r] \/ region[r] # "new"
            \/ commit = "verified" /\ job.region = r
    /\ Writing =>
            /\ ~isNew[job.region]
            /\ job.region = "table" => region["bootloader"] = "old"
            /\ job.region = "bootloader" => region["table"] = "new"

LEMMA RegionInit == Init => RegionInv
  BY DEF Init, RegionInv, TableFirst, Writing, Http, Region

LEMMA RegionNext ==
    TypeOK /\ StageInv /\ TimeInv /\ RegionInv /\ [Next]_vars => RegionInv'
  <1>. SUFFICES ASSUME TypeOK, StageInv, TimeInv, RegionInv, [Next]_vars
                PROVE  RegionInv'
    OBVIOUS
  <1>. USE DEF RegionInv, TableFirst, Writing, Region
  <1>0. /\ region \in [Region -> {"old", "new", "torn"}]
        /\ isNew \in [Region -> BOOLEAN]
        /\ job.region \in Region
    BY DEF TypeOK
  <1>1. CASE Reset /\ UNCHANGED torn /\ ~Writing
    BY <1>1 DEF Reset, flash, Http
  <1>2. CASE Cut
    <2>1. \/ torn' # "no"
          \/ torn' = torn /\ \A r \in Region : region[r] # "torn"
      BY <1>2 DEF Cut, Bootable
    <2>. QED  BY <1>2, <2>1 DEF Cut, Reset, flash, Http
  <1>3. CASE Derive
    BY <1>0, <1>3 DEF Derive, tasks, history, Http, StageInv
  <1>4. ASSUME UNCHANGED <<region, isNew, torn, commit, job>>, Http' => Http
        PROVE  RegionInv'
    BY <1>4 DEF Target
  <1>5. CASE Bootloader
    <2>1. main' # "derive" /\ ~Http'
      <3>1. main' \in {slot["low"], slot["ota1"]}
        BY <1>5 DEF TypeOK, Bootloader, Chosen, Slot, Other
      <3>. QED  BY <3>1 DEF TypeOK, Slot, Http
    <2>. QED  BY <1>4, <1>5, <2>1 DEF Bootloader, tasks
  <1>6. CASE EnterInstall \/ InstallCheck \/ EnterError \/ EnterChecked
             \/ EnterRelocate \/ RelocateErase \/ RelocateFail
             \/ RelocateSelect
    <2>1. Http \/ run["install"] = "check"
      BY <1>6 DEF EnterInstall, InstallCheck, EnterError, EnterChecked,
                  EnterRelocate, RelocateErase, RelocateFail, RelocateSelect,
                  Http
    <2>2. Http
      BY <2>1 DEF StageInv, NoRuns, Runner, Http
    <2>. QED
      BY <1>4, <1>6, <2>2
         DEF EnterInstall, InstallCheck, EnterError, EnterChecked,
             EnterRelocate, RelocateErase, RelocateFail, RelocateSelect,
             Enter, flash, tasks, history
  <1>7. CASE Commit
    BY <1>0, <1>7 DEF Commit, flash, history, Http, StageInv, Target
  <1>8. CASE Su \/ Reboot \/ Tick
    BY <1>4, <1>8 DEF Su, Reboot, Tick, Http, flash, tasks, history
  <1>9. CASE \E r \in Runner : OtaWrite(r) \/ OtaFail(r) \/ OtaSelect(r)
    BY <1>4, <1>9 DEF OtaWrite, OtaFail, OtaSelect, OtaFrame, history, Http
  <1>10. CASE FirmwareConfirm \/ FirmwareVerified \/ FirmwareRollback
    BY <1>4, <1>10 DEF FirmwareConfirm, FirmwareVerified, FirmwareRollback,
                       FirmwareFrame, tasks, Http
  <1>11. CASE Backup
    BY <1>0, <1>11 DEF Backup, FirstRegion, AllNew, GiveUp, Finish, Write,
                       CommitFrame, Http, StageInv
  <1>12. CASE Erase
    BY <1>0, <1>12 DEF Erase, CommitFrame, Http, StageInv
  <1>13. CASE Program
    BY <1>0, <1>13 DEF Program, Target, CommitFrame, Http, StageInv
  <1>14. CASE Failed
    <2>1. job'.region = job.region /\ main' = main /\ main = "serving"
      <3>1. [job EXCEPT !.attempt = @ + 1].region = job.region
        BY DEF TypeOK
      <3>2. job' \in {job, [job EXCEPT !.attempt = @ + 1],
                      [region |-> job.region, restoring |-> TRUE, attempt |-> 1]}
        BY <1>14, SMT DEF Failed, GiveUp, Write
      <3>3. main' = main /\ main = "serving"
        BY <1>14 DEF Failed, CommitFrame, StageInv
      <3>4. job'.region = job.region
        <4>. DEFINE again == [job EXCEPT !.attempt = @ + 1]
                    back == [region |-> job.region, restoring |-> TRUE,
                             attempt |-> 1]
        <4>1. again.region = job.region /\ back.region = job.region
          BY <3>1
        <4>2. job' = job \/ job' = again \/ job' = back
          BY <3>2
        <4>. HIDE DEF again, back
        <4>. QED  BY <4>1, <4>2
      <3>. QED  BY <3>3, <3>4
    <2>2. /\ region' = region /\ isNew' = isNew
          /\ \/ commit' = "erase" /\ torn' = torn
             \/ commit' = "none" /\ torn' = IF torn = "no" THEN "restore" ELSE torn
      BY <1>14 DEF Failed, GiveUp, Write
    <2>. QED  BY <1>0, <1>14, <2>1, <2>2 DEF Failed, Http
  <1>15. CASE NoMemory
    BY <1>0, <1>15 DEF NoMemory, GiveUp, Write, CommitFrame, Http, StageInv
  <1>16. CASE Verified
    BY <1>0, <1>16 DEF Verified, Target, GiveUp, Finish, Write, CommitFrame,
                       Http, StageInv
  <1>17. CASE UNCHANGED vars
    BY <1>4, <1>17 DEF vars, Http
  <1>18. CASE RelocateRestart \/ TimerFires \/ FirmwareRestart \/ CommitRestart
              \/ \E r \in Runner : OtaRestart(r)
    <2>1. Reset /\ UNCHANGED torn
      BY <1>18 DEF RelocateRestart, TimerFires, FirmwareRestart,
                   CommitRestart, OtaRestart, Restart
    <2>2. ~Writing
      BY <1>18 DEF RelocateRestart, TimerFires, FirmwareRestart,
                   CommitRestart, OtaRestart, StageInv, TimeInv
    <2>. QED  BY <1>1, <2>1, <2>2
  <1>. QED
    BY <1>2, <1>3, <1>5, <1>6, <1>7, <1>8, <1>9, <1>10, <1>11, <1>12, <1>13,
       <1>14, <1>15, <1>16, <1>17, <1>18
       DEF Next, MainStep, CommitStep, OtaStep, FirmwareStep

IInv == TypeOK /\ StageInv /\ TimeInv /\ RegionInv

LEMMA Inductive ==
    /\ Init => IInv
    /\ IInv /\ [Next]_vars => IInv'
  BY TypeInit, TypeNext, StageInit, StageNext, TimeInit, TimeNext,
     RegionInit, RegionNext DEF IInv

\* No restart of the code's own meets a torn region: only a cut, or a restore
\* that failed as often as the write before it.
THEOREM OnlyCutsUnboot == Spec => []UnbootableOnlyByCut
  <1>1. IInv => UnbootableOnlyByCut
    BY DEF IInv, RegionInv, UnbootableOnlyByCut, Bootable
  <1>. QED  BY Inductive, <1>1, PTL DEF Spec

\* No new bootloader meets an old table.
THEOREM TableComesFirst == Spec => []TableFirst
  <1>1. IInv => TableFirst
    BY DEF IInv, RegionInv
  <1>. QED  BY Inductive, <1>1, PTL DEF Spec

\* Nothing is written before the checks of this boot passed.
THEOREM ChecksBeforeWrites == Spec => WritesChecked
  <1>1. IInv /\ [Next]_vars =>
            [region' # region =>
                checked /\ running = "ota1" /\ stage = "committing"]_vars
    <2>. SUFFICES ASSUME IInv, Next, region' # region
                  PROVE  checked /\ running = "ota1" /\ stage = "committing"
      BY DEF vars
    <2>1. Erase \/ Program
      BY DEF Next, MainStep, CommitStep, OtaStep, FirmwareStep, Bootloader,
             Derive, EnterInstall, InstallCheck, EnterError, EnterChecked,
             EnterRelocate, RelocateErase, RelocateFail, RelocateSelect,
             RelocateRestart, Enter, Backup, Failed, NoMemory, Verified,
             CommitRestart, OtaWrite, OtaFail, OtaSelect, OtaRestart,
             OtaFrame, FirmwareConfirm, FirmwareVerified, FirmwareRollback,
             FirmwareRestart, FirmwareFrame, Commit, Su, Reboot, TimerFires,
             Tick, Cut, Restart, Reset, flash
    <2>2. commit # "none"
      BY <2>1 DEF Erase, Program
    <2>. QED  BY <2>2 DEF IInv, StageInv
  <1>. QED  BY Inductive, <1>1, PTL DEF Spec, WritesChecked

-----------------------------------------------------------------------------
(* The slots.  The migrator's own slot is not written while it runs, and   *)
(* the two stages with downloads are entered on the new layout only.       *)

SlotInv ==
    /\ stage \in {"installing", "waiting_manual"} => AllNew /\ running = "ota1"
    /\ Http \/ main = "migrator" => slot[running] = "migrator"
    /\ main \in {"copy", "copying", "copied"} => running = "low"

LEMMA SlotInit == Init => SlotInv
  BY DEF Init, SlotInv, Http

LEMMA SlotNext == IInv /\ SlotInv /\ [Next]_vars => SlotInv'
  <1>. SUFFICES ASSUME IInv, SlotInv, [Next]_vars PROVE SlotInv'
    OBVIOUS
  <1>. USE DEF SlotInv, Http, AllNew
  <1>0. /\ running \in Slot /\ StageInv
        /\ slot \in [Slot -> {"migrator", "legacy", "firmware", "torn"}]
        /\ isNew \in [Region -> BOOLEAN]
    BY DEF IInv, TypeOK
  <1>1. CASE Bootloader
    <2>1. /\ stage' = "boot" /\ slot' = slot /\ main' = slot[running']
          /\ running' \in Slot
      BY <1>0, <1>1 DEF IInv, TypeOK, Bootloader, Chosen, Slot, Other
    <2>. QED  BY <1>0, <2>1
  <1>2. CASE Derive
    BY <1>2 DEF Derive, tasks, history, IInv, StageInv
  <1>3. CASE EnterInstall \/ EnterError \/ EnterChecked \/ RelocateFail
    BY <1>3 DEF EnterInstall, EnterError, EnterChecked, RelocateFail, Enter,
                flash
  <1>4. CASE InstallCheck
    <2>1. stage \in {"installing", "waiting_manual"}
      BY <1>0, <1>4 DEF InstallCheck, StageInv, Runner
    <2>. QED  BY <1>4, <2>1 DEF InstallCheck, flash, history
  <1>5. CASE EnterRelocate
    BY <1>0, <1>5 DEF EnterRelocate, flash, tasks, history, Slot
  <1>6. CASE RelocateErase \/ RelocateSelect
    BY <1>0, <1>6 DEF RelocateErase, RelocateSelect, StageInv, tasks, history,
                      Slot
  <1>7. CASE Reset
    BY <1>7 DEF Reset, flash
  <1>8. CASE CommitStep
    <2>1. CASE CommitRestart
      BY <1>7, <2>1 DEF CommitRestart, Restart
    <2>2. ASSUME ~CommitRestart
          PROVE  /\ CommitFrame /\ commit # "none"
                 /\ stage' = stage \/ stage' = "error"
      BY <1>8, <2>2
         DEF CommitStep, Backup, Erase, Program, Failed, NoMemory, Verified,
             Write, Finish, GiveUp
    <2>3. stage = "committing"
      BY <1>0, <1>8 DEF StageInv, CommitStep, Backup, Erase, Program, Failed,
                        NoMemory, Verified, CommitRestart
    <2>. QED  BY <2>1, <2>2, <2>3 DEF CommitFrame
  <1>9. CASE Commit \/ Su \/ Reboot \/ Tick
    BY <1>9 DEF Commit, Su, Reboot, Tick, flash, tasks, history
  <1>10. CASE \E r \in Runner : OtaWrite(r) \/ OtaFail(r) \/ OtaSelect(r)
    <2>1. Other(running) \in Slot /\ Other(running) # running
      BY <1>0 DEF Slot, Other
    <2>2. /\ slot'[running] = slot[running]
          /\ UNCHANGED <<main, running, stage, isNew>>
      BY <1>0, <1>10, <2>1 DEF OtaWrite, OtaFail, OtaSelect, OtaFrame
    <2>. QED  BY <2>2
  <1>11. CASE FirmwareConfirm \/ FirmwareVerified \/ FirmwareRollback
    BY <1>11 DEF FirmwareConfirm, FirmwareVerified, FirmwareRollback,
                 FirmwareFrame, tasks
  <1>12. CASE UNCHANGED vars
    BY <1>12 DEF vars
  <1>. QED
    BY <1>1, <1>2, <1>3, <1>4, <1>5, <1>6, <1>7, <1>8, <1>9, <1>10, <1>11,
       <1>12
       DEF Next, MainStep, OtaStep, FirmwareStep, RelocateRestart, TimerFires,
           FirmwareRestart, OtaRestart, Restart, Cut

\* A download only ever runs on the new layout, beside a migrator that is
\* whole.
THEOREM DownloadsOnNewLayout == Spec => []OtaOnNewLayout
  <1>1. Init => IInv /\ SlotInv
    BY Inductive, SlotInit
  <1>2. (IInv /\ SlotInv) /\ [Next]_vars => (IInv /\ SlotInv)'
    BY Inductive, SlotNext
  <1>3. IInv /\ SlotInv => OtaOnNewLayout
    <2>. SUFFICES ASSUME IInv, SlotInv, NEW r \in Runner, run[r] # "none"
                  PROVE  /\ \A g \in Region : region[g] = "new"
                         /\ running = "ota1" /\ slot["ota1"] = "migrator"
      BY DEF OtaOnNewLayout
    <2>1. stage \in {"installing", "waiting_manual"} /\ main = "serving"
      BY DEF IInv, StageInv, NoRuns
    <2>. QED  BY <2>1 DEF IInv, RegionInv, SlotInv, AllNew, Http
  <1>. QED  BY <1>1, <1>2, <1>3, PTL DEF Spec

-----------------------------------------------------------------------------
(* The way back.  What may be started under a table that is not the old    *)
(* one: firmware is on the new table only and has no legacy image beside   *)
(* it; a legacy image that is still in the low slot is not selected, and   *)
(* the migrator in the other one is confirmed.                             *)

Confirmed == bootAt = "ota1" /\ otaState["ota1"] = "valid"

KeptInv ==
    /\ MigratorKept
    /\ main \in {"firmware", "confirmed", "installed", "rolled_back"} =>
            slot[running] = "firmware"
    /\ (\E s \in Slot : slot[s] = "firmware") =>
            region["table"] = "new" /\ \A s \in Slot : slot[s] # "legacy"
    /\ main \in {"migrator", "derive"} => region["table"] # "torn"
    /\ main \in {"copy", "copying", "copied"} => region["table"] = "old"
    /\ slot["low"] = "legacy" =>
            /\ region["table"] # "old" => Confirmed
            /\ Http /\ running = "ota1" => Confirmed
            /\ main = "migrator" /\ running = "ota1" => bootAt = "ota1"

LEMMA KeptInit == Init => KeptInv
  BY DEF Init, KeptInv, MigratorKept, Http, Slot, Other, Region

\* A new region is not written again.
LEMMA NewStays ==
    ASSUME IInv, Erase \/ Program, NEW r \in Region, region[r] = "new"
    PROVE  region'[r] = "new"
  <1>1. /\ Writing /\ commit # "verified" /\ main = "serving"
        /\ region' = region \/ \E x : region' = [region EXCEPT ![job.region] = x]
    BY DEF IInv, StageInv, Erase, Program, Writing
  <1>2. job.region # r
    BY <1>1 DEF IInv, RegionInv, Http
  <1>. QED  BY <1>1, <1>2 DEF IInv, TypeOK

LEMMA KeptNext == IInv /\ SlotInv /\ KeptInv /\ [Next]_vars => KeptInv'
  <1>. SUFFICES ASSUME IInv, SlotInv, KeptInv, [Next]_vars PROVE KeptInv'
    OBVIOUS
  <1>. USE DEF KeptInv, MigratorKept, Http, Slot, Confirmed
  <1>0. /\ running \in Slot /\ bootAt \in Slot
        /\ slot \in [Slot -> {"migrator", "legacy", "firmware", "torn"}]
        /\ region \in [Region -> {"old", "new", "torn"}]
        /\ otaState \in [Slot -> {"new", "pending", "valid", "aborted"}]
        /\ "table" \in Region
    BY DEF IInv, TypeOK, Region
  <1>1. CASE Bootloader
    <2>1. /\ slot' = slot /\ region' = region /\ main' = slot[running']
          /\ bootAt' = Chosen /\ region["table"] # "torn" /\ main' # "torn"
          /\ running' = IF Whole(Chosen) THEN Chosen ELSE Other(Chosen)
          /\ Chosen \in Slot
      BY <1>0, <1>1 DEF Bootloader, Bootable, Chosen, Other, Whole
    <2>2. slot["low"] = "legacy" /\ Confirmed => Confirmed' /\ ~Aborts
      BY <1>0, <1>1 DEF Bootloader, Aborts, Chosen
    <2>3. slot["low"] = "legacy" /\ running' = "ota1" => bootAt' = "ota1"
      BY <2>1 DEF Whole, Other
    <2>4. main' \in {"migrator", "legacy", "firmware"}
      BY <1>0, <2>1 DEF Whole, Other
    <2>5. region["table"] # "old" => main' # "legacy"
      <3>1. CASE slot["low"] = "legacy" /\ region["table"] # "old"
        BY <2>1, <2>2, <3>1 DEF Whole
      <3>. QED  BY <1>0, <2>1, <3>1 DEF Whole, Other
    <2>. QED  BY <2>1, <2>2, <2>3, <2>4, <2>5
  <1>2. CASE Derive
    BY <1>0, <1>2 DEF Derive, tasks, history
  <1>3. CASE EnterInstall \/ EnterError \/ EnterChecked \/ RelocateFail
             \/ InstallCheck
    BY <1>3 DEF EnterInstall, EnterError, EnterChecked, RelocateFail, Enter,
                InstallCheck, flash, history, IInv, StageInv, NoRuns, Runner
  <1>4. CASE EnterRelocate
    <2>1. region["table"] = "old"
      BY <1>0, <1>4 DEF EnterRelocate, IInv, StageInv, RegionInv
    <2>. QED  BY <1>4, <2>1 DEF EnterRelocate, flash, tasks, history
  <1>5. CASE RelocateErase \/ RelocateSelect
    <2>1. /\ region["table"] = "old" /\ running = "low" /\ region' = region
          /\ running' = running /\ main' \in {"copying", "copied"}
          /\ \E x \in {"torn", "migrator"} : slot' = [slot EXCEPT !["ota1"] = x]
      BY <1>5 DEF RelocateErase, RelocateSelect, SlotInv
    <2>. QED  BY <1>0, <2>1
  <1>6. CASE Reset
    BY <1>6 DEF Reset, flash
  <1>7. CASE Erase \/ Program
    <2>1. /\ main = "serving" /\ running = "ota1" /\ slot["ota1"] = "migrator"
      BY <1>7 DEF Erase, Program, IInv, StageInv, SlotInv
    <2>2. /\ UNCHANGED <<slot, otaState, bootAt, main, running>>
      BY <1>7 DEF Erase, Program, CommitFrame
    <2>3. region["table"] = "new" => region'["table"] = "new"
      BY <1>0, <1>7, NewStays
    <2>. QED  BY <1>0, <2>1, <2>2, <2>3
  <1>8. CASE Backup \/ Failed \/ NoMemory \/ Verified
    BY <1>8 DEF Backup, Failed, NoMemory, Verified, CommitFrame
  <1>9. CASE Commit \/ Su \/ Reboot \/ Tick
    BY <1>9 DEF Commit, Su, Reboot, Tick, flash, tasks, history
  <1>10. CASE \E r \in Runner : OtaWrite(r) \/ OtaFail(r) \/ OtaSelect(r)
    <2>1. PICK r \in Runner : OtaWrite(r) \/ OtaFail(r) \/ OtaSelect(r)
      BY <1>10
    <2>2. /\ running = "ota1" /\ slot["ota1"] = "migrator" /\ main = "serving"
          /\ region["table"] = "new" /\ Other(running) = "low"
      BY <2>1 DEF OtaWrite, OtaFail, OtaSelect, IInv, StageInv, RegionInv,
                  SlotInv, AllNew, NoRuns, Region, Other
    <2>3. /\ UNCHANGED <<region, main, running>>
          /\ \/ UNCHANGED <<slot, otaState, bootAt>>
             \/ \E x \in {"torn", "firmware"} : slot' = [slot EXCEPT !["low"] = x]
      BY <2>1, <2>2 DEF OtaWrite, OtaFail, OtaSelect, OtaFrame
    <2>. QED  BY <1>0, <2>2, <2>3
  <1>11. CASE FirmwareConfirm \/ FirmwareVerified \/ FirmwareRollback
    <2>1. /\ slot[running] = "firmware" /\ UNCHANGED <<region, slot, running>>
          /\ main' \in {"confirmed", "installed", "rolled_back"}
      BY <1>11 DEF FirmwareConfirm, FirmwareVerified, FirmwareRollback,
                   FirmwareFrame
    <2>. QED  BY <1>0, <2>1
  <1>12. CASE UNCHANGED vars
    BY <1>12 DEF vars
  <1>. QED
    BY <1>1, <1>2, <1>3, <1>4, <1>5, <1>6, <1>7, <1>8, <1>9, <1>10, <1>11,
       <1>12
       DEF Next, MainStep, CommitStep, OtaStep, FirmwareStep, RelocateRestart,
           CommitRestart, TimerFires, FirmwareRestart, OtaRestart, Restart, Cut

\* Once the table is touched there is always a migrator, or firmware, to go
\* back to, and legacy firmware is never started again.
THEOREM WayBackKept == Spec => []MigratorKept
  <1>1. Init => IInv /\ SlotInv /\ KeptInv
    BY Inductive, SlotInit, KeptInit
  <1>2. (IInv /\ SlotInv /\ KeptInv) /\ [Next]_vars => (IInv /\ SlotInv /\ KeptInv)'
    BY Inductive, SlotNext, KeptNext
  <1>3. KeptInv => MigratorKept
    BY DEF KeptInv
  <1>. QED  BY <1>1, <1>2, <1>3, PTL DEF Spec

-----------------------------------------------------------------------------
(* Firmware the bootloader rolled back.  Its slot keeps the mark, and the   *)
(* other one is booted, until an operator asks for a download.             *)

AbortInv ==
    rolledBack = "bootloader" =>
        /\ otaState["low"] = "aborted" /\ bootAt = "ota1"
        /\ region["table"] = "new"
        /\ \A r \in Runner : run[r] \in {"none", "check"}

LEMMA AbortInit == Init => AbortInv
  BY DEF Init, AbortInv

LEMMA AbortNext == IInv /\ SlotInv /\ KeptInv /\ AbortInv /\ [Next]_vars => AbortInv'
  <1>. SUFFICES ASSUME IInv, SlotInv, KeptInv, AbortInv, [Next]_vars,
                       rolledBack' = "bootloader"
                PROVE  /\ otaState'["low"] = "aborted" /\ bootAt' = "ota1"
                       /\ region'["table"] = "new"
                       /\ \A r \in Runner : run'[r] \in {"none", "check"}
    BY DEF AbortInv
  <1>. USE DEF AbortInv, Slot
  <1>0. /\ running \in Slot /\ bootAt \in Slot
        /\ slot \in [Slot -> {"migrator", "legacy", "firmware", "torn"}]
        /\ region \in [Region -> {"old", "new", "torn"}]
        /\ otaState \in [Slot -> {"new", "pending", "valid", "aborted"}]
        /\ run \in [Runner -> {"none", "check", "begin", "write", "restart"}]
        /\ "table" \in Region /\ "bootloader" \in Region
    BY DEF IInv, TypeOK, Region
  <1>1. CASE Bootloader
    <2>1. main # "serving" /\ region' = region /\ run' = run
      BY <1>1 DEF Bootloader, tasks
    <2>2. \A r \in Runner : run[r] = "none"
      BY <2>1 DEF IInv, StageInv, NoRuns
    <2>3. CASE Aborts
      <3>1. region["table"] = "new"
        BY <2>3 DEF IInv, RegionInv, TableFirst, Aborts
      <3>2. bootAt = "low"
        BY <1>0, <1>1, <2>3 DEF Bootloader, Aborts, Other
      <3>. QED
        BY <1>0, <1>1, <2>1, <2>2, <2>3, <3>1, <3>2 DEF Bootloader, Chosen, Other
    <2>4. CASE ~Aborts
      BY <1>0, <1>1, <2>1, <2>2, <2>4 DEF Bootloader, Chosen
    <2>. QED  BY <2>3, <2>4
  <1>2. CASE Derive
    BY <1>0, <1>2 DEF Derive, tasks, history
  <1>3. CASE EnterInstall \/ EnterError \/ EnterChecked \/ RelocateFail
             \/ EnterRelocate
    BY <1>0, <1>3 DEF EnterInstall, EnterError, EnterChecked, RelocateFail, Enter,
                      EnterRelocate, flash, tasks, history
  <1>4. CASE InstallCheck
    BY <1>0, <1>4 DEF InstallCheck, RolledBack, flash, history
  <1>5. CASE RelocateErase \/ RelocateSelect
    BY <1>5 DEF RelocateErase, RelocateSelect, tasks, history, KeptInv
  <1>6. CASE Reset
    BY <1>6 DEF Reset, flash, NoRuns
  <1>7. CASE Erase \/ Program
    BY <1>0, <1>7, NewStays DEF Erase, Program, CommitFrame
  <1>8. CASE Backup \/ Failed \/ NoMemory \/ Verified
    BY <1>8 DEF Backup, Failed, NoMemory, Verified, CommitFrame
  <1>9. CASE Commit \/ Su \/ Reboot \/ Tick
    BY <1>9 DEF Commit, Su, Reboot, Tick, flash, tasks, history
  <1>10. CASE \E r \in Runner : OtaWrite(r) \/ OtaFail(r) \/ OtaSelect(r)
    BY <1>10 DEF OtaWrite, OtaFail, OtaSelect, OtaFrame, history
  <1>11. CASE FirmwareConfirm \/ FirmwareVerified \/ FirmwareRollback
    BY <1>0, <1>11 DEF FirmwareConfirm, FirmwareVerified, FirmwareRollback,
                       FirmwareFrame, tasks
  <1>12. CASE UNCHANGED vars
    BY <1>12 DEF vars
  <1>. QED
    BY <1>1, <1>2, <1>3, <1>4, <1>5, <1>6, <1>7, <1>8, <1>9, <1>10, <1>11,
       <1>12
       DEF Next, MainStep, CommitStep, OtaStep, FirmwareStep, RelocateRestart,
           CommitRestart, TimerFires, FirmwareRestart, OtaRestart, Restart, Cut

\* Firmware that the bootloader rolled back is not installed again by itself,
\* over any resets; the run migrator_rollback shows that firmware which
\* hi_health rolled back is.
THEOREM AbortRespected == Spec => []AbortStopsInstall
  <1>1. Init => IInv /\ SlotInv /\ KeptInv /\ AbortInv
    BY Inductive, SlotInit, KeptInit, AbortInit
  <1>2. (IInv /\ SlotInv /\ KeptInv /\ AbortInv) /\ [Next]_vars
            => (IInv /\ SlotInv /\ KeptInv /\ AbortInv)'
    BY Inductive, SlotNext, KeptNext, AbortNext
  <1>3. AbortInv => AbortStopsInstall
    BY DEF AbortInv, AbortStopsInstall, Runner
  <1>. QED  BY <1>1, <1>2, <1>3, PTL DEF Spec
-----------------------------------------------------------------------------
(* The migration as HiMigration has it.  What the steps of a write and of   *)
(* a copy leave behind for the next one: a region that was erased, a slot   *)
(* that was; firmware that is only ever on the new layout; and no restart   *)
(* armed in a device that is off.                                           *)

FirmwareImages == {"firmware", "confirmed", "installed", "rolled_back"}

PlanInv ==
    /\ (\E s \in Slot : slot[s] = "firmware") => \A r \in Region : region[r] = "new"
    /\ commit = "program" => region[job.region] = "torn"
    /\ main = "copying" => slot["ota1"] = "torn"
    /\ \A r \in Runner : run[r] = "write" => slot[Other(running)] \in {"torn", "firmware"}
    /\ main = "off" => timer = -1

LEMMA PlanInit == Init => PlanInv
  BY DEF Init, PlanInv, Slot, Region, Other, Runner, NoRuns

\* A download is into the low slot, on the new layout.
LEMMA DownloadsLow ==
    ASSUME IInv, SlotInv, NEW r \in Runner, run[r] # "none"
    PROVE  /\ main = "serving" /\ running = "ota1" /\ Other(running) = "low"
           /\ commit = "none" /\ \A g \in Region : region[g] = "new"
  <1>1. stage \in {"installing", "waiting_manual"} /\ main = "serving"
    BY DEF IInv, StageInv, NoRuns
  <1>2. commit = "none"
    BY <1>1 DEF IInv, StageInv
  <1>. QED  BY <1>1, <1>2 DEF IInv, RegionInv, SlotInv, AllNew, Http, Other

LEMMA PlanNext == IInv /\ SlotInv /\ KeptInv /\ PlanInv /\ [Next]_vars => PlanInv'
  <1>. SUFFICES ASSUME IInv, SlotInv, KeptInv, PlanInv, [Next]_vars PROVE PlanInv'
    OBVIOUS
  <1>. USE DEF PlanInv
  <1>0. /\ running \in Slot /\ "low" \in Slot /\ "ota1" \in Slot
        /\ slot \in [Slot -> {"migrator", "legacy", "firmware", "torn"}]
        /\ region \in [Region -> {"old", "new", "torn"}]
        /\ run \in [Runner -> {"none", "check", "begin", "write", "restart"}]
        /\ job.region \in Region /\ Other(running) \in Slot
        /\ main # "serving" => commit = "none" /\ run = NoRuns
        /\ commit # "none" => stage = "committing" /\ running = "ota1"
        /\ \A r \in Runner : NoRuns[r] = "none"
    BY DEF IInv, TypeOK, StageInv, Slot, Other, NoRuns
  <1>1. CASE Bootloader
    <2>1. /\ UNCHANGED <<slot, region, commit, run>> /\ main' = slot[running']
          /\ running' \in Slot /\ main' \in {"migrator", "legacy", "firmware", "torn"}
      BY <1>0, <1>1 DEF Bootloader, tasks, Chosen, IInv, TypeOK, Slot, Other
    <2>2. commit' = "none" /\ main' # "copying" /\ \A r \in Runner : run'[r] = "none"
      BY <1>0, <1>1, <2>1 DEF Bootloader
    <2>. QED  BY <2>1, <2>2
  <1>2. CASE Reset
    BY <1>0, <1>2 DEF Reset, flash
  <1>3. CASE Derive \/ EnterRelocate
    BY <1>3 DEF Derive, EnterRelocate, flash, tasks, history
  <1>4. CASE EnterInstall \/ EnterError \/ EnterChecked \/ RelocateFail \/ InstallCheck
    BY <1>0, <1>4 DEF EnterInstall, EnterError, EnterChecked, RelocateFail, Enter,
                      InstallCheck, flash, history
  <1>5. CASE RelocateErase \/ RelocateSelect
    <2>1. /\ UNCHANGED <<region, commit, run>> /\ commit = "none" /\ run = NoRuns
          /\ main' \in {"copying", "copied"}
          /\ region["table"] = "old" /\ "table" \in Region
      BY <1>0, <1>5 DEF RelocateErase, RelocateSelect, tasks, history, KeptInv, Region
    <2>2. \A s \in Slot : slot[s] # "firmware"
      BY <2>1
    <2>3. \/ slot' = [slot EXCEPT !["ota1"] = "torn"]
          \/ slot' = [slot EXCEPT !["ota1"] = "migrator"] /\ main' # "copying"
      BY <1>5 DEF RelocateErase, RelocateSelect
    <2>. QED  BY <1>0, <2>1, <2>2, <2>3
  <1>6. CASE Erase \/ Program
    <2>1. /\ commit # "none" /\ main = "serving"
          /\ UNCHANGED <<slot, main, running, run, job, timer>>
      BY <1>0, <1>6 DEF Erase, Program, CommitFrame
    <2>2. \A r \in Region : region[r] = "new" => region'[r] = "new"
      BY <1>6, NewStays
    <2>3. commit' = "program" => region'[job.region] = "torn"
      BY <1>0, <1>6 DEF Erase, Program
    <2>. QED  BY <2>1, <2>2, <2>3
  <1>7. CASE Backup \/ Failed \/ NoMemory \/ Verified
    <2>1. UNCHANGED <<slot, main, running, run, region, timer>> /\ commit' # "program"
      BY <1>7 DEF Backup, Failed, NoMemory, Verified, Write, Finish, GiveUp, CommitFrame
    <2>. QED  BY <2>1
  <1>8. CASE Commit
    BY <1>8 DEF Commit, flash, history
  <1>9. CASE Su
    BY <1>0, <1>9 DEF Su, flash
  <1>10. CASE Reboot \/ Tick
    BY <1>10 DEF Reboot, Tick, Http, flash, tasks, history
  <1>11. CASE \E r \in Runner : OtaWrite(r) \/ OtaFail(r) \/ OtaSelect(r)
    <2>1. PICK r \in Runner : OtaWrite(r) \/ OtaFail(r) \/ OtaSelect(r)
      BY <1>11
    <2>2. /\ main = "serving" /\ running = "ota1" /\ Other(running) = "low"
          /\ commit = "none" /\ \A g \in Region : region[g] = "new"
      BY <2>1, DownloadsLow DEF OtaWrite, OtaFail, OtaSelect
    <2>3. UNCHANGED <<region, main, running, commit>>
      BY <2>1 DEF OtaWrite, OtaFail, OtaSelect, OtaFrame
    <2>4. \/ slot' = slot /\ \A q \in Runner : run'[q] = "write" => run[q] = "write"
          \/ \E x \in {"torn", "firmware"} : slot' = [slot EXCEPT !["low"] = x]
      BY <1>0, <2>1, <2>2 DEF OtaWrite, OtaFail, OtaSelect
    <2>. QED  BY <1>0, <2>2, <2>3, <2>4
  <1>12. CASE FirmwareConfirm \/ FirmwareVerified \/ FirmwareRollback
    BY <1>12 DEF FirmwareConfirm, FirmwareVerified, FirmwareRollback, FirmwareFrame, tasks
  <1>13. CASE UNCHANGED vars
    BY <1>13 DEF vars
  <1>. QED
    BY <1>1, <1>2, <1>3, <1>4, <1>5, <1>6, <1>7, <1>8, <1>9, <1>10, <1>11,
       <1>12, <1>13
       DEF Next, MainStep, CommitStep, OtaStep, FirmwareStep, RelocateRestart,
           CommitRestart, TimerFires, FirmwareRestart, OtaRestart, Restart, Cut

\* What HiMigration sees.
LEMMA Seen ==
    /\ UNCHANGED <<region, slot, main, running, checked, torn>> => UNCHANGED Migration!vars
    /\ Image = "off" <=> main = "off"
    /\ main' = "off" => Image' = "off"
  BY DEF Migration!vars, Image

LEMMA InitMigrates == Init => Migration!Init
  <1>. SUFFICES ASSUME Init PROVE Migration!Init
    OBVIOUS
  <1>1. Image = "off" /\ \A s \in Slot : s = bootAt <=> s = running
    BY DEF Init, Image
  <1>2. region["table"] = "old" <=> Migration!Layout("old")
    BY DEF Init, Migration!Layout, Region, Migration!Region
  <1>. QED  BY <1>1, <1>2 DEF Init, Migration!Init, Region, Migration!Region,
                              Slot, Migration!Slot

\* An image starts on its layout.
LEMMA BootloaderMigrates ==
    ASSUME IInv, KeptInv, PlanInv, KeptInv', Bootloader
    PROVE  Migration!Starts
  <1>1. /\ Migration!Boots /\ Image = "off" /\ Chosen \in Slot
        /\ UNCHANGED <<region, slot, checked, torn>>
    BY DEF Bootloader, Bootable, Migration!Boots, Region, Migration!Region, Image,
           Chosen, Other, Slot, IInv, TypeOK
  <1>2. /\ running' \in Slot /\ main' = slot[running'] /\ main' # "torn"
        /\ main' \in {"migrator", "legacy", "firmware", "torn"}
    BY <1>1 DEF Bootloader, Whole, Other, Slot, IInv, TypeOK
  <1>3. Image' = main'
    BY <1>2 DEF Image
  <1>4. ASSUME main' = "legacy" PROVE Migration!Layout("old")
    <2>1. region["table"] = "old"
      BY <1>1, <1>4 DEF KeptInv, MigratorKept
    <2>2. region["bootloader"] = "old"
      BY <2>1 DEF IInv, RegionInv, TableFirst
    <2>. QED  BY <2>1, <2>2 DEF Migration!Layout, Migration!Region
  <1>5. ASSUME main' = "firmware" PROVE Migration!Layout("new")
    BY <1>2, <1>5 DEF PlanInv, Migration!Layout, Region, Migration!Region
  <1>. QED  BY <1>1, <1>2, <1>3, <1>4, <1>5
            DEF Migration!Starts, Migration!Belongs, Slot, Migration!Slot

\* A reset by the code's own hand comes while no region is torn, or after it
\* was reported.
LEMMA ResetMigrates ==
    ASSUME IInv, Reset, main # "off", UNCHANGED torn, ~Writing
    PROVE  Migration!Stops
  <1>1. Bootable \/ torn # "no"
    BY DEF IInv, RegionInv, Bootable
  <1>. QED  BY <1>1, Seen DEF Reset, flash, Migration!Stops, Migration!Boots, Bootable,
                              Region, Migration!Region

LEMMA CutMigrates == ASSUME Cut PROVE Migration!Stops
  BY Seen DEF Cut, Reset, flash, Migration!Stops, Migration!Boots, Bootable,
              Region, Migration!Region

\* Neither the relocation nor a download writes where it runs.
LEMMA RelocateMigrates ==
    ASSUME IInv, SlotInv, KeptInv, PlanInv, RelocateErase \/ RelocateSelect
    PROVE  Migration!Receives("ota1", "migrator")
  <1>1. /\ main \in {"copy", "copying"} /\ main' \in {"copying", "copied"}
        /\ running = "low" /\ region["table"] = "old"
        /\ UNCHANGED <<region, running, checked, torn>>
    BY DEF RelocateErase, RelocateSelect, SlotInv, KeptInv, history
  <1>2. Image = "migrator" /\ Image' = "migrator"
    BY <1>1 DEF Image
  <1>3. Migration!Layout("old")
    BY <1>1 DEF IInv, RegionInv, TableFirst, Migration!Layout, Migration!Region
  <1>4. \/ slot' = [slot EXCEPT !["ota1"] = "torn"]
        \/ slot["ota1"] = "torn" /\ slot' = [slot EXCEPT !["ota1"] = "migrator"]
    BY DEF RelocateErase, RelocateSelect, PlanInv
  <1>. QED  BY <1>1, <1>2, <1>3, <1>4 DEF Migration!Receives

LEMMA DownloadMigrates ==
    ASSUME IInv, SlotInv, PlanInv, NEW r \in Runner,
           OtaWrite(r) \/ OtaFail(r) \/ OtaSelect(r)
    PROVE  Migration!Receives("low", "firmware") \/ UNCHANGED Migration!vars
  <1>1. /\ main = "serving" /\ running = "ota1" /\ Other(running) = "low"
        /\ \A g \in Region : region[g] = "new"
    BY DownloadsLow DEF OtaWrite, OtaFail, OtaSelect
  <1>2. UNCHANGED <<region, main, running, checked, torn>>
    BY DEF OtaWrite, OtaFail, OtaSelect, OtaFrame, history
  <1>3. /\ Image = "migrator" /\ UNCHANGED Image
    BY <1>1, <1>2 DEF Image
  <1>4. CASE slot' = slot
    BY <1>2, <1>4, Seen
  <1>5. CASE slot' # slot
    <2>1. slot \in [Slot -> {"migrator", "legacy", "firmware", "torn"}] /\ "low" \in Slot
      BY DEF IInv, TypeOK, Slot
    <2>2. \/ slot' = [slot EXCEPT !["low"] = "torn"]
          \/ slot["low"] = "torn" /\ slot' = [slot EXCEPT !["low"] = "firmware"]
      BY <1>1, <1>5, <2>1 DEF OtaWrite, OtaFail, OtaSelect, PlanInv
    <2>3. Migration!Layout("new")
      BY <1>1 DEF Migration!Layout, Region, Migration!Region
    <2>. QED  BY <1>1, <1>2, <1>3, <2>2, <2>3 DEF Migration!Receives
  <1>. QED  BY <1>4, <1>5

\* The region a commit is writing is the one whose turn it is.
LEMMA TurnOfJob ==
    ASSUME IInv, Writing, commit # "verified"
    PROVE  Migration!Turn(job.region) /\ job.region \in Region /\ Image = "migrator"
  <1>1. /\ main = "serving" /\ checked /\ running = "ota1"
    BY DEF IInv, StageInv, Writing
  <1>2. Image = "migrator"
    BY <1>1 DEF Image
  <1>3. job.region \in Region /\ region[job.region] # "new"
    BY <1>1 DEF IInv, TypeOK, RegionInv, Http
  <1>4. /\ job.region = "table" => region["bootloader"] = "old"
        /\ job.region = "bootloader" => region["table"] = "new"
    BY DEF IInv, RegionInv
  <1>. QED  BY <1>1, <1>2, <1>3, <1>4 DEF Migration!Turn, Region

LEMMA CommitMigrates ==
    ASSUME IInv, PlanInv, Backup \/ Erase \/ Program \/ Failed \/ NoMemory \/ Verified
    PROVE  Migration!Next \/ UNCHANGED Migration!vars
  <1>1. UNCHANGED <<slot, main, running, checked>> /\ UNCHANGED Image
    BY DEF Backup, Erase, Program, Failed, NoMemory, Verified, CommitFrame, Image
  <1>2. CASE Erase
    <2>1. Migration!Turn(job.region) /\ job.region \in Region
      BY <1>2, TurnOfJob DEF Erase, Writing
    <2>2. /\ torn' = torn
          /\ region' = region \/ region' = [region EXCEPT ![job.region] = "torn"]
      BY <1>2 DEF Erase
    <2>3. CASE region' = region
      BY <1>1, <2>2, <2>3, Seen
    <2>4. CASE region' = [region EXCEPT ![job.region] = "torn"]
      BY <1>1, <2>1, <2>2, <2>4
         DEF Migration!Erases, Migration!Next, Region, Migration!Region
    <2>. QED  BY <2>2, <2>3, <2>4
  <1>3. CASE Program
    <2>1. Migration!Turn(job.region) /\ job.region \in Region
      BY <1>3, TurnOfJob DEF Program, Writing
    <2>2. /\ torn' = torn /\ region[job.region] = "torn"
          /\ region' = region \/ region' = [region EXCEPT ![job.region] = Target]
      BY <1>3 DEF Program, PlanInv
    <2>3. CASE region' = region
      BY <1>1, <2>2, <2>3, Seen
    <2>4. CASE region' = [region EXCEPT ![job.region] = Target]
      <3>1. Migration!Writes(job.region)
        BY <1>1, <2>1, <2>2, <2>4 DEF Migration!Writes, Target
      <3>. QED  BY <2>1, <3>1 DEF Migration!Next, Region, Migration!Region
    <2>. QED  BY <2>2, <2>3, <2>4
  <1>4. CASE Failed \/ NoMemory
    <2>1. Migration!Turn(job.region) /\ job.region \in Region
      BY <1>4, TurnOfJob DEF Failed, NoMemory, Writing
    <2>2. /\ region' = region
          /\ torn' = torn \/ (torn = "no" /\ torn' = "restore")
      BY <1>4 DEF Failed, NoMemory
    <2>3. CASE torn' = torn
      BY <1>1, <2>2, <2>3, Seen
    <2>4. CASE torn = "no" /\ torn' = "restore"
      BY <1>1, <2>1, <2>2, <2>4
         DEF Migration!GivesUp, Migration!Next, Region, Migration!Region
    <2>. QED  BY <2>2, <2>3, <2>4
  <1>5. CASE Backup \/ Verified
    BY <1>1, <1>5, Seen DEF Backup, Verified
  <1>. QED  BY <1>2, <1>3, <1>4, <1>5

LEMMA StepMigrates ==
    IInv /\ SlotInv /\ KeptInv /\ KeptInv' /\ PlanInv /\ [Next]_vars
        => [Migration!Next]_Migration!vars
  <1>. SUFFICES ASSUME IInv, SlotInv, KeptInv, KeptInv', PlanInv, [Next]_vars
                PROVE  Migration!Next \/ UNCHANGED Migration!vars
    OBVIOUS
  <1>1. CASE Bootloader
    BY <1>1, BootloaderMigrates DEF Migration!Next
  <1>2. CASE Cut
    BY <1>2, CutMigrates DEF Migration!Next
  <1>3. CASE RelocateRestart \/ CommitRestart \/ TimerFires \/ FirmwareRestart
             \/ \E r \in Runner : OtaRestart(r)
    <2>1. Reset /\ UNCHANGED torn
      BY <1>3 DEF RelocateRestart, CommitRestart, TimerFires, FirmwareRestart,
                  OtaRestart, Restart
    <2>2. main # "off" /\ ~Writing
      BY <1>3 DEF RelocateRestart, CommitRestart, TimerFires, FirmwareRestart,
                  OtaRestart, IInv, StageInv, TimeInv, PlanInv, Writing, NoRuns
    <2>. QED  BY <2>1, <2>2, ResetMigrates DEF Migration!Next
  <1>4. CASE RelocateErase \/ RelocateSelect
    BY <1>4, RelocateMigrates DEF Migration!Next, Migration!Slot
  <1>5. CASE \E r \in Runner : OtaWrite(r) \/ OtaFail(r) \/ OtaSelect(r)
    BY <1>5, DownloadMigrates DEF Migration!Next, Migration!Slot
  <1>6. CASE Backup \/ Erase \/ Program \/ Failed \/ NoMemory \/ Verified
    BY <1>6, CommitMigrates
  <1>7. CASE EnterChecked
    <2>1. /\ UNCHANGED <<region, slot, running, torn>> /\ running = "ota1"
          /\ Image = "migrator" /\ Image' = "migrator"
          /\ checked' = checked \/ checked' = TRUE
      BY <1>7 DEF EnterChecked, Enter, flash, Image
    <2>. QED  BY <2>1 DEF Migration!Next, Migration!Passes, Migration!vars
  <1>8. CASE \/ Derive \/ EnterInstall \/ InstallCheck \/ EnterError \/ EnterRelocate
             \/ RelocateFail \/ Commit \/ Su \/ Reboot \/ Tick
             \/ FirmwareConfirm \/ FirmwareVerified \/ FirmwareRollback
    <2>1. UNCHANGED <<region, slot, running, checked, torn>>
      BY <1>8 DEF Derive, EnterInstall, InstallCheck, EnterError, EnterRelocate,
                  RelocateFail, Enter, Commit, Su, Reboot, Tick, FirmwareConfirm,
                  FirmwareVerified, FirmwareRollback, FirmwareFrame, flash, history
    <2>2. UNCHANGED Image
      BY <1>8 DEF Derive, EnterInstall, InstallCheck, EnterError, EnterRelocate,
                  RelocateFail, Enter, Commit, Su, Reboot, Tick, FirmwareConfirm,
                  FirmwareVerified, FirmwareRollback, Image
    <2>. QED  BY <2>1, <2>2 DEF Migration!vars
  <1>9. CASE UNCHANGED vars
    BY <1>9 DEF vars, Image, Migration!vars
  <1>. QED
    BY <1>1, <1>2, <1>3, <1>4, <1>5, <1>6, <1>7, <1>8, <1>9
       DEF Next, MainStep, CommitStep, OtaStep, FirmwareStep

\* "Only an interrupted erase/write inside COMMIT can leave the board
\* unbootable", "every intermediate state stays bootable" (hi_migrator.h:4-15):
\* the tasks, handlers, timers and flags implement HiMigration, for any delays,
\* attempts and faults.
THEOREM ImplementsMigration == Spec => Migrates
  <1>1. Init => IInv /\ SlotInv /\ KeptInv /\ PlanInv
    BY Inductive, SlotInit, KeptInit, PlanInit
  <1>2. (IInv /\ SlotInv /\ KeptInv /\ PlanInv) /\ [Next]_vars
            => (IInv /\ SlotInv /\ KeptInv /\ PlanInv)'
    BY Inductive, SlotNext, KeptNext, PlanNext
  <1>. QED  BY <1>1, <1>2, InitMigrates, StepMigrates, PTL
            DEF Spec, Migrates, Migration!Spec

\* What HiMigration by itself says of the flash: the table is the first to
\* change, and a board that is off and does not boot has its excuse.
THEOREM MigrationInOrder ==
    Migrates => [](TableFirst /\ (Image = "off" => Bootable \/ torn # "no"))
  <1>. DEFINE InOrder == TableFirst /\ (Image = "off" => Bootable \/ torn # "no")
              J == region \in [Region -> {"old", "new", "torn"}] /\ InOrder
  <1>1. Migration!Init => J
    BY DEF Migration!Init, Migration!Layout, Migration!Region, Region, TableFirst, Bootable
  <1>2. J /\ [Migration!Next]_Migration!vars => J'
    <2>. SUFFICES ASSUME J, [Migration!Next]_Migration!vars PROVE J'
      OBVIOUS
    <2>. USE DEF Region, Migration!Region, TableFirst, Bootable, Migration!Boots
    <2>1. CASE Migration!Starts \/ Migration!Stops
      BY <2>1 DEF Migration!Starts, Migration!Stops
    <2>2. CASE Migration!Passes \/ Migration!GivesUp
      BY <2>2 DEF Migration!Passes, Migration!GivesUp, Migration!Turn
    <2>3. ASSUME NEW s, NEW contents, Migration!Receives(s, contents) PROVE J'
      BY <2>3 DEF Migration!Receives
    <2>4. ASSUME NEW r \in Region, Migration!Erases(r) \/ Migration!Writes(r) PROVE J'
      BY <2>4 DEF Migration!Erases, Migration!Writes, Migration!Turn
    <2>5. CASE UNCHANGED Migration!vars
      BY <2>5 DEF Migration!vars
    <2>. QED  BY <2>1, <2>2, <2>3, <2>4, <2>5 DEF Migration!Next
  <1>. QED  BY <1>1, <1>2, PTL DEF Migrates, Migration!Spec
=============================================================================
