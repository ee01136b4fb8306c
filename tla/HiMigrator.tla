----------------------------- MODULE HiMigrator -----------------------------
(***************************************************************************)
(* The one-shot image that moves a legacy device to a new bootloader and   *)
(* partition table over the air (src/hi_migrator.c), with the restart      *)
(* timer of src/hi_system.c, the downloads of src/hi_ota.c and, as the     *)
(* environment, the bootloader and the firmware that is installed.         *)
(*                                                                         *)
(* Three activities interleave: hi_migrator_run() with the task it starts, *)
(* the HTTP handlers, and the commit task.  The stage is derived from the  *)
(* flash on every boot, so what matters is what a reset between any two    *)
(* steps leaves in the flash: the two regions, the two slots, otadata.     *)
(*                                                                         *)
(* Slot "low" is the legacy ota_0, and the new ota_0; slot "ota1" is at    *)
(* the same offset in both tables (hi_migrator.h:14-15).                   *)
(***************************************************************************)
EXTENDS Integers

CONSTANTS
    CommitTicks,   \* vTaskDelay() before the commit writes, in ticks
    TimerTicks,    \* hi_restart_soon() of reboot_handler, in the same ticks
    Attempts,      \* attempts of write_region()
    MaxFaults      \* bound: resets by a power cut or a crash

ASSUME TimeAssumption ==
    /\ CommitTicks \in Nat /\ TimerTicks \in Nat
    /\ 0 < TimerTicks /\ TimerTicks < CommitTicks
ASSUME AttemptsAssumption == Attempts \in Nat /\ Attempts > 0
ASSUME FaultAssumption == MaxFaults \in Nat

VARIABLES
    region,      \* flash: the partition table and the bootloader
    slot,        \* flash: what the two application slots hold
    otaState,    \* flash: the otadata state of each slot
    bootAt,      \* flash: the active otadata entry
    main,        \* what the CPU executes
    running,     \* the slot it executes from
    brownout,    \* the last reset was a brownout
    stage,       \* s_stage
    isNew,       \* s_table_new, s_bootloader_new
    commit,      \* where commit_task is
    job,         \* the call of write_region() in progress
    delay,       \* ticks left of the commit task's 2 s
    timer,       \* ticks left of the restart timer; -1: not armed
    run,         \* progress of each hi_ota_run()
    faults,      \* used part of MaxFaults
    checked,     \* history: run_checks() passed on this boot
    torn,        \* history: why a region was left torn
    rolledBack   \* history: who rolled the firmware back since the last /admin/su

flash == <<region, slot, otaState, bootAt>>
tasks == <<commit, job, delay, run>>
vars  == <<region, slot, otaState, bootAt, main, running, brownout, stage,
           isNew, commit, job, delay, timer, run, faults, checked, torn,
           rolledBack>>
history == <<checked, torn, rolledBack>>

Region == {"table", "bootloader"}
Slot   == {"low", "ota1"}
Other(s) == IF s = "low" THEN "ota1" ELSE "low"

\* Who calls hi_ota_run(): install_task, and the background task of /admin/su.
Runner == {"install", "su"}

Stage == {"boot", "relocating", "ready", "not_ready", "committing",
          "installing", "waiting_manual", "error"}

NoJob  == [region |-> "table", restoring |-> FALSE, attempt |-> 1]
NoRuns == [r \in Runner |-> "none"]

\* What the ROM, the bootloader and the table need to start any image.
Bootable == \A r \in Region : region[r] # "torn"
Whole(s) == slot[s] # "torn"
Unconfirmed == {"new", "pending"}

-----------------------------------------------------------------------------
(* The migrator was installed by an update of the firmware before it, into *)
(* either slot; the other holds that firmware: legacy, or, on a device that *)
(* was migrated already, the new one.                                      *)

Init ==
    /\ region \in {[r \in Region |-> layout] : layout \in {"old", "new"}}
    /\ bootAt \in Slot /\ running = bootAt
    /\ slot = [s \in Slot |-> IF s = bootAt THEN "migrator"
                             ELSE IF region["table"] = "old" THEN "legacy"
                             ELSE "firmware"]
    /\ otaState = [s \in Slot |-> IF s = bootAt THEN "new" ELSE "valid"]
    /\ main = "off" /\ brownout = FALSE /\ stage = "boot"
    /\ isNew = [r \in Region |-> FALSE]
    /\ commit = "none" /\ job = NoJob /\ delay = 0 /\ timer = -1
    /\ run = NoRuns
    /\ faults = 0 /\ checked = FALSE /\ torn = "no"
    /\ rolledBack = "no"

-----------------------------------------------------------------------------
(* The bootloader (external): only the new one knows rollback.             *)

Aborts == /\ region["bootloader"] = "new"
          /\ otaState[bootAt] = "pending"
          /\ otaState[Other(bootAt)] # "aborted"
Chosen == IF Aborts THEN Other(bootAt) ELSE bootAt

Bootloader ==
    /\ main = "off" /\ Bootable
    /\ \E s \in Slot : Whole(s)
    /\ bootAt' = Chosen
    /\ running' = IF Whole(Chosen) THEN Chosen ELSE Other(Chosen)
    /\ otaState' = [s \in Slot |->
            IF Aborts /\ s = bootAt THEN "aborted"
            ELSE IF /\ s = Chosen /\ otaState[s] = "new"
                    /\ region["bootloader"] = "new" THEN "pending"
            ELSE otaState[s]]
    /\ main' = slot[running']
    /\ stage' = "boot"
    /\ rolledBack' = IF Aborts /\ bootAt = "low" THEN "bootloader" ELSE rolledBack
    /\ UNCHANGED <<region, slot, brownout, isNew, tasks, timer, faults,
                   checked, torn>>

\* What a reset leaves: the flash.
Reset ==
    /\ main' = "off" /\ stage' = "boot"
    /\ isNew' = [r \in Region |-> FALSE]
    /\ commit' = "none" /\ job' = NoJob /\ delay' = 0 /\ timer' = -1
    /\ run' = NoRuns
    /\ checked' = FALSE
    /\ UNCHANGED <<flash, running, rolledBack>>

Restart == Reset /\ brownout' = FALSE /\ UNCHANGED <<faults, torn>>

\* A power cut or a crash, at any moment.
Cut ==
    /\ main # "off" /\ faults < MaxFaults
    /\ faults' = faults + 1
    /\ brownout' \in BOOLEAN
    /\ torn' = IF ~Bootable /\ torn = "no" THEN "cut" ELSE torn
    /\ Reset

-----------------------------------------------------------------------------
(* hi_migrator_run()                                                       *)

\* esp_ota_mark_app_valid_cancel_rollback(); the flags; start_http().
DeriveUnconfirmed ==
    /\ main = "migrator"
    /\ isNew' = [r \in Region |-> region[r] = "new"]
    /\ main' = "derive"
    /\ UNCHANGED <<flash, running, brownout, stage, tasks, timer, faults,
                   history>>
Derive ==
    /\ main = "migrator"
    /\ otaState' = [otaState EXCEPT ![bootAt] = "valid"]
    /\ isNew' = [r \in Region |-> region[r] = "new"]
    /\ main' = "derive"
    /\ UNCHANGED <<region, slot, bootAt, running, brownout, stage, tasks,
                   timer, faults, history>>

Enter(s) == /\ stage' = s /\ main' = "serving"
            /\ UNCHANGED <<flash, running, brownout, isNew, commit, job, delay,
                           timer, faults, torn, rolledBack>>

AllNew == \A r \in Region : isNew[r]

\* The stage comes first, then the task that installs, if it can be created.
EnterInstall ==
    /\ main = "derive" /\ AllNew /\ running = "ota1"
    /\ \/ Enter("error") /\ UNCHANGED run
       \/ Enter("installing") /\ run' = [run EXCEPT !["install"] = "check"]
    /\ UNCHANGED checked

\* install_task: not when the bootloader rolled the firmware back once.  Of the
\* two states it looks for, no code here ever sets ESP_OTA_IMG_INVALID.
RolledBack == {"aborted"}
InstallCheck ==
    /\ run["install"] = "check"
    /\ IF otaState["low"] \in RolledBack
       THEN stage' = "waiting_manual" /\ run' = [run EXCEPT !["install"] = "none"]
       ELSE run' = [run EXCEPT !["install"] = "begin"] /\ UNCHANGED stage
    /\ UNCHANGED <<flash, main, running, brownout, isNew, commit, job, delay,
                   timer, faults, history>>

EnterError ==
    /\ main = "derive" /\ running # "ota1" /\ isNew["table"]
    /\ Enter("error")
    /\ UNCHANGED <<run, checked>>

\* run_checks(): the blobs and the layout, and no brownout.
EnterChecked ==
    /\ main = "derive" /\ ~AllNew /\ running = "ota1"
    /\ \/ ~brownout /\ Enter("ready") /\ checked' = TRUE
       \/ Enter("not_ready") /\ UNCHANGED checked
    /\ UNCHANGED run

\* relocate_to_ota1()
EnterRelocate ==
    /\ main = "derive" /\ running # "ota1" /\ ~isNew["table"]
    /\ stage' = "relocating" /\ main' = "copy"
    /\ UNCHANGED <<flash, running, brownout, isNew, tasks, timer, faults,
                   history>>

RelocateErase ==
    /\ main = "copy"
    /\ slot' = [slot EXCEPT !["ota1"] = "torn"]
    /\ main' = "copying"
    /\ UNCHANGED <<region, otaState, bootAt, running, brownout, stage, isNew,
                   tasks, timer, faults, history>>

RelocateFail ==
    /\ main \in {"copy", "copying"}
    /\ Enter("error")
    /\ UNCHANGED <<run, checked>>

\* esp_ota_end() verified the copy, esp_ota_set_boot_partition().
RelocateSelect ==
    /\ main = "copying"
    /\ slot' = [slot EXCEPT !["ota1"] = "migrator"]
    /\ bootAt' = "ota1"
    /\ otaState' = [otaState EXCEPT !["ota1"] = "new"]
    /\ main' = "copied"
    /\ UNCHANGED <<region, running, brownout, stage, isNew, tasks, timer,
                   faults, history>>

RelocateRestart == main = "copied" /\ Restart

-----------------------------------------------------------------------------
(* The HTTP handlers: from start_http() on, in a task of their own.        *)

Http == main \in {"derive", "copy", "copying", "copied", "serving"}

\* commit_handler; a failed task creation puts "ready" back.
Commit ==
    /\ Http /\ stage = "ready"
    /\ stage' = "committing" /\ commit' = "delay" /\ delay' = CommitTicks
    /\ UNCHANGED <<flash, main, running, brownout, isNew, job, timer, run,
                   faults, history>>

\* su_handler: s_running of hi_ota.c covers the background task alone.
Su ==
    /\ Http /\ stage \in {"installing", "waiting_manual"}
    /\ run["su"] = "none" /\ run' = [run EXCEPT !["su"] = "begin"]
    /\ rolledBack' = "no"
    /\ UNCHANGED <<flash, main, running, brownout, stage, isNew, commit, job,
                   delay, timer, faults, checked, torn>>

\* reboot_handler: hi_restart_soon() stops the timer and starts it anew.
RebootAnyStage ==
    /\ Http /\ timer' = TimerTicks
    /\ UNCHANGED <<flash, main, running, brownout, stage, isNew, tasks,
                   faults, history>>
Reboot ==
    /\ Http /\ stage # "committing" /\ timer' = TimerTicks
    /\ UNCHANGED <<flash, main, running, brownout, stage, isNew, tasks,
                   faults, history>>

TimerFires == timer = 0 /\ Restart

\* Time passes; an expired timer is served before the next tick.
Tick ==
    /\ timer > 0 \/ (delay > 0 /\ timer # 0)
    /\ timer' = IF timer > 0 THEN timer - 1 ELSE timer
    /\ delay' = IF delay > 0 THEN delay - 1 ELSE 0
    /\ UNCHANGED <<flash, main, running, brownout, stage, isNew, commit, job,
                   run, faults, history>>

-----------------------------------------------------------------------------
(* commit_task and write_region()                                          *)

CommitFrame == UNCHANGED <<slot, otaState, bootAt, main, running, brownout,
                           delay, timer, run, faults, checked, rolledBack>>

Write(r, back) == /\ commit' = "erase"
                  /\ job' = [region |-> r, restoring |-> back, attempt |-> 1]
Finish  == commit' = "restart" /\ UNCHANGED job
GiveUp  == commit' = "none" /\ stage' = "error" /\ UNCHANGED job

\* "partition table first, then bootloader"
FirstRegionSwapped == IF ~isNew["bootloader"] THEN "bootloader" ELSE "table"
FirstRegion == IF ~isNew["table"] THEN "table" ELSE "bootloader"

\* Backups of both regions, or nothing is written.
Backup ==
    /\ commit = "delay" /\ delay = 0
    /\ \/ GiveUp
       \/ /\ IF AllNew THEN Finish ELSE Write(FirstRegion, FALSE)
          /\ UNCHANGED stage
    /\ UNCHANGED <<region, isNew, torn>> /\ CommitFrame

Target == IF job.restoring THEN "old" ELSE "new"

\* The erase succeeds, or fails having erased the region, or nothing of it.
Erase ==
    /\ commit = "erase"
    /\ \/ commit' = "program" /\ region' = [region EXCEPT ![job.region] = "torn"]
       \/ /\ commit' = "failed"
          /\ \/ region' = [region EXCEPT ![job.region] = "torn"]
             \/ UNCHANGED region
    /\ UNCHANGED <<stage, isNew, job, torn>> /\ CommitFrame

\* Write and verify.
Program ==
    /\ commit = "program"
    /\ \/ commit' = "verified"
          /\ region' = [region EXCEPT ![job.region] = Target]
       \/ commit' = "failed" /\ UNCHANGED region
    /\ UNCHANGED <<stage, isNew, job, torn>> /\ CommitFrame

MoreAttemptsOff == job.attempt <= Attempts
MoreAttempts == job.attempt < Attempts

\* After the last attempt the old contents are put back, if they can be.
Failed ==
    /\ commit = "failed"
    /\ IF MoreAttempts
       THEN /\ commit' = "erase" /\ job' = [job EXCEPT !.attempt = @ + 1]
            /\ UNCHANGED <<stage, torn>>
       ELSE IF ~job.restoring
       THEN Write(job.region, TRUE) /\ UNCHANGED <<stage, torn>>
       ELSE GiveUp /\ torn' = IF torn = "no" THEN "restore" ELSE torn
    /\ UNCHANGED <<region, isNew>> /\ CommitFrame

\* malloc() of the copy failed: false, with nothing written.
NoMemory ==
    /\ commit = "erase" /\ job.attempt = 1
    /\ IF ~job.restoring THEN Write(job.region, TRUE) /\ UNCHANGED <<stage, torn>>
       ELSE GiveUp /\ torn' = IF torn = "no" THEN "restore" ELSE torn
    /\ UNCHANGED <<region, isNew>> /\ CommitFrame

VerifiedTableOnly ==
    /\ commit = "verified"
    /\ isNew' = [isNew EXCEPT ![job.region] = TRUE]
    /\ Finish
    /\ UNCHANGED <<region, stage, torn>> /\ CommitFrame
Verified ==
    /\ commit = "verified"
    /\ IF job.restoring THEN GiveUp /\ UNCHANGED isNew
       ELSE /\ isNew' = [isNew EXCEPT ![job.region] = TRUE]
            /\ IF job.region = "table" /\ ~isNew["bootloader"]
               THEN Write("bootloader", FALSE) ELSE Finish
            /\ UNCHANGED stage
    /\ UNCHANGED <<region, torn>> /\ CommitFrame

CommitRestart == commit = "restart" /\ Restart

-----------------------------------------------------------------------------
(* hi_ota_run() (src/hi_ota.c) into the other slot, of either runner.      *)

OtaFrame == UNCHANGED <<region, main, running, brownout, stage, isNew, commit,
                        job, delay, timer, faults, history>>

OtaWrite(r) ==
    /\ run[r] \in {"begin", "write"}
    /\ run' = [run EXCEPT ![r] = "write"]
    /\ slot' = [slot EXCEPT ![Other(running)] = "torn"]
    /\ UNCHANGED <<otaState, bootAt>> /\ OtaFrame

\* No image on the server, or a broken download: install_task tries again.
OtaFail(r) ==
    /\ run[r] \in {"begin", "write"}
    /\ run' = [run EXCEPT ![r] = IF r = "install" THEN "begin" ELSE "none"]
    /\ UNCHANGED <<slot, otaState, bootAt>> /\ OtaFrame

\* The image is whole, verified, and selected.
OtaSelect(r) ==
    /\ run[r] = "write"
    /\ run' = [run EXCEPT ![r] = "restart"]
    /\ slot' = [slot EXCEPT ![Other(running)] = "firmware"]
    /\ bootAt' = Other(running)
    /\ otaState' = [otaState EXCEPT ![Other(running)] = "new"]
    /\ OtaFrame

OtaRestart(r) == run[r] = "restart" /\ Restart

-----------------------------------------------------------------------------
(* The installed firmware (external), as hi_health drives it.              *)

FirmwareFrame == UNCHANGED <<region, slot, running, brownout, stage, isNew,
                             tasks, timer, faults, checked, torn>>

\* hi_health_early_boot() confirms the image to the bootloader.
FirmwareConfirm ==
    /\ main = "firmware"
    /\ otaState' = [otaState EXCEPT ![bootAt] = "valid"]
    /\ main' = "confirmed"
    /\ UNCHANGED <<bootAt, rolledBack>> /\ FirmwareFrame

FirmwareVerified ==
    /\ main = "confirmed" /\ main' = "installed"
    /\ UNCHANGED <<otaState, bootAt, rolledBack>> /\ FirmwareFrame

\* rollback_to_previous() of hi_health.c selects the migrator's slot.
FirmwareRollback ==
    /\ main = "confirmed" /\ Whole(Other(running))
    /\ bootAt' = Other(running)
    /\ otaState' = [otaState EXCEPT ![Other(running)] = "new"]
    /\ main' = "rolled_back" /\ rolledBack' = "health"
    /\ FirmwareFrame

FirmwareRestart == main = "rolled_back" /\ Restart

-----------------------------------------------------------------------------
MainStep == \/ Bootloader \/ Derive
            \/ EnterInstall \/ InstallCheck \/ EnterError \/ EnterChecked
            \/ EnterRelocate \/ RelocateErase \/ RelocateFail
            \/ RelocateSelect \/ RelocateRestart
CommitStep == \/ Backup \/ Erase \/ Program \/ Failed \/ NoMemory
              \/ Verified \/ CommitRestart
OtaStep == \E r \in Runner : \/ OtaWrite(r) \/ OtaFail(r) \/ OtaSelect(r)
                             \/ OtaRestart(r)
FirmwareStep == \/ FirmwareConfirm \/ FirmwareVerified
                \/ FirmwareRollback \/ FirmwareRestart

Next == \/ MainStep \/ CommitStep \/ OtaStep \/ FirmwareStep
        \/ Commit \/ Su \/ Reboot
        \/ TimerFires \/ Tick \/ Cut

Spec == Init /\ [][Next]_vars

(* The tasks run and time passes; a firmware that is published stays so,   *)
(* hence a download that is tried for ever succeeds; and a restart that is *)
(* asked for does not come 500 ms after every start, for ever, before the  *)
(* install task is created.  Nothing makes the operator send a request.    *)
Fairness ==
    /\ WF_vars(MainStep) /\ SF_vars(EnterInstall) /\ SF_vars(InstallCheck)
    /\ WF_vars(CommitStep) /\ WF_vars(Tick) /\ WF_vars(TimerFires)
    /\ SF_vars(\E r \in Runner : OtaWrite(r))
    /\ SF_vars(\E r \in Runner : OtaSelect(r))
    /\ WF_vars(\E r \in Runner : OtaRestart(r))
    /\ WF_vars(FirmwareConfirm)

FairSpec == Spec /\ Fairness

-----------------------------------------------------------------------------
Writing == commit \in {"erase", "program", "failed", "verified"}

\* Every variable stays in its type.
TypeOK ==
    /\ region \in [Region -> {"old", "new", "torn"}]
    /\ slot \in [Slot -> {"migrator", "legacy", "firmware", "torn"}]
    /\ otaState \in [Slot -> {"new", "pending", "valid", "aborted"}]
    /\ bootAt \in Slot /\ running \in Slot
    /\ main \in {"off", "migrator", "legacy", "firmware", "derive", "copy",
                 "copying", "copied", "serving", "confirmed", "installed",
                 "rolled_back"}
    /\ brownout \in BOOLEAN /\ checked \in BOOLEAN
    /\ stage \in Stage
    /\ isNew \in [Region -> BOOLEAN]
    /\ commit \in {"none", "delay", "erase", "program", "failed", "verified",
                   "restart"}
    /\ job \in [region : Region, restoring : BOOLEAN, attempt : 1 .. Attempts]
    /\ delay \in 0 .. CommitTicks /\ timer \in -1 .. TimerTicks
    /\ run \in [Runner -> {"none", "check", "begin", "write", "restart"}]
    /\ faults \in 0 .. MaxFaults
    /\ torn \in {"no", "cut", "restore"}
    /\ rolledBack \in {"no", "bootloader", "health"}

\* "Only an interrupted erase/write inside COMMIT can leave the board
\* unbootable" (hi_migrator.h:12), or one that failed six times over: no
\* restart of the code's own, by a handler's timer or after the commit, ever
\* comes while a region is torn.
UnbootableOnlyByCut == ~Bootable => Writing \/ torn # "no"

\* "partition table first, then bootloader" (hi_migrator.c:268), so that every
\* intermediate state boots: no new bootloader meets the old table, on any
\* path through failures, restores and repeated commits.
TableFirst == region["bootloader"] # "old" => region["table"] = "new"

\* Nothing is written before this boot's checks passed, from the slot that
\* stays where it is (hi_migrator.c:135, 456-465).
WritesChecked ==
    [][region' # region => checked /\ running = "ota1" /\ stage = "committing"]_vars

\* "an OTA with the old table would target a legacy slot" (hi_migrator.c:382):
\* a download only ever runs on the new layout and leaves the migrator's own
\* slot alone.
OtaOnNewLayout ==
    (\E r \in Runner : run[r] # "none") =>
        /\ \A r \in Region : region[r] = "new"
        /\ running = "ota1" /\ slot["ota1"] = "migrator"

\* A device that has begun to be rewritten has a confirmed migrator to return
\* to (hi_migrator.c:426-427): the new bootloader does not abort it, and never
\* starts the legacy firmware on the new table.
MigratorKept ==
    region["table"] # "old" =>
        slot["ota1"] \in {"migrator", "firmware"} /\ main # "legacy"

\* Firmware that the bootloader rolled back is not installed again by
\* install_task (hi_migrator.c:40, 317).
AbortStopsInstall ==
    run["install"] \in {"begin", "write"} => rolledBack # "bootloader"

\* The same of any rollback, as the comments say: "the firmware in ota_0 was
\* rolled back once: /admin/su to retry".
RollbackStopsInstall ==
    run["install"] \in {"begin", "write"} => rolledBack = "no"

\* A commit whose writing began and that nothing cuts short ends with the
\* firmware started, or with an error reported: its own stage refuses further
\* restarts, and one asked for earlier came before the first write
\* (hi_migrator.c:269, 369, 392).  The exception is an operator who starts a
\* second download beside install_task's: one may erase what the other has
\* just selected, each time anew (hi_migrator.c:323, 384).
CommitCompletes ==
    (commit = "erase" /\ faults = MaxFaults) ~>
        \/ main \in {"confirmed", "installed"}
        \/ stage \in {"error", "waiting_manual"}
        \/ run["su"] # "none"

-----------------------------------------------------------------------------
\* To whoever holds the board, the migration is the one of HiMigration: which
\* image runs, and what is in the flash, whatever the tasks, timers, flags and
\* otadata are that brought it there.
Image == IF main \in {"off", "legacy"} THEN main
         ELSE IF main \in {"firmware", "confirmed", "installed", "rolled_back"}
         THEN "firmware" ELSE "migrator"
Migration == INSTANCE HiMigration WITH image <- Image, passed <- checked, excuse <- torn

\* "Only an interrupted erase/write inside COMMIT can leave the board
\* unbootable", "every intermediate state stays bootable" (hi_migrator.h:4-15):
\* over any faults the order of the writes, the layout under each image and the
\* slots that are written are those of HiMigration.
Migrates == Migration!Spec
=============================================================================
