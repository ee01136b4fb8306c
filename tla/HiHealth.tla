------------------------------ MODULE HiHealth ------------------------------
(***************************************************************************)
(* Verification of a new firmware image (src/hi_health.c), with the NVS    *)
(* initialisation it relies on (src/hi_system.c) and, as the environment,  *)
(* the ESP-IDF bootloader and the flash steps of esp_https_ota().          *)
(*                                                                         *)
(* The device has two OTA slots.  The bootloader boots bootSlot; its own   *)
(* rollback is disarmed first thing in app_main (Confirm), and from there  *)
(* on hi_health decides: it counts the resets of an image that is not yet  *)
(* verified (Count), convicts it when there were too many, or when it is   *)
(* still unhealthy after a timeout, and boots the other slot.  A power cut *)
(* may come between any two steps; what survives it is the flash: image,   *)
(* bootSlot, otaState and nvs.                                             *)
(***************************************************************************)
EXTENDS Integers

CONSTANTS
    Image,       \* firmware images, an image standing for its ELF SHA-256
    Good,        \* the images for which is_healthy() may ever answer true
    None,        \* an erased slot; no verified_sha stored
    Partial,     \* a slot whose header is written and the rest is not
    MaxBoots,    \* s_max_boots
    BootsMod,    \* 2^width of the uint8_t boot counter
    MaxFaults,   \* bound: power resets, and boots on which NVS is not usable
    MaxUpdates   \* bound: downloads started

ASSUME ImageAssumption ==
    Good \subseteq Image /\ None \notin Image /\ Partial \notin Image
ASSUME BootsAssumption ==
    BootsMod \in Nat /\ MaxBoots \in Nat /\ 0 < MaxBoots /\ MaxBoots < BootsMod
ASSUME BoundAssumption == MaxFaults \in Nat /\ MaxUpdates \in Nat

VARIABLES
    image,       \* flash: what each slot holds
    bootSlot,    \* flash: the active otadata entry
    otaState,    \* flash: the otadata state of each slot
    nvs,         \* flash: namespace hi_health, keys verified_sha and boots
    pc,          \* where the boot, then the health task, is
    up,          \* hi_health_early_boot() returned: the application runs
    running,     \* the slot the CPU executes
    nvsUp,       \* hi_nvs_init() succeeded on this boot
    pending,     \* s_pending_verify
    expired,     \* verify_timeout_s elapsed
    reason,      \* esp_reset_reason()
    ota,         \* progress of the hi_ota download
    faults,      \* used part of MaxFaults
    updates,     \* used part of MaxUpdates
    strikes,     \* history: counted resets of unverified firmware
    own,         \* history: the same, of the image each slot holds now
    raced        \* history: a download erased the slot a rollback selected

flash   == <<image, bootSlot, otaState, nvs>>
bounds  == <<faults, updates>>
history == <<strikes, own, raced>>
vars == <<image, bootSlot, otaState, nvs, pc, up, running, nvsUp, pending,
          expired, reason, ota, faults, updates, strikes, own, raced>>

Slot     == {0, 1}
Other(s) == 1 - s       \* esp_ota_get_next_update_partition(), two slots

PowerReset == {"poweron", "brownout"}
Reason     == PowerReset \cup {"sw", "panic"}

\* The resets hi_health_early_boot() counts.
CountsPower(r) == TRUE
Counts(r) == r \notin PowerReset

\* boots++ on a uint8_t.
NextBootsWide(b) == b + 1
NextBoots(b) == (b + 1) % BootsMod

\* "boots > s_max_boots"
TooManyPlusOne(b) == b > MaxBoots + 1
TooMany(b) == b > MaxBoots

NoNvs == [verified |-> None, boots |-> 0]

\* store(): nothing happens when NVS cannot be opened.  A NULL verified_sha
\* leaves the stored one; the boots key is written after it.
StoreBootsNever(b) == nvs' = nvs
StoreBoots(b) == nvs' = IF nvsUp THEN [nvs EXCEPT !.boots = b] ELSE nvs
StoreVerified(i) == nvs' = IF nvsUp THEN [nvs EXCEPT !.verified = i] ELSE nvs

\* What esp_ota_get_partition_description() and esp_ota_set_boot_partition()
\* accept: the first reads the header, the second checks the whole image.
HasHeader(s) == image[s] # None
Complete(s)  == image[s] \in Image

-----------------------------------------------------------------------------
Init ==
    /\ running \in Slot
    /\ image \in [Slot -> Image \cup {None}]
    /\ Complete(running)
    /\ bootSlot = running
    /\ otaState = [s \in Slot |-> "valid"]
    /\ nvs \in {[verified |-> i, boots |-> 0] : i \in Good \cup {None}}
    /\ pc = "off" /\ up = FALSE /\ nvsUp = FALSE /\ pending = FALSE
    /\ expired = FALSE /\ reason = "poweron" /\ ota = "idle"
    /\ faults = 0 /\ updates = 0
    /\ strikes = 0 /\ own = [s \in Slot |-> 0] /\ raced = FALSE

-----------------------------------------------------------------------------
(* The bootloader (external).  An image that was started once and never    *)
(* confirmed is aborted and the other entry taken; an image that does not  *)
(* check is skipped for the other slot.                                    *)

Aborts == /\ otaState[bootSlot] = "pending"
          /\ otaState[Other(bootSlot)] # "aborted"
Chosen == IF Aborts THEN Other(bootSlot) ELSE bootSlot

Bootloader ==
    /\ pc = "off"
    /\ \E s \in Slot : Complete(s)
    /\ bootSlot' = Chosen
    /\ running' = IF Complete(Chosen) THEN Chosen ELSE Other(Chosen)
    /\ otaState' = [s \in Slot |->
            IF Aborts /\ s = bootSlot THEN "aborted"
            ELSE IF s = Chosen /\ otaState[s] = "new" THEN "pending"
            ELSE otaState[s]]
    /\ raced' = ~Complete(Chosen)
    /\ pc' = "confirm"
    /\ UNCHANGED <<image, nvs, up, nvsUp, pending, expired, reason, ota,
                   bounds, strikes, own>>

-----------------------------------------------------------------------------
(* hi_health_early_boot()                                                  *)

\* esp_ota_mark_app_valid_cancel_rollback()
ConfirmForgotten ==
    /\ pc = "confirm" /\ pc' = "nvs"
    /\ UNCHANGED <<flash, up, running, nvsUp, pending, expired, reason, ota,
                   bounds, history>>
Confirm ==
    /\ pc = "confirm"
    /\ otaState' = [otaState EXCEPT ![bootSlot] = "valid"]
    /\ pc' = "nvs"
    /\ UNCHANGED <<image, bootSlot, nvs, up, running, nvsUp, pending, expired,
                   reason, ota, bounds, history>>

\* hi_nvs_init(): usable, unusable and erased, or failed.
NvsInit(outcome) ==
    /\ pc = "nvs"
    /\ IF outcome = "ok" THEN UNCHANGED faults
       ELSE faults < MaxFaults /\ faults' = faults + 1
    /\ nvsUp' = (outcome # "failed")
    /\ nvs' = IF outcome = "erased" THEN NoNvs ELSE nvs
    /\ strikes' = IF outcome = "erased" THEN 0 ELSE strikes
    /\ pc' = "count"
    /\ UNCHANGED <<image, bootSlot, otaState, up, running, pending, expired,
                   reason, ota, updates, own, raced>>

\* The verified image returns at once; any other has its reset counted.
ReadTrusting == IF nvsUp THEN nvs ELSE [verified |-> image[running], boots |-> 0]
Read == IF nvsUp THEN nvs ELSE NoNvs

Trusted == /\ pc = "count"
           /\ Read.verified = image[running]
           /\ pc' = "start" /\ up' = TRUE
           /\ UNCHANGED <<flash, running, nvsUp, pending, expired, reason,
                          ota, bounds, history>>

CapStrikes(n) == IF n > BootsMod THEN BootsMod ELSE n
CapOwn(n)     == IF n > MaxBoots THEN MaxBoots + 1 ELSE n

Count ==
    /\ pc = "count"
    /\ Read.verified # image[running]
    /\ LET boots == IF Counts(reason) THEN NextBoots(Read.boots)
                    ELSE Read.boots
       IN /\ StoreBoots(boots)
          /\ pc' = IF TooMany(boots) THEN "convicted" ELSE "start"
          /\ up' = ~TooMany(boots)
    /\ pending' = TRUE
    /\ strikes' = IF nvsUp /\ reason \notin PowerReset
                  THEN CapStrikes(strikes + 1) ELSE strikes
    /\ own' = IF reason \in PowerReset THEN own
              ELSE [own EXCEPT ![running] = CapOwn(@ + 1)]
    /\ UNCHANGED <<image, bootSlot, otaState, running, nvsUp, expired, reason,
                   ota, bounds, raced>>

-----------------------------------------------------------------------------
(* rollback_to_previous(), from early boot and from the health task        *)

\* Where the caller goes on when the image stays.
Stay == pc' = (IF up THEN "loop" ELSE "start") /\ up' = TRUE

\* The counter is cleared first, then 500 ms are given to the log.
Rollback ==
    /\ StoreBoots(0)
    /\ strikes' = IF nvsUp THEN 0 ELSE strikes
    /\ own' = [own EXCEPT ![running] = 0]
    /\ IF HasHeader(Other(running))
       THEN pc' = "revert" /\ UNCHANGED <<pending, up>>
       ELSE pending' = FALSE /\ Stay
    /\ UNCHANGED <<image, bootSlot, otaState, running, nvsUp, expired, reason,
                   ota, bounds, raced>>

EarlyRollback == pc = "convicted" /\ Rollback

\* esp_ota_set_boot_partition(other)
SetBoot ==
    /\ pc = "revert"
    /\ IF Complete(Other(running))
       THEN /\ bootSlot' = Other(running)
            /\ otaState' = [otaState EXCEPT ![Other(running)] = "new"]
            /\ pc' = "leaving" /\ raced' = FALSE
            /\ UNCHANGED <<pending, up>>
       ELSE /\ pending' = FALSE /\ Stay
            /\ UNCHANGED <<bootSlot, otaState, raced>>
    /\ UNCHANGED <<image, nvs, running, nvsUp, expired, reason, ota, bounds,
                   strikes, own>>

-----------------------------------------------------------------------------
(* A reset, of any cause: the RAM is lost.                                 *)

Restart(r) ==
    /\ pc' = "off" /\ up' = FALSE /\ nvsUp' = FALSE /\ pending' = FALSE
    /\ expired' = FALSE /\ ota' = "idle" /\ reason' = r
    /\ UNCHANGED <<flash, running, updates, history>>

\* esp_restart() at the end of rollback_to_previous().
Leave == pc = "leaving" /\ Restart("sw") /\ UNCHANGED faults

PowerCut == /\ pc # "off" /\ faults < MaxFaults
            /\ \E r \in PowerReset : Restart(r)
            /\ faults' = faults + 1

\* A crash of the firmware or a watchdog.
Panic == pc # "off" /\ Restart("panic") /\ UNCHANGED faults

\* esp_restart() of the application: a failed task creation of
\* hi_health_start(), hi_restart_soon() of the web handlers.
AppRestart == up /\ Restart("sw") /\ UNCHANGED faults

-----------------------------------------------------------------------------
(* hi_health_start() and the health task                                   *)

HealthStart ==
    /\ pc = "start" /\ pc' = "loop"
    /\ UNCHANGED <<flash, up, running, nvsUp, pending, expired, reason, ota,
                   bounds, history>>

Expire ==
    /\ pc = "loop" /\ ~expired /\ expired' = TRUE
    /\ UNCHANGED <<flash, pc, up, running, nvsUp, pending, reason, ota,
                   bounds, history>>

\* is_healthy() answered true: store(s_running_sha, 0), two NVS writes.
Verify ==
    /\ pc = "loop" /\ pending /\ image[running] \in Good
    /\ StoreVerified(image[running])
    /\ pc' = "clear"
    /\ UNCHANGED <<image, bootSlot, otaState, up, running, nvsUp, pending,
                   expired, reason, ota, bounds, history>>

VerifyClear ==
    /\ pc = "clear"
    /\ StoreBoots(0)
    /\ strikes' = IF nvsUp THEN 0 ELSE strikes
    /\ own' = [own EXCEPT ![running] = 0]
    /\ pending' = FALSE
    /\ pc' = "loop"
    /\ UNCHANGED <<image, bootSlot, otaState, up, running, nvsUp, expired,
                   reason, ota, bounds, raced>>

TimeoutRollbackAlways == pc = "loop" /\ expired /\ Rollback
TimeoutRollback == pc = "loop" /\ pending /\ expired /\ Rollback

-----------------------------------------------------------------------------
(* A download into the other slot: esp_https_ota() (external), as          *)
(* hi_ota_run() calls it.  Other(running) is erased, written, checked and  *)
(* selected; then the device restarts.                                     *)

OtaBegin ==
    /\ up /\ ota = "idle" /\ updates < MaxUpdates
    /\ updates' = updates + 1
    /\ image' = [image EXCEPT ![Other(running)] = None]
    /\ raced' = (bootSlot = Other(running))
    /\ ota' = "writing"
    /\ UNCHANGED <<bootSlot, otaState, nvs, pc, up, running, nvsUp, pending,
                   expired, reason, faults, strikes, own>>

OtaHeader ==
    /\ up /\ ota = "writing" /\ image[Other(running)] = None
    /\ image' = [image EXCEPT ![Other(running)] = Partial]
    /\ UNCHANGED <<bootSlot, otaState, nvs, pc, up, running, nvsUp, pending,
                   expired, reason, ota, bounds, history>>

OtaFail ==
    /\ up /\ ota = "writing" /\ ota' = "idle"
    /\ UNCHANGED <<flash, pc, up, running, nvsUp, pending, expired, reason,
                   bounds, history>>

OtaWritten(i) ==
    /\ up /\ ota = "writing" /\ image[Other(running)] = Partial
    /\ image' = [image EXCEPT ![Other(running)] = i]
    /\ own' = [own EXCEPT ![Other(running)] = 0]
    /\ ota' = "written"
    /\ UNCHANGED <<bootSlot, otaState, nvs, pc, up, running, nvsUp, pending,
                   expired, reason, bounds, strikes, raced>>

OtaSelectEarly ==
    /\ up /\ ota \in {"writing", "written"}
    /\ bootSlot' = Other(running)
    /\ otaState' = [otaState EXCEPT ![Other(running)] = "new"]
    /\ ota' = "selected" /\ raced' = FALSE
    /\ UNCHANGED <<image, nvs, pc, up, running, nvsUp, pending, expired,
                   reason, bounds, strikes, own>>
OtaSelect ==
    /\ up /\ ota = "written"
    /\ bootSlot' = Other(running)
    /\ otaState' = [otaState EXCEPT ![Other(running)] = "new"]
    /\ ota' = "selected" /\ raced' = FALSE
    /\ UNCHANGED <<image, nvs, pc, up, running, nvsUp, pending, expired,
                   reason, bounds, strikes, own>>

OtaRestart == up /\ ota = "selected" /\ Restart("sw") /\ UNCHANGED faults

-----------------------------------------------------------------------------
Boot   == \/ Bootloader \/ Confirm \/ Trusted \/ Count \/ EarlyRollback
          \/ \E o \in {"ok", "erased", "failed"} : NvsInit(o)
Health == HealthStart \/ Expire \/ Verify \/ VerifyClear \/ TimeoutRollback
Ota    == \/ OtaBegin \/ OtaHeader \/ OtaFail \/ OtaSelect \/ OtaRestart
          \/ \E i \in Image : OtaWritten(i)

Next == \/ Boot \/ Health \/ Ota
        \/ SetBoot \/ Leave
        \/ PowerCut \/ Panic \/ AppRestart

Spec == Init /\ [][Next]_vars

(* The CPU runs, so does the health task, and a download that was written  *)
(* is selected.  Strong fairness where a crash may come first: an image    *)
(* does not crash at the very same step of the boot, or in the 500 ms of   *)
(* the rollback, on every attempt for ever.  Nothing is assumed of the     *)
(* network, of is_healthy() or of the resets.                              *)
Fairness ==
    /\ WF_vars(Bootloader)
    /\ SF_vars(Confirm)
    /\ SF_vars(\E o \in {"ok", "erased", "failed"} : NvsInit(o))
    /\ SF_vars(Trusted \/ Count)
    /\ SF_vars(EarlyRollback) /\ SF_vars(SetBoot)
    /\ WF_vars(Leave) /\ WF_vars(HealthStart) /\ WF_vars(Expire)
    /\ WF_vars(VerifyClear) /\ WF_vars(TimeoutRollback)
    /\ WF_vars(OtaSelect) /\ WF_vars(OtaRestart)

FairSpec == Spec /\ Fairness

-----------------------------------------------------------------------------
Pc == {"off", "confirm", "nvs", "count", "convicted", "revert", "leaving",
       "start", "loop", "clear"}

\* Every variable stays in its type.
TypeOK ==
    /\ image \in [Slot -> Image \cup {None, Partial}]
    /\ bootSlot \in Slot /\ running \in Slot
    /\ otaState \in [Slot -> {"new", "pending", "valid", "aborted"}]
    /\ nvs \in [verified : Image \cup {None}, boots : 0 .. BootsMod - 1]
    /\ pc \in Pc /\ up \in BOOLEAN /\ nvsUp \in BOOLEAN
    /\ pending \in BOOLEAN /\ expired \in BOOLEAN /\ reason \in Reason
    /\ ota \in {"idle", "writing", "written", "selected"}
    /\ faults \in 0 .. MaxFaults /\ updates \in 0 .. MaxUpdates
    /\ strikes \in 0 .. BootsMod
    /\ own \in [Slot -> 0 .. MaxBoots + 1]
    /\ raced \in BOOLEAN

\* The slot the bootloader is told to boot holds a whole image, whatever was
\* cut short and however a download and a rollback overlap
\* (hi_health.c:55, hi_ota.c:57).  One window is left: a download that begins
\* after a rollback selected its slot and before the restart; then the slot
\* that was left is still whole, and the bootloader falls back to it.
BootSlotComplete ==
    IF raced THEN Complete(Other(bootSlot)) ELSE Complete(bootSlot)

\* "A brownout during the first boot of a new image must not roll it back":
\* an early conviction needs more than MaxBoots resets of unverified firmware
\* that were not power resets (hi_health.c:83-91).
PowerLossNeverConvicts == pc = "convicted" => strikes > MaxBoots

\* "an image that keeps crashing must": unverified firmware does not get past
\* early boot once more than MaxBoots counted resets were recorded
\* (hi_health.c:85-91), until the uint8_t counter has run round.
CrashLoopConvicted ==
    pc \in {"start", "loop"} /\ pending /\ nvsUp
        => strikes <= MaxBoots \/ strikes = BootsMod

\* A rollback is under way only from an image that is not the verified one,
\* when NVS could be read on this boot (hi_health.c:80, 106-117).
VerifiedNotReverted ==
    pc \in {"convicted", "revert"} /\ nvsUp => nvs.verified # image[running]

\* An image that dies before it is confirmed can be aborted: as long as the
\* selected image is not confirmed, the other slot still holds a whole one
\* (hi_health.c:66, 55; a download only ever erases the slot not running).
AbortFindsImage ==
    otaState[bootSlot] \in {"new", "pending"} => Complete(Other(bootSlot))

\* As documented for one image: it is convicted at boot only for more than
\* max_unverified_boots resets of its own (hi_health.h:12-13).
OwnResetsConvict == pc = "convicted" => own[running] > MaxBoots

\* An application that runs and never reports healthy is on trial, whatever
\* NVS and its counter say; or its rollback found no image to go back to, and
\* since then only a download can have brought one (hi_health.c:42-60, 80-91).
BadOnTrial ==
    up /\ image[running] \notin Good =>
        pending \/ ~Complete(Other(running)) \/ ota \in {"written", "selected"}

\* An image that never reports healthy is left, as long as the other slot
\* holds a whole image (hi_health.h:12-14).
BadImageLeft ==
    \A s \in Slot :
        (running = s /\ image[s] \in Image \ Good /\ Complete(Other(s)))
            ~> (running # s \/ ~Complete(Other(s)))
=============================================================================
