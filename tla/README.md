# home-idf, specified in TLA+

home-idf is an ESP-IDF component: the services every device of a home needs
(firmware updates, health, MQTT, notifications, web login, logging, WiFi), and a
one-shot *migrator* image that replaces bootloader and partition table over the
air. This directory specifies it in TLA+, checks the specification with TLC and
proves its safety with TLAPS. Paths below are those of the repository; `hi_x.c`
is `src/hi_x.c`, `hi_x.h` is `include/hi_x.h`.

To repeat everything:

    tlc -config MCHiHealth.cfg MCHiHealth     # and so on, see "Runs"
    tlapm HiHealthProofs.tla                  # and the other seven, see "Proofs"

## 1. Inventory

### Components

| component | state it keeps | operations |
|---|---|---|
| `hi_health` | NVS keys `verified_sha`, `boots`; `s_pending_verify`; otadata through esp_ota | `hi_health_early_boot()`, the health task (verify, timed-out rollback), `rollback_to_previous()` |
| `hi_system` | one esp_timer | `hi_nvs_init()` (erases and retries), `hi_restart_soon()` |
| `hi_migrator` | flash: table, bootloader, both slots, otadata; RAM: `s_stage`, `s_table_new`, `s_bootloader_new`, backups | `hi_migrator_run()`, `relocate_and_restart()`, `run_checks()`, `commit_task`, `write_region()`, `install_task`, HTTP `/admin/commit`, `/admin/su`, `/admin/reboot` |
| `hi_ota` | `s_config`, `s_running`, the slot not running | `hi_ota_init()`, `hi_ota_run()`, `hi_ota_start_background()`, the DELETE after an install |
| `hi_notify` | queue, eight de-duplication slots, `s_error_suppressed` | `hi_notify_error()` and the other channels, `notify_task` |
| `hi_mqtt` | `s_client`, `s_connected`, subscriptions with buffers, `s_rx_sub`, the state task's notification | `on_mqtt_event()`, `on_data()`, `hi_mqtt_subscribe*()`, `hi_mqtt_publish*()`, `state_task` |
| `hi_auth` | sessions in RAM and NVS, failure count, lockout time, CSRF key in NVS | `hi_auth_init()`, `hi_auth_login()`, `hi_auth_session_from_request()` (stamps, expires), `hi_auth_logout()`, header checks |
| `hi_httpd` | its configuration | `hi_httpd_guard()` and the handlers; the mutating ones call `hi_auth`, `hi_ota`, `hi_restart_soon()` |
| `hi_log` | ring buffer, socket, error hook | `log_vprintf()` in every task, `udp_task` |
| `hi_wifi` | `s_connected`, CONNECTED_BIT, retry timer, back-off | `event_handler()`, `retry_cb()`, the two ways to ask |
| `hi_ntp` | the system clock, boot time | start, synced, wait |
| `hi_deadband` | the caller's `hi_deadband_t` | `hi_deadband_due()`, `hi_deadband_reset()` |
| `hi_secret` | none | `hi_secret_reveal()`, and `obfuscate()` of the tool |
| web shell (`web/`) | the page, the cookie, the CSRF token | `api()`, `session()`, sign-in form; tabs, swipe control |
| build, design, tools, examples | none at run time | code and font generators |

### How they interact

* **Shared flash.** `hi_health` selects a boot slot, `hi_ota` erases and selects
  one, `hi_migrator` rewrites what both stand on. They run in different tasks
  (health task, OTA task, commit and install tasks) and coordinate through the
  flash, which is also all that survives a reset.
* **Calls.** `hi_httpd`, the migrator's handlers and the application start
  downloads; `hi_ota` mutes errors in `hi_notify` while it looks for an image;
  a log line of level E may be fed to `hi_notify` (`on_error_line`).
* **Callbacks.** `is_healthy()` and `build_state()` of the application;
  the MQTT callbacks, called in the MQTT task; WiFi events in the system loop.
* **Timers.** `hi_restart_soon()` restarts 500 ms after a request was answered,
  whatever the device is doing by then.

### What is hard

Resets between any two steps, some of which count against an image and some of
which do not; two tasks on the same slot; a counter eight bits wide; flash
writes that fail and must be undone; a stage that is not stored but derived
again on every boot; flags tested in one task and set in another; an outbox, a
queue and a table of slots that fill up; fragments of messages cut short. The
hazards in `PROJECT.json` list each of these at its line.

### What makes each component correct

* *health*: an image that never becomes healthy is left; a verified one is not;
  a power cut is nobody's fault; whatever is selected can be booted.
* *migrator*: only a cut in the middle of a write leaves a board that does not
  boot; the table comes before the bootloader; nothing is written before the
  checks of this boot; once the device is being rewritten it cannot fall back to
  firmware that does not fit; a commit ends; firmware that was rolled back is
  not installed again by itself.
* *ota*: one download at a time; the guard is always given back; errors are
  muted for no longer than a download.
* *notify*: the same error once per window, a different one never muted by it.
* *mqtt*: every subscription on every connection; the retained status and state
  tell the truth; messages whole, of one topic, or not at all.
* *auth*: a session that ended stays ended, in RAM and in NVS; none outlives its
  age; wrong passwords take as long as their delays add up to.
* *httpd* and the *web shell*: a page whose session is valid is believed, one
  whose session is gone leaves, whatever answers were lost.
* *log*, *wifi*: no use of a deleted buffer; what waits in it is sent, in order;
  a lost connection is always tried again.
* *deadband*, *secret*: the receiver is never a dead band away from the sensor
  and never waits longer than promised; what the tool hid is what is revealed.

## 2. The modules

| module | code | what it is |
|---|---|---|
| `HiHealth` | hi_health.c, `hi_nvs_init()` of hi_system.c, the flash steps of hi_ota.c | early boot, health task, rollbacks, downloads, power cuts |
| `HiHealthProofs` | | its theorems |
| `HiMigrator` | hi_migrator.c, `hi_restart_soon()` of hi_system.c, `hi_ota_run()` as the migrator uses it | the whole migration, from either layout |
| `HiMigration` | hi_migrator.h | abstract: what happens to the flash and to the image the device runs; `HiMigrator` implements it |
| `HiMigratorProofs` | | its theorems |
| `HiNotify` | hi_notify.c | queue, suppression, de-duplication |
| `HiOta` | hi_ota.c | background guard, OTA task; extends `HiNotify`, which it mutes |
| `HiMqtt` | hi_mqtt.c but `on_data()` | connection, outbox, status, state, subscriptions |
| `HiMqttData` | `on_data()` of hi_mqtt.c | reassembly of received messages |
| `HiDelivery` | hi_mqtt.h | abstract: whole messages, once, in order; `HiMqttData` implements it |
| `HiAuth` | hi_auth.c, `hi_ntp_synced()` | sessions, back-off and keys in RAM and NVS, with the clock |
| `HiHttpd` | hi_httpd.c, web/app_shell.js, web/login.html | pages and their requests; extends `HiAuth`, which answers them |
| `HiWifi` | hi_wifi.c | event handler, retry timer, driver |
| `HiLog` | hi_log.c | producers, ring buffer, `udp_task`; extends `HiWifi`, which it waits for |
| `HiDeadband` | hi_deadband.c | a sensor, the dead band, a receiver |
| `HiSecret` | hi_secret.c, tools/obfuscate.py | revealing what the tool wrote |
| `HiMqttProofs`, `HiMqttDataProofs`, `HiOtaProofs`, `HiHttpdProofs`, `HiLogProofs`, `HiHelpersProofs` (`HiDeadband` and `HiSecret`) | | their theorems |
| `MC...` | | the finite sets the runs use; `MCHiHelpers` runs `HiSecret`, then `HiDeadband`, and compares `ByteXor` with the `^^` of `Bitwise` |

`map` in `PROJECT.json` gives the lines of every definition.

### HiHealth

The variable `pc` is where the boot is, and afterwards the health task: `off`
(reset), `confirm`, `nvs`, `count`, `convicted` (early boot), `start`, `loop`,
`clear` (health task), `revert`, `leaving` (a rollback waiting for its 500 ms). One
action is one flash operation or one decision, because a reset may come
between any two: `Confirm` (esp_ota_mark_app_valid...), `NvsInit`, `Trusted`,
`Count`, `EarlyRollback`, `HealthStart`, `VerifyClear`, `TimeoutRollback`,
`SetBoot`, `Leave`, and the download `OtaBegin` ... `OtaRestart` beside the
health task. `image` holds an image, nothing, or `Partial`: a slot
whose header is written and the rest is not, which is why
`valid_image_in()` and `esp_ota_set_boot_partition()` may disagree. NVS is one
record of two keys written one after the other.

The bootloader is external: it boots the selected slot, falls back when that
is not whole, and aborts an image that was reset before it was confirmed.

History variables say what the properties need and the code does not store:
`strikes` counts the resets that counted (up to the width of the counter), `own`
does the same per image, `raced` marks a download that began
after a rollback had selected the slot.

### HiMigrator

`main` is what the CPU runs: another image (legacy or new firmware), or the
migrator and how far `hi_migrator_run()` got. `stage` is `s_stage`; `commit` and
`job` are the commit task and the call of `write_region()` it is in, one action
for each erase, program and verify, every one of which may fail; `run` is the
progress of each `hi_ota_run()`, of which there can be two. `delay` and
`timer` are the 2 s and the 500 ms, in ticks: only their order matters, and
`TimeAssumption` states it. The region contents are `old`, `new` or `torn`.

`Derive` is what hi_migrator.c does on every boot: look at the flash and decide
the stage. Everything the migration promises over resets rests on
it.

`HiMigration` is the migration as hi_migrator.h:4-15 tells it, without tasks,
stages and timers: what each region and slot holds, which image the device is
running, and whether the checks passed on this boot. It says which of these a
step may change, and when: regions are written by the migrator in ota_1 after
the checks, the table first, and one that is new never again; the migrator is
relocated under the old layout and firmware installed on the new one, never into
the slot that runs; an image starts on the layout it is for; and a reset that
finds a region torn is the excuse why the board does not boot. `Migrates` maps `main` to the image
(`Image`), `checked` and `torn` to the rest.

### HiNotify and HiOta

`HiNotify` has the senders (which never block), and the task step by step:
receive, de-duplicate, post. A post may fail, and the HTTP client then logs error
lines of its own, which come back to `hi_notify_error()` in the very task
(`PostFails`). An error stands for the hash of its text. Time never stops: what
hi_notify.c:67 compares is how long ago a slot was marked, so a slot has an age,
followed up to the window and no further, and `NotifyTick` lets everything
grow older. History: `sent`, the age of each error's last passage, and `lag`, the ticks
the task has spent on its present step. `HiOta` has callers of `hi_ota_start_background()`, whose test and set of `s_running`
are two steps (`Check`, `Claim`), and the task with its muting,
download, DELETE and restart.

### HiMqtt and HiMqttData

`HiMqtt` interleaves the MQTT task (its event handler one statement at a time),
the state task and an application task. esp-mqtt and the broker are external:
what they are assumed to do is in the head of the module. The outbox and a
subscription may be refused on a live connection, which hi_mqtt.c:121 only logs;
`denied` holds the subscriptions so refused on this connection. A state document is
`fresh` when it was built on the present connection. `HiMqttData` is apart from
it because it has a different grain: bytes, offsets and buffers. `HiDelivery` is
what a callback is promised, without any of these: a message is sent, and is
delivered whole, or cut. `Delivers` maps the one to the other: `offset`, which says
how far a message came, to whether it is being sent, ended or was cut.

### HiAuth and HiHttpd

A token is a number. `s_sessions` is the table in RAM and `nvs.sessions` its
last copy that was written: `persist_sessions_locked()` reports to nobody
whether it wrote. The server has one task, so that the calls of one request are
a step of their own: `HiAuth` gives the operations, `HiHttpd` the requests that
make them, guard first. A lookup is part of the request it belongs to, with the stamp, the
expiry and the write it may cause. The wall clock is set by SNTP once per power
cycle (`Sync`), so that sessions may be made, and found again, without a time.

A browser has one page, the cookie and the token of its page. Each answer may be
lost after the request was served. Other clients (`Strangers`) sign in
and out and try passwords; what their pages show is not followed. A restart
asked for by a handler is one of the resets, which come at any step.

History: `ended` and `first` say which sessions ended and when they were first stamped,
`since` when the present run of bad passwords began. A write that failed is
undone by a reset (`Undone`), which is the one exception the properties make: a
session whose end was not written is back, and one whose stamp was not written
is stamped again, so that `first` is its first stamp that no reset undid.

### HiWifi and HiLog

Events are posted by the driver and handled in order, in one task; the timer's
callback comes at any time between two of them. `esp_wifi_connect()` while
joining or joined does nothing; while idle it may fail, which `refused`
remembers. The driver and the IP stack are one source of events, in one order. `HiLog` follows each line by its number from `log_vprintf()` to
`sendto()`. The test and the use of `s_ringbuf` are two steps, and the use may
read it again or not, as the build decides.

### HiDeadband and HiSecret

`HiDeadband` reads a sensor every `Period` seconds with an unsigned counter that
wraps at `Seconds`; a reading may be no number. A reset of the dead band stands for
a sensor that was lost for any time. `HiSecret` has one variable, the last call,
of a value that the tool wrote, a plain one, or one that was damaged. There is no
NULL value, and no plain value whose text begins with the mark of an obfuscated
one.

### Grain and memory

A step is atomic when the code has no point inside it at which another task
can matter: a single flash call, a single access to a shared flag, a call into
a FreeRTOS object. Accesses to shared flags are taken in program order.

## 3. Runs

| run | configuration | states | question |
|---|---|---|---|
| `health` | 2 images (one bad), 1 counted reset allowed, counter modulo 3, 1 fault, 1 download | 98 k | what is selected boots; who is convicted, and who is not; a bad image is left |
| `health_own` (violation) | 3 images, no faults | | is an image convicted for its own resets only? |
| `migrator` | delays of 4 and 2 ticks, 3 attempts, 3 faults | 8.5 k | the migration, all properties |
| `migrator_rollback` (violation) | 1 attempt, no faults | | is every rollback respected? |
| `ota` | 1 caller, 2 tasks, 3 errors, 2 slots, queue of 2, a window of 3 ticks, posts of 1 | 493 k | downloads and notifications |
| `ota_race` (violation) | 2 callers | | is one download at a time guaranteed? |
| `mqtt` | 2 subscriptions, outbox of 2 | 1.2 M | the connection |
| `mqtt_status` (violation) | 1 subscription | | is a connected device online? |
| `mqtt_data` | 2 topics, buffer of 2, messages up to 3 | 192 k | `HiMqttData` implements `HiDelivery` |
| `auth` | 1 browser and strangers, 2 entries, 3 logins, 2 starts, 1 fault, 3 s | 324 k | web sessions |
| `net` | 2 producers, buffer of 2, 4 lines, 3 events | 21 k | the station, and the log that waits for it |
| `helpers` | 4 readings and NaN, a counter of 4 bits; texts up to 10 bytes | 7.3 k | dead band and credentials |

### What they show

**health.** `BootSlotComplete`: over all interleavings of a rollback, a download
and cuts, the selected slot holds a whole image; the one window left (a download
that begins after a rollback selected its slot and before the restart 500 ms
later) leaves the other slot whole, which the bootloader falls back to.
`PowerLossNeverConvicts` and `CrashLoopConvicted` are the two sides of
counting: power resets never add up, counted ones always do, until
the eight-bit counter has run round. `VerifiedNotReverted` relates `pc`, NVS and
the slots: no rollback starts from the verified image on a boot that could read
NVS. `AbortFindsImage`: an unconfirmed image always has a whole one to abort to.
`BadOnTrial`: an application that runs and never reports healthy is on trial,
whatever NVS holds or lost, or its rollback found nothing to go back to.
`BadImageLeft` is the promise of the module, as liveness.

**migrator.** `Migrates` is the refinement: over three resets at any step and
failures of any write, what happens to the flash is what `HiMigration` allows.
`UnbootableOnlyByCut` and `MigratorKept` are what the comments of hi_migrator.c
claim beyond it. `TableFirst`, `WritesChecked` and `OtaOnNewLayout`, which the
refinement contains, are theorems of their own and need no run. `AbortStopsInstall` (rollbacks by the bootloader are
respected) is the side of `RollbackStopsInstall` that holds; it is proved. `CommitCompletes` is liveness: a commit that
nothing cuts ends with the firmware running or an error reported. It excepts an
operator who starts `/admin/su` beside `install_task`, which hi_migrator.c:384
allows: the two downloads may erase each other's result, each time anew.

**ota.** `OnlyMissingMuted` bounds the muting from both sides: the error of a
missing image never reaches the queue, no other is lost beyond a download.
`OncePerWindow` and `MutedOnlyInWindow` do the same for the
de-duplication, with as many errors as slots. `GuardFreed`: no way through a
download leaves `s_running` set. `FeedbackEnds`: posts that fail report errors,
which are posted, which fail; it ends, because an error is muted for its window,
and only because of that. It supposes that nobody else sends, and that a post
takes `PostTime` at most and nothing else in the task takes a tick: the
posts of the three errors then fit in the window of 3. They have to: with a window of
2 TLC finds the task posting for ever, each error let through again when the
posts of the others are done. Time goes on throughout, so that every window
opens again and again.

**mqtt.** `AllSubscribed`: whichever of the two tasks sees the other, a
subscription added while a connection comes up is asked for, and made unless esp-mqtt
refuses it. `OneStateOffline`:
the check before the enqueue is not atomic with it, but an outage queues one
state at most. `OnlineWhenSent`, `StateRefreshed`: what is retained at the
broker becomes true again on a connection that lasts, unless the outbox refused
it.

**mqtt_data.** `Delivers` is the refinement: a callback gets exactly the bytes
of one message of its topic, every message that fits and whose last fragment
arrived reached its callback, and no fragment before that calls anybody.

**auth.** `EndedStaysEnded`: no reset brings a session back that was logged out,
expired or evicted, but one whose write failed. `TtlKept`: neither a
clock that is set late nor a reset gives a session more time, but one that comes
before the session's stamp was written: it is then stamped anew, and may
outlive the stamp that was lost by its age. `BackOffKept`: k
bad passwords take the sum of their delays, whoever tries them. `TokenMatches`
and `SignedOutLeaves` relate a page to the table behind it: a valid page is never
answered 403, and one whose session is gone does not stay.

**net.** `Followed`: once the events are handled `hi_wifi_is_connected()` is what
the station is, and an idle station has its next attempt coming, wherever the
timer went off between them. `Reconnects` and `LinesSent` are liveness: connected again and again; and
every line the buffer took is sent when the connection stays. `ProducersStopped`:
nobody but a task caught between test and use meets the deleted buffer. What that
task meets is not caught by a property, nor is the station after a call of
`esp_wifi_connect()` that was refused (section 5).

**helpers.** `Tracks` and `SentInWindow` are what hi_deadband.h tells its callers,
when the counter wraps and when values are no numbers. `Reveals` compares
the Python tool and the C code, on texts longer than the key and longer
than the positions whose mixing fits a byte, and on values that were damaged.

### Where code and documents disagree

Four runs expect a violation; each is a sentence of the repository taken as a
property (`findings` in `PROJECT.json`):

1. `health_own` / `OwnResetsConvict` (hi_health.h:12-13): the counter belongs to
   no image. A second new image inherits the resets of the first.
2. `migrator_rollback` / `RollbackStopsInstall` (hi_migrator.c:40, 317): only a
   rollback by the bootloader leaves the mark that is looked for; one by
   `hi_health` leaves the slot VALID, and the firmware is installed again.
3. `ota_race` / `AtMostOneRun` (hi_ota.h:18): test and set of `s_running` are two
   steps, and the server's task and `app_main` may both pass.
4. `mqtt_status` / `ConnectedIsOnline` (hi_mqtt.h:14): when the outbox is full
   after an outage, `online` is refused and nothing repeats it on that
   connection.

Two more need no run to see:

5. hi_notify.h:21 promises an error once per window, and with more different
   errors than slots hi_notify.c:73 forgets the oldest open window.
   `OncePerWindow` is checked and proved for no more errors than slots.
6. hi_mqtt.h:78 promises a subscription "now if connected and again after every
   reconnect". `esp_mqtt_client_subscribe()` may refuse it on a live connection,
   with its outbox full after an outage (-2) or without memory (-1); hi_mqtt.c:121
   logs a warning, and nothing asks again before the next connection. `AllSubscribed`
   excepts these (`denied`).

### Bounds

* *Images and slots.* Two slots are the hardware's. A property is about one
  image against another; a third occurs in `health_own`, which needs it. Theorems
  hold for any set of images.
* *MaxBoots, BootsMod.* 1 of 3: a conviction takes two boots and the counter can
  run round; the code has 256, a limit of 255 could
  never be exceeded and is outside `BootsAssumption`. The safety properties are
  proved for every limit and width.
* *MaxFaults* bounds power cuts and boots without NVS (health), cuts and crashes
  (migrator), accesses to NVS that fail (auth): in the migrator three, so that one
  can hit the recovery from another; one where liveness or the size of the
  tables makes more too slow, and the theorems hold for any number.
  Firmware crashes of `HiHealth` are unbounded. *MaxUpdates* bounds
  downloads: one, which can race a rollback or follow it.
* *Ticks.* 4 and 2 in units of 500 ms; all the model uses is that a restart timer
  armed before a commit fires before its first write.
* *Slots, QueueSize, OutboxLimit.* 2: full and evicting within few steps.
* *Cooldown 3, PostTime 1.* The shortest window the posts of the three errors fit in;
  time has no bound, so windows open, close and open again.
* *MaxLen 2, Longest 3, Numbers 3.* One byte more than fits, every way to cut
  a message in fragments, and a number for the message before and after.
* *MaxSessions 2, MaxLogins 3.* One login more than entries: an eviction.
  *MaxTime* 3 and *TTL* 1: a session is stamped, found in time and found too late.
  *MaxBoots* 2: before and after a reset. *LockoutMax* 2: the delays 1, 2, 2.
  *MaxShift* is the code's 16: with a `lockout_max_s` above 2^16 the delays stop
  at 2^16 s, and hi_auth.h:35 would not quite hold, which is why `BackOffsAddUp`
  supposes `Capped`.
* *RetryMax 5, MaxEvents 3.* Delays of 2, 4, 5, 5; a disconnect, an address and
  another disconnect in the queue at once. *Capacity 2, MaxLines 4*: full, a line
  in flight, and lines that come after.
* *Readings 0 to 3, Delta 2.* Drifts of one, jumps of more. *MaxGap* 5 is no
  whole number of *Period*s (2); the case of one that is has the theorem alone.
  *Seconds* 16: the counter wraps within a few gaps.

`CHECK_DEADLOCK FALSE` is set for the migrator (a device whose region is torn, or
whose both slots are, stops) and for
`net` (after a refused `esp_wifi_connect()` the station stops, and lines are
bounded). All others are checked for deadlock.

### Fairness

* `HiHealth`: the CPU and the health task run (weak), and a download that was
  written is selected. Strong fairness where a crash may come first: an image
  does not crash at the very same step of the boot on each attempt for ever. Nothing
  is assumed of the network, of `is_healthy()` or of resets.
* `HiMigrator`: tasks run and time passes (weak); a download that is tried for
  ever succeeds, and a restart asked for does not always come first (strong).
  Nobody is assumed to send a request.
* `HiOta`: callers in the middle of a call and the tasks go on, the notify task
  too; a download ends, by its timeouts if need be. How long a post takes is an
  assumption of `FeedbackEnds` (`ShortPosts`), not of the specification.
* `HiMqtt`: tasks run, a connected broker acknowledges. The state task's period
  is given no fairness, so that the refresh cannot come from it.
* `HiHttpd`: a reset device starts again, while it may, and an open page goes on
  asking, with an answer now and then. Nobody is assumed to sign in or out.
* `HiLog`: the handler of events, the timers and `udp_task` run, and an attempt to join
  ends (weak); when joining is possible again and again it succeeds (strong).

FreeRTOS schedules all these tasks preemptively and none of them spins, which is
what justifies weak fairness of each task. `HiMqttData`, `HiDeadband` and
`HiSecret` need none.

## 4. Proofs

The eight modules of proofs are checked to the last leaf. Nothing is
assumed but the assumptions named in the modules, and three hypotheses that the
theorems name: `OneCaller` and `FewErrors` of `HiOtaProofs` and `Capped` of
`HiHttpdProofs`. Every safety invariant that a passing run checks, every action
property and both refinements are theorems; only liveness is left to TLC.

**HiHealth**, from `ImageAssumption` (good images are images; None and Partial
are not), `BootsAssumption` (0 < MaxBoots < BootsMod) and `BoundAssumption`.
Types come first, then three invariants, each inductive with `TypeOK`:

* `SlotInv` gives `SelectedSlotWhole` and `AbortSafe`. `BootSlotComplete` is not
  inductive: what a download may erase depends on where
  a rollback is, so the invariant adds that the running slot is whole, that
  the slot not selected is never unconfirmed, that a download that is writing
  has not been overtaken by a selection unless it raced it, and that nothing
  runs beside early boot.
* `CountInv` gives `PowerLossInnocent` and `CrashLoopEnds`. It ties the history
  to NVS, `nvs.boots = strikes` until the counter has run round, which neither
  property says, and says that a conviction clears both.
* `TrustInv` gives `VerifiedStays`: a pending image on a boot with NVS is
  not the verified one, except between the two writes of a verification.

`TrialInv`, with `SlotInv`, gives `BadStaysOnTrial`: only an image that reported
healthy is ever stored as verified, so that early boot trusts no other, and a
trial ends without a verdict only where the other slot holds nothing whole; what
a download then brings there is selected next. This is the safety core of
`BadImageLeft`: liveness adds that a trial comes to an end.

**HiMigrator**, from `TimeAssumption` (0 < TimerTicks < CommitTicks),
`AttemptsAssumption` and `FaultAssumption`. `IInv` is `TypeOK` and three parts:

* `StageInv`: what each stage says about the tasks (no task outside `serving`;
  `ready` means checked, from ota_1; a download only in the two install stages).
* `TimeInv`: during the commit's delay an armed restart has less time left
  than the delay, hence no timer is armed from the first write on. This
  is where `TimeAssumption` is used, and why `UnbootableOnlyByCut` holds.
* `RegionInv`: `TableFirst`; a torn region is excused or being written; the flags
  `s_table_new` and `s_bootloader_new` agree with the flash but for the region
  just verified; what is being written was not new, the bootloader is written
  on a new table only, and the table under an old bootloader only.

`OnlyCutsUnboot`, `TableComesFirst` and `ChecksBeforeWrites` follow.
`DownloadsOnNewLayout` adds `SlotInv`: in the install stages everything is new
and the migrator runs from ota_1, and the slot it runs from holds it.

`WayBackKept` (`MigratorKept`) needs `KeptInv`: a legacy image in the low slot is
not selected once the table is touched, because the slot that is selected is the
migrator's and was confirmed before anything was written; firmware is
only ever beside the new table, and a new region is never written again
(`NewStays`). `AbortRespected` needs `AbortInv`: the mark of a rollback
stays until an operator asks for a download.

`ImplementsMigration` is the refinement of `HiMigration`, on top of all these and
`PlanInv` (firmware in a slot means new regions; what is being programmed is
torn; so is a slot that is being copied into, and one that is being downloaded
into, until the firmware is whole).
`Bootloader`, `Reset`, `Cut`, the relocation, each flash step of a download and
each step of the commit map to the steps of their names (`BootloaderMigrates` to
`CommitMigrates`), every other step to stuttering (`StepMigrates`). `TurnOfJob`
is the heart of it: the region `commit_task` is at is the one whose turn it is,
restores and retries included. `MigrationInOrder` is about the abstract
specification alone: it implies the order of the writes, and that a board that
does not boot has an excuse.

**HiMqttData**: `Receiving` says that the bytes taken of a message that fits are
at the start of its subscription's buffer, and that one that does not fit has
no subscription. With it `ImplementsDelivery` maps the fragment that ends a
message to its delivery, and the others to stuttering steps.

**HiMqtt**: `TaskInv` ties where each task is to the connection. `SubInv` gives
`NoneLeftOut`: after the loop all subscriptions are asked for (`Asked`: made, or
refused) but the `Pending` one, which the application's task has added and not yet looked after. `OfflineInv` gives
`OneStateQueued`: a state queued in an outage was checked before it, so no other
is being built. `StatusInv` gives `ShownOnline`.

**HiOta**: `TypeCorrect`, `MutedForItself` and `GuardNeverStranded` hold for any
callers, errors and slots. The last is the safety core of `GuardFreed`: a guard
that is set has a caller or a task that will free it, even when two callers
passed its test at once; liveness adds that these run. `OneRunForOneCaller` and
`OnlyMissingIsMuted` suppose `OneCaller`, which is what `ota_race` refutes without: `GuardInv` says that `s_running` covers the
call and the task, `MuteInv` that the flag is set exactly during a download.
`OnceForFewErrors` supposes `FewErrors`, no more errors (that of a missing image counted
with them) than slots: an error without a slot then finds one whose window is
closed, by counting (`ClosedSlot`), and the oldest slot is such a one.

**HiHttpd**: `IsTable` (no session twice) and `Dated` (each copy of a table
carries the first stamps) hold of the tables in RAM and in NVS, whenever the last
write did not fail; `OperationInv` shows it once for all operations, as each
writes the tables it makes in turn. `FirstStampStays` says what `first` is: it
changes only where a start undoes a failed write, which is the exception of
`NoSessionOutlives`. `TokenInv` ties the token of a page to
the key in NVS and to its cookie.

`TypeInv` bounds the times, the pages and the failures, and gives `TypeCorrect`:
the counter stays below the number of wrong passwords that fit in the time since
the first of them, as every delay is a second or more. `BackOffsAddUp`
(`BackOffKept`) is about sums: `Delay`, which shifts, and `BackOff`, which doubles
and is cut off, are the same function, and `Waited` is its sum. Both are recursive
functions over the naturals; that a set of naturals with 0 and every successor is
all of them (`NatsIn`) follows from the least element of its complement
(`WFMin`), and `Iterates` gives recursive functions their equations the same way.
It supposes `Capped`, that the longest shift reaches the longest delay; the code
shifts by up to 16, for 2^16 s, and devices have a `lockout_max_s` of 300.

**HiLog**: `BufferInv` says how long the buffer lives and who may come to use
it; `NoGap` that every line taken was sent, is being sent or waits, which with
`TypeCorrect` gives their order. `WifiInv` gives `StationFollowed`: the last event
that waits tells whether the station is up, and an idle station has the timer or
an event that will arm it. That nothing but the start can come first is part of it:
the timer is not armed yet and the driver does nothing before `esp_wifi_connect()`.

**HiDeadband and HiSecret**: `Remembered` ties the counter to the quiet time: they
agree up to one wrap (`Wraps`), because a send comes before a second one.
`ReceiverTracks` and `NoQuietWindow` hold for any readings, gap, period and width with `MaxGap + Period <= Seconds`.

`SecretsReturn` (`Reveals`) holds for every key, text and size. `ByteXor` is
defined bit by bit (`Bit`, `Differ`), mixing a byte with the same one twice gives it back, two
digits of 16 make it again, and a value with a digit missing has no even length;
hence `Reveal` undoes `Obfuscated` place by place, for texts of any length.

**Only model-checked.** Liveness (`BadImageLeft`, `CommitCompletes`,
`GuardFreed`, `FeedbackEnds`, `StateRefreshed`, `SignedOutLeaves`, `Reconnects`,
`LinesSent`), which is out of the prover's reach; of the first and the third the
safety core is proved. The four violations are counterexamples and need no proof.

## 5. Not modelled

* Most lines of the repository are generated tables of glyphs
  (`design/fonts/generated`, about 15,000 of 18,000 lines of C): data, without
  a state or a decision. The views, the design tokens and the generators in
  `tools/` run at build time.
* Cryptography (PBKDF2, HMAC, constant-time comparison, the SHA-256 of images):
  an image is its hash, a token its number, a comparison an equality.
* `hi_httpd`: the refusals for Host, Origin, Content-Type, size or an admin header
  that is wrong change no state; pages, JSON and status are output. The admin
  handlers start what `HiOta` and `HiMigrator` have.
* The web shell: tabs and formatting. The swipe control keeps whether it fired
  within one gesture, in one thread of events; what it fires is a request of `HiHttpd`.
* `hi_ntp`: the configuration of SNTP and the text of the boot time.
* What `run_checks()` compares is one answer, yes or no. So is the check of an image.
* esp-mqtt drops messages that wait in its outbox too long, and may report a
  lost connection twice; neither is modelled.
* Weak memory: the flags are aligned words, and accesses take effect in program
  order, but for `s_ringbuf`, which is read twice.
* Logs, statistics, rendering, topic strings, colours: output without state.

Hazards that no property covers, each of which the code accepts:

* A download that an unverified image starts erases the last verified one
  (hi_ota.c:57). A DELETE that fails leaves the image on the server (hi_ota.c:64).
* A slot is marked before the post (hi_notify.c:74): an error whose post failed is
  muted for a window. With `error_cooldown_s` = 0, with posts that take as long as
  the window, or with texts that differ each time, posts that fail feed
  themselves for ever.
* A subscription that esp-mqtt refuses is missing until the next connection
  (hi_mqtt.c:121).
* An enqueue waits for the client's lock, which is held across a connect attempt
  (hi_mqtt.c:59): a rule on the callers (hi_mqtt.h:65-68). A state whose document
  cannot be built is skipped until the next period (hi_mqtt.c:90-95).
* `run_checks()` looks at the layout once a boot (hi_migrator.c:465): what it found
  is what a later request is answered with.
* Loss of an address without loss of the link is not handled (hi_wifi.c:80): the
  station looks connected. An `esp_wifi_connect()` that is refused while idle is
  not tried again (hi_wifi.c:26).
* A session made before the clock was set counts as the oldest and is evicted
  first, even when it is the newest (hi_auth.c:211).
* A login in one tab leaves another one with the token of the session before:
  it is answered 403 until it is loaded again (hi_httpd.c:126). So does a key that
  was made up without NVS, after the next reset.
* A task that is stopped for 100 ms between test and use of `s_ringbuf` may use
  the deleted buffer (hi_log.c:70); where the build reads it again, a NULL at once.

## 6. Plan

The order was that of importance: what can lose a device first (health,
migrator), what can lose its contact next (ota, notify, mqtt), then who may
command it (auth, httpd), then the rest (wifi, log, helpers).

Done: every component with a state at run time has its module, each module a
run, and each safety property a proof; the migration and the reassembly of
messages implement an abstract specification.

What could follow: abstract specifications of the trial of an image and of a
session, with `HiHealth` and `HiHttpd` shown to implement them; the safety cores
of the other liveness properties; two tabs of one browser; the swipe control; the
composition of `HiWifi` with `HiMqtt`, so that an outage of both is one event.
