------------------------------- MODULE HiOta -------------------------------
(***************************************************************************)
(* Downloads of new firmware (src/hi_ota.c) beside the notifications they  *)
(* mute (HiNotify).  hi_ota_start_background() is called by the tasks of   *)
(* Caller, app_main and the HTTP server; its check of s_running and its    *)
(* claim are two steps, as are the claim and the worker's own.             *)
(* hi_ota_run() mutes the errors that a missing image raises.              *)
(***************************************************************************)
EXTENDS HiNotify, FiniteSets

CONSTANTS
    Caller,     \* tasks that call hi_ota_start_background()
    Task,       \* bound: the ota_task instances that may exist at a time
    Missing     \* the error esp_https_ota() logs when no image is published

ASSUME OtaAssumption == Missing \in Error

VARIABLES
    ready,      \* hi_ota_init() was called: url is set
    s_running,  \* the guard of the background task
    call,       \* where each caller is in hi_ota_start_background()
    work,       \* where each ota_task is; "none": it does not exist
    published   \* the server has an image

otaVars == <<ready, s_running, call, work, published>>
vars    == <<queue, item, phase, dedup, suppressed, wifi, sent, lag,
             ready, s_running, call, work, published>>

OtaInit ==
    /\ ready = FALSE /\ s_running = FALSE
    /\ call = [c \in Caller |-> "idle"]
    /\ work = [t \in Task |-> "none"]
    /\ published \in BOOLEAN

Init == NotifyInit /\ OtaInit

Running(t) == work[t] \in {"begin", "download", "failed", "installed", "delete",
                           "restart"}

-----------------------------------------------------------------------------
(* hi_ota_init() and hi_ota_start_background()                             *)

Configure == /\ ~ready /\ ready' = TRUE
             /\ UNCHANGED <<s_running, call, work, published>>
             /\ UNCHANGED notifyVars

Check(c) ==
    /\ call[c] = "idle" /\ ready /\ ~s_running
    /\ call' = [call EXCEPT ![c] = "checked"]
    /\ UNCHANGED <<ready, s_running, work, published>>
    /\ UNCHANGED notifyVars

Claim(c) ==
    /\ call[c] = "checked"
    /\ s_running' = TRUE
    /\ call' = [call EXCEPT ![c] = "claimed"]
    /\ UNCHANGED <<ready, work, published>> /\ UNCHANGED notifyVars

\* xTaskCreate(ota_task), or the claim is given back.
Spawn(c) ==
    /\ call[c] = "claimed"
    /\ call' = [call EXCEPT ![c] = "idle"]
    /\ \/ /\ \E t \in Task : work[t] = "none" /\ work' = [work EXCEPT ![t] = "begin"]
          /\ UNCHANGED s_running
       \/ s_running' = FALSE /\ UNCHANGED work
    /\ UNCHANGED <<ready, published>> /\ UNCHANGED notifyVars

-----------------------------------------------------------------------------
(* ota_task and hi_ota_run()                                               *)

Go(t, from, to) == work[t] = from /\ work' = [work EXCEPT ![t] = to]
Suppress(b) == /\ suppressed' = b
               /\ UNCHANGED <<queue, notifyTask, wifi>>

Begin(t) ==
    /\ Go(t, "begin", "download") /\ Suppress(TRUE)
    /\ UNCHANGED <<ready, s_running, call, published>>

\* esp_https_ota() fails, with an error line that is forwarded to
\* hi_notify_error().
DownloadFails(t) ==
    /\ Go(t, "download", "failed")
    /\ RaiseError(Missing)
    /\ UNCHANGED <<notifyTask, suppressed, wifi>>
    /\ UNCHANGED <<ready, s_running, call, published>>

DownloadEnds(t) ==
    /\ published /\ Go(t, "download", "installed")
    /\ UNCHANGED <<ready, s_running, call, published>>
    /\ UNCHANGED notifyVars

UnmuteOnSuccess(t) ==
    /\ \/ Go(t, "failed", "end") /\ UNCHANGED notifyVars
       \/ Go(t, "installed", "delete") /\ Suppress(FALSE)
    /\ UNCHANGED <<ready, s_running, call, published>>
Unmute(t) ==
    /\ Go(t, "failed", "end") \/ Go(t, "installed", "delete")
    /\ Suppress(FALSE)
    /\ UNCHANGED <<ready, s_running, call, published>>

\* delete_bin(), if it is configured: the image is gone from the server, or it
\* is not.
Delete(t) ==
    /\ Go(t, "delete", "restart")
    /\ published' \in {published, FALSE}
    /\ UNCHANGED <<ready, s_running, call>> /\ UNCHANGED notifyVars

\* esp_restart(), 300 ms later: what is in RAM starts over, and so does the
\* history, which is of this boot.
Restart(t) ==
    /\ work[t] = "restart"
    /\ ready' = FALSE /\ s_running' = FALSE
    /\ call' = [c \in Caller |-> "idle"] /\ work' = [k \in Task |-> "none"]
    /\ queue' = << >> /\ item' = Alarm /\ phase' = "idle"
    /\ dedup' = [i \in Slot |-> Empty] /\ suppressed' = FALSE
    /\ wifi' = FALSE /\ sent' = [e \in Error |-> Cooldown] /\ lag' = 0
    /\ UNCHANGED published

EndForgotten(t) ==
    /\ Go(t, "end", "none")
    /\ UNCHANGED <<ready, s_running, call, published>>
    /\ UNCHANGED notifyVars
End(t) ==
    /\ Go(t, "end", "none")
    /\ s_running' = FALSE
    /\ UNCHANGED <<ready, call, published>> /\ UNCHANGED notifyVars

\* An image is published.
Publish == /\ ~published /\ published' = TRUE
           /\ UNCHANGED <<ready, s_running, call, work>>
           /\ UNCHANGED notifyVars

Start(c)  == Check(c) \/ Claim(c) \/ Spawn(c)
Worker(t) == \/ Begin(t) \/ DownloadFails(t) \/ DownloadEnds(t) \/ Unmute(t)
             \/ Delete(t) \/ Restart(t) \/ End(t)

Next == \/ Configure \/ Publish
        \/ \E c \in Caller : Start(c)
        \/ \E t \in Task : Worker(t)
        \/ NotifyNext(Error \ {Missing}) /\ UNCHANGED otaVars

Spec == Init /\ [][Next]_vars

(* The tasks run, and a download ends, by its 10 s timeouts if need be.    *)
FairSpec ==
    /\ Spec
    /\ \A c \in Caller : WF_vars(Claim(c) \/ Spawn(c))
    /\ \A t \in Task : WF_vars(Worker(t))
    /\ WF_vars(NotifyTask(Error \ {Missing}) /\ UNCHANGED otaVars)

-----------------------------------------------------------------------------
\* Every variable stays in its type.
TypeOK ==
    /\ NotifyTypeOK
    /\ ready \in BOOLEAN /\ s_running \in BOOLEAN /\ published \in BOOLEAN
    /\ call \in [Caller -> {"idle", "checked", "claimed"}]
    /\ work \in [Task -> {"none", "begin", "download", "failed", "installed",
                            "delete", "restart", "end"}]

\* "false when already running" (hi_ota.h:18): two runs never write the
\* slot at the same time.
AtMostOneRun == Cardinality({t \in Task : Running(t)}) <= 1

\* "do not turn it into an error notification" (hi_ota.c:55): the error of a
\* missing image never reaches the queue, and no other error is lost for it:
\* errors are muted for no longer than a download lasts.
OnlyMissingMuted ==
    /\ \A i \in 1 .. Len(queue) : queue[i] # Missing
    /\ suppressed => \E t \in Task : work[t] \in {"download", "failed", "installed"}

\* The guard is freed again, by the worker, by its caller or by a restart, so
\* that the next download can start (hi_ota.c:69, 76, 85).
GuardFreed == s_running ~> ~s_running
=============================================================================
