------------------------------- MODULE HiLog -------------------------------
(***************************************************************************)
(* Log lines over UDP (src/hi_log.c).  Every task that logs runs           *)
(* log_vprintf(), which puts the line into a ring buffer; udp_task() waits *)
(* for WiFi, opens a socket and sends what is in the buffer.  When there   *)
(* is no socket it deletes the buffer, 100 ms after s_ringbuf was cleared. *)
(*                                                                         *)
(* log_vprintf() reads s_ringbuf twice, once to test it and once to use    *)
(* it; the build may also keep the value it tested.  Lines are numbered in *)
(* the order in which the buffer took them.                                *)
(***************************************************************************)
EXTENDS HiWifi, FiniteSets

CONSTANTS
    Producer,    \* the tasks that log
    Capacity,    \* lines that RINGBUF_SIZE takes
    MaxLines     \* bound: lines

ASSUME LogAssumption == Capacity \in Nat \ {0} /\ MaxLines \in Nat

VARIABLES
    s_ringbuf,   \* the pointer is not NULL
    live,        \* the buffer exists
    items,       \* the lines in it
    lines,       \* lines it took
    pc,          \* where each producer is in log_vprintf()
    task,        \* where udp_task() is
    item,        \* the line udp_task() received and not yet returned; 0: none
    sent,        \* history: how many lines went to sendto()
    caught,      \* history: the producers between test and use when s_ringbuf was cleared
    misused      \* history: the producers that used the buffer when there was none

logVars == <<s_ringbuf, live, items, lines, pc, task, item, sent, caught, misused>>
vars == <<wifiVars, logVars>>

LogInit ==
    /\ s_ringbuf = FALSE /\ live = FALSE /\ items = << >> /\ lines = 0
    /\ pc = [p \in Producer |-> "idle"] /\ task = "none" /\ item = 0
    /\ sent = 0 /\ caught = {} /\ misused = {}

-----------------------------------------------------------------------------
\* hi_log_init(): the buffer is created, then the task; without the task the
\* buffer is deleted again.  log_vprintf() is not called before it returns.
InitLog(works) ==
    /\ task = "none"
    /\ s_ringbuf' = works /\ live' = works
    /\ task' = IF works THEN "waiting" ELSE "absent"
    /\ UNCHANGED <<items, lines, pc, item, sent, caught, misused>>

\* log_vprintf(): "s_ringbuf != NULL"
Tests(p) ==
    /\ task # "none" /\ pc[p] = "idle" /\ lines < MaxLines
    /\ s_ringbuf /\ pc' = [pc EXCEPT ![p] = "uses"]
    /\ UNCHANGED <<s_ringbuf, live, items, lines, task, item, sent, caught, misused>>

\* xRingbufferSend() with no time to wait: a line that does not fit is lost.
FitsAlways == TRUE
Fits == Len(items) + (IF item # 0 THEN 1 ELSE 0) < Capacity
Uses(p) ==
    /\ pc[p] = "uses" /\ pc' = [pc EXCEPT ![p] = "idle"]
    /\ IF live /\ Fits /\ lines < MaxLines
       THEN lines' = lines + 1 /\ items' = Append(items, lines')
       ELSE UNCHANGED <<lines, items>>
    /\ \E again \in BOOLEAN :
           misused' = IF ~live \/ (again /\ ~s_ringbuf) THEN misused \cup {p} ELSE misused
    /\ UNCHANGED <<s_ringbuf, live, task, item, sent, caught>>

\* "s_ringbuf = NULL;  // stop producers first"
NotCleared == UNCHANGED s_ringbuf
Cleared == s_ringbuf' = FALSE

\* udp_task(): the wait for WiFi, then socket(), which may fail.
OpensSocket(works) ==
    /\ task = "waiting" /\ s_connected
    /\ task' = IF works THEN "receiving" ELSE "stopping"
    /\ IF works THEN UNCHANGED <<s_ringbuf, caught>>
       ELSE Cleared /\ caught' = {p \in Producer : pc[p] = "uses"}
    /\ UNCHANGED <<live, items, lines, pc, item, sent, misused>>

\* "vTaskDelay(pdMS_TO_TICKS(100)); vRingbufferDelete(rb)"
Deletes ==
    /\ task = "stopping" /\ task' = "absent"
    /\ live' = FALSE /\ items' = << >>
    /\ UNCHANGED <<s_ringbuf, lines, pc, item, sent, caught, misused>>

Receives ==
    /\ task = "receiving" /\ items # << >>
    /\ item' = Head(items) /\ items' = Tail(items) /\ task' = "sending"
    /\ UNCHANGED <<s_ringbuf, live, lines, pc, sent, caught, misused>>

\* sendto(), whose error is ignored, and vRingbufferReturnItem().
NotReturned == UNCHANGED item
Returned == item' = 0
AfterError == {"receiving", "absent"}
AfterSend == {"receiving"}
Sends ==
    /\ task = "sending" /\ task' \in AfterSend
    /\ sent' = item /\ Returned
    /\ UNCHANGED <<s_ringbuf, live, items, lines, pc, caught, misused>>

UdpTask == (\E works \in BOOLEAN : OpensSocket(works)) \/ Deletes \/ Receives \/ Sends

LogNext ==
    \/ \E works \in BOOLEAN : InitLog(works)
    \/ \E p \in Producer : Tests(p) \/ Uses(p)
    \/ UdpTask

Init == WifiInit /\ LogInit
Next == (WifiNext /\ UNCHANGED logVars) \/ (LogNext /\ UNCHANGED wifiVars)
Spec == Init /\ [][Next]_vars

\* The tasks run, udp_task() too, which has the lowest priority; the driver
\* ends every attempt to join, and when it can join again and again it does.
Wifi(action) == action /\ UNCHANGED logVars
FairSpec ==
    /\ Spec
    /\ WF_vars(Wifi(Start)) /\ WF_vars(Wifi(Handler)) /\ WF_vars(Wifi(Timers))
    /\ WF_vars(Wifi(Joins \/ JoinFails)) /\ SF_vars(Wifi(Joins))
    /\ WF_vars(UdpTask /\ UNCHANGED wifiVars)

-----------------------------------------------------------------------------
\* Every variable stays in its type; the buffer holds what fits, in order, and
\* the line that is being sent is the one before them.
TypeOK ==
    /\ WifiTypeOK
    /\ s_ringbuf \in BOOLEAN /\ live \in BOOLEAN
    /\ caught \subseteq Producer /\ misused \subseteq Producer
    /\ lines \in 0 .. MaxLines /\ sent \in 0 .. lines
    /\ items \in Seq(1 .. MaxLines)
    /\ items = [i \in 1 .. Len(items) |-> lines - Len(items) + i]
    /\ Len(items) + (IF item # 0 THEN 1 ELSE 0) <= Capacity
    /\ pc \in [Producer -> {"idle", "uses"}]
    /\ task \in {"none", "waiting", "receiving", "sending", "stopping", "absent"}
    /\ item = IF task = "sending" THEN sent + 1 ELSE 0

\* "UDP sending starts once WiFi is connected, earlier lines wait in the
\* buffer" (hi_log.h:14-15): when WiFi stays, every line the buffer took goes
\* to sendto(), unless there was no socket to be had.
LinesSent == <>[]s_connected => []<>(sent = lines \/ ~live)

\* "stop producers first" (hi_log.c:70): a task that calls log_vprintf() after
\* s_ringbuf was cleared never uses the deleted buffer; only one that had
\* already tested it then may, for which the 100 ms are meant.
ProducersStopped == misused \subseteq caught
=============================================================================
