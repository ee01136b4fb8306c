------------------------------ MODULE HiNotify ------------------------------
(***************************************************************************)
(* Notifications (src/hi_notify.c): any task queues an item and is never   *)
(* blocked; the notify task takes the items in order, drops them while     *)
(* WiFi is down, sends the same error at most once per window, and posts.  *)
(*                                                                         *)
(* An error stands for the hash of its text without the log prefix, which  *)
(* is all dedup_should_send() compares (hi_notify.c:60-62).  Events,       *)
(* warnings and alarms take one path and are one channel here, "alarm".    *)
(*                                                                         *)
(* Of the clock only differences matter, and of these only whether they    *)
(* reach the window: a slot has an age, which is not followed past the     *)
(* window, and time never stops.  Slots whose window is over differ only   *)
(* in which of them is reused first, which changes nothing: each would let *)
(* its error through, as no slot would.                                    *)
(***************************************************************************)
EXTENDS Integers, Sequences

CONSTANTS
    Error,       \* error texts
    Alarm,       \* the item of the other channels
    QueueSize,   \* s_config.queue_size
    Slots,       \* DEDUP_SLOTS
    Cooldown,    \* s_config.error_cooldown_s, in ticks
    PostTime     \* the longest post that FeedbackEnds speaks of, in ticks

ASSUME NotifyAssumption ==
    /\ QueueSize \in Nat \ {0} /\ Slots \in Nat \ {0}
    /\ Cooldown \in Nat /\ PostTime \in Nat
    /\ Alarm \notin Error

VARIABLES
    queue,        \* s_queue
    item,         \* what the notify task has received
    phase,        \* where the notify task is
    dedup,        \* s_dedup
    suppressed,   \* s_error_suppressed
    wifi,         \* hi_wifi_is_connected()
    sent,         \* history: ticks since each error was last let through
    lag           \* history: ticks the notify task has spent on this step

notifyTask == <<item, phase, dedup, sent, lag>>
notifyVars == <<queue, item, phase, dedup, suppressed, wifi, sent, lag>>

Slot  == 1 .. Slots
Item  == Error \cup {Alarm}
Age   == 0 .. Cooldown
Empty == [hash |-> Alarm, age |-> Cooldown]     \* last_sent_ms == 0: the oldest

NotifyInit ==
    /\ queue = << >> /\ item = Alarm /\ phase = "idle"
    /\ dedup = [i \in Slot |-> Empty]
    /\ suppressed = FALSE /\ wifi = FALSE
    /\ sent = [e \in Error |-> Cooldown] /\ lag = 0

-----------------------------------------------------------------------------
(* The senders, in tasks of their own.                                     *)

\* xQueueSend() without waiting: an item is dropped when the queue is full.
PutAlways(q, x) == Append(q, x)
Put(q, x) == IF Len(q) < QueueSize THEN Append(q, x) ELSE q

\* hi_notify_error(), and the rest of the interface.
ReportedUnmuted(q, e) == Put(q, e)
Reported(q, e) == IF suppressed THEN q ELSE Put(q, e)
RaiseError(e) == queue' = Reported(queue, e)
RaiseAlarm    == queue' = Put(queue, Alarm)

\* Any task reports an event or one of the given errors.
Send(errors) ==
    /\ RaiseAlarm \/ \E e \in errors : RaiseError(e)
    /\ UNCHANGED <<notifyTask, suppressed, wifi>>

-----------------------------------------------------------------------------
(* notify_task                                                             *)

Receive ==
    /\ phase = "idle" /\ queue # << >>
    /\ item' = Head(queue) /\ queue' = Tail(queue)
    /\ phase' = IF wifi THEN "decide" ELSE "idle"
    /\ lag' = 0
    /\ UNCHANGED <<dedup, suppressed, wifi, sent>>

\* dedup_should_send(): the slot of this error, else the oldest slot.
SlotOf(e) == {i \in Slot : dedup[i].hash = e}
OldestFirst == 1
Oldest    == CHOOSE i \in Slot : /\ \A j \in Slot : dedup[i].age >= dedup[j].age
                                 /\ \A j \in 1 .. i - 1 : dedup[i].age > dedup[j].age
TooSoonInclusive(i) == dedup[i].age <= Cooldown
TooSoon(i) == dedup[i].age < Cooldown

Mute ==
    /\ phase = "decide" /\ \E i \in SlotOf(item) : TooSoon(i)
    /\ phase' = "idle" /\ lag' = 0
    /\ UNCHANGED <<queue, item, dedup, suppressed, wifi, sent>>

\* The slot is marked before the post, whatever becomes of it.
MarkedNever(i, e) == dedup
Marked(i, e) == [dedup EXCEPT ![i] = [hash |-> e, age |-> 0]]
LetThrough ==
    /\ phase = "decide" /\ item # Alarm
    /\ \A i \in SlotOf(item) : ~TooSoon(i)
    /\ LET i == IF SlotOf(item) # {} THEN CHOOSE k \in SlotOf(item) : TRUE ELSE Oldest
       IN dedup' = Marked(i, item)
    /\ sent' = [sent EXCEPT ![item] = 0]
    /\ phase' = "post" /\ lag' = 0
    /\ UNCHANGED <<queue, item, suppressed, wifi>>

PassAlarm ==
    /\ phase = "decide" /\ item = Alarm /\ phase' = "post" /\ lag' = 0
    /\ UNCHANGED <<queue, item, dedup, suppressed, wifi, sent>>

\* post_ntfy(): the item is gone whether or not it was sent.  A failure is only
\* a warning here, "an error line would be forwarded to notifications again";
\* but the HTTP client logs error lines of its own, one or two, which
\* log_vprintf() hands to hi_notify_error() in this very task.
Posted == /\ phase = "post" /\ phase' = "idle" /\ lag' = 0
          /\ UNCHANGED <<item, dedup, suppressed, wifi, sent>>
Post == Posted /\ UNCHANGED queue
PostFails(errors) ==
    /\ Posted
    /\ \E e, f \in errors : queue' = Reported(Reported(queue, e), f)

-----------------------------------------------------------------------------
(* The environment: WiFi comes and goes, time passes.                      *)

WifiChange == /\ wifi' = ~wifi
              /\ UNCHANGED <<queue, notifyTask, suppressed>>

Older(age) == IF age < Cooldown THEN age + 1 ELSE age
Busy == phase # "idle" \/ queue # << >>
NotifyTick ==
    /\ dedup' = [i \in Slot |-> [hash |-> dedup[i].hash, age |-> Older(dedup[i].age)]]
    /\ sent' = [e \in Error |-> Older(sent[e])]
    /\ lag' = IF Busy /\ lag <= PostTime THEN lag + 1 ELSE lag
    /\ UNCHANGED <<queue, item, phase, suppressed, wifi>>

NotifyTask(errors) ==
    Receive \/ Mute \/ LetThrough \/ PassAlarm \/ Post \/ PostFails(errors)
NotifyNext(errors) == Send(errors) \/ NotifyTask(errors) \/ WifiChange \/ NotifyTick

-----------------------------------------------------------------------------
NotifyTypeOK ==
    /\ queue \in Seq(Item) /\ Len(queue) <= QueueSize
    /\ item \in Item /\ phase \in {"idle", "decide", "post"}
    /\ dedup \in [Slot -> [hash : Item, age : Age]]
    /\ suppressed \in BOOLEAN /\ wifi \in BOOLEAN
    /\ sent \in [Error -> Age] /\ lag \in 0 .. PostTime + 1

\* "same error text is sent at most once per window" (hi_notify.h:21): it
\* holds, from one boot on, as long as no more different errors than slots are
\* around.
OncePerWindow == [][LetThrough => sent[item] >= Cooldown]_notifyVars

\* An error is only muted on account of itself: an error that is withheld was
\* let through less than a window ago, whatever slots were reused since
\* (hi_notify.c:66-75).
MutedOnlyInWindow ==
    [][Mute => item # Alarm /\ sent[item] < Cooldown]_notifyVars

\* "An error line would be forwarded to notifications again" (hi_notify.c:100):
\* posts that fail report errors, each of which may be posted again after its
\* window, and does not wait for it when a post takes that long.  Where the
\* posts of all errors that feed one another fit in a window, they do not keep
\* the task going: once nobody else sends, and time passes in posts that take
\* PostTime at most, it runs out of work.
NobodyElseSends == <>[][UNCHANGED queue \/ NotifyTask(Error)]_notifyVars
ShortPosts == <>[](lag <= IF phase = "post" THEN PostTime ELSE 0)
FeedbackEnds ==
    NobodyElseSends /\ ShortPosts => <>[](queue = << >> /\ phase = "idle")
=============================================================================
