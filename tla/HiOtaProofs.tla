---------------------------- MODULE HiOtaProofs ----------------------------
(***************************************************************************)
(* The promises of HiOta and HiNotify, for any errors, slots, queue and    *)
(* window.  What rests on the guard of the background task is proved for   *)
(* one caller, which is all that hi_ota_start_background() is safe for;    *)
(* what rests on the slots, for no more errors than slots.                 *)
(***************************************************************************)
EXTENDS HiOta, FiniteSetTheorems, WellFoundedInduction, TLAPS

\* The HTTP server, or app_main, but not both.
OneCaller == \A c, d \in Caller : c = d

FewErrors == IsFiniteSet(Error) /\ Cardinality(Error) <= Slots

\* The slots whose window is open.
Open == {i \in Slot : dedup[i].age < Cooldown}

\* Such a slot is that of an error, let through then or since.
DedupInv ==
    \A i \in Open : dedup[i].hash \in Error /\ sent[dedup[i].hash] <= dedup[i].age

USE DEF notifyTask, notifyVars, otaVars

-----------------------------------------------------------------------------
LEMMA PutType ==
  ASSUME NEW q \in Seq(Item), Len(q) <= QueueSize, NEW x \in Item
  PROVE  Put(q, x) \in Seq(Item) /\ Len(Put(q, x)) <= QueueSize
  BY NotifyAssumption DEF Put

LEMMA ReportedType ==
  ASSUME NEW q \in Seq(Item), Len(q) <= QueueSize, NEW e \in Error
  PROVE  Reported(q, e) \in Seq(Item) /\ Len(Reported(q, e)) <= QueueSize
  BY PutType DEF Reported, Item

\* The start of the device, and of every boot.
Fresh ==
    /\ queue = << >> /\ item = Alarm /\ phase = "idle"
    /\ dedup = [i \in Slot |-> Empty]
    /\ suppressed = FALSE /\ wifi = FALSE
    /\ sent = [e \in Error |-> Cooldown] /\ lag = 0

LEMMA FreshType == Fresh => NotifyTypeOK /\ DedupInv
<1> SUFFICES ASSUME Fresh PROVE NotifyTypeOK /\ DedupInv
  OBVIOUS
<1>1. queue \in Seq(Item) /\ Len(queue) <= QueueSize
  BY NotifyAssumption DEF Fresh
<1>2. Empty \in [hash : Item, age : Age] /\ Cooldown \in Age /\ lag \in 0 .. PostTime + 1
  BY NotifyAssumption DEF Fresh, Empty, Item, Age
<1>3. sent \in [Error -> Age] /\ dedup \in [Slot -> [hash : Item, age : Age]]
  BY <1>2 DEF Fresh
<1>4. DedupInv
  BY NotifyAssumption DEF Fresh, DedupInv, Open, Empty
<1> QED BY <1>1, <1>2, <1>3, <1>4 DEF Fresh, NotifyTypeOK, Item

\* An age grows by one up to the window, and keeps its order.
LEMMA OlderAge ==
  ASSUME NEW a \in Age
  PROVE  /\ Older(a) \in Age /\ (Older(a) < Cooldown => a < Cooldown /\ Older(a) = a + 1)
         /\ \A b \in Age : b <= a => Older(b) <= Older(a)
  BY NotifyAssumption DEF Older, Age

\* What a tick does to a slot.
LEMMA TickSlot ==
  ASSUME NotifyTypeOK, NotifyTick, NEW i \in Slot
  PROVE  /\ dedup[i].age \in Age /\ dedup'[i] \in [hash : Item, age : Age]
         /\ dedup'[i].hash = dedup[i].hash /\ dedup'[i].age = Older(dedup[i].age)
<1>1. dedup[i] \in [hash : Item, age : Age]
  BY DEF NotifyTypeOK
<1>2. dedup'[i] = [hash |-> dedup[i].hash, age |-> Older(dedup[i].age)]
  BY DEF NotifyTick
<1>3. dedup[i].hash \in Item /\ dedup[i].age \in Age
  BY <1>1
<1>4. Older(dedup[i].age) \in Age
  BY <1>3, OlderAge
<1> HIDE DEF Older, Age
<1> QED BY <1>2, <1>3, <1>4

LEMMA NotifyType ==
  ASSUME NotifyTypeOK, DedupInv, NEW errors \in SUBSET Error, NotifyNext(errors)
  PROVE  NotifyTypeOK' /\ DedupInv'
<1> USE DEF NotifyTypeOK, DedupInv
<1>0. 0 \in 0 .. PostTime + 1
  BY NotifyAssumption
<1>1. CASE Send(errors)
  <2>1. queue' \in Seq(Item) /\ Len(queue') <= QueueSize
    BY <1>1, PutType, ReportedType DEF Send, RaiseAlarm, RaiseError, Item
  <2> QED BY <1>1, <2>1 DEF Send, Open
<1>2. CASE Receive
  <2>1. queue' \in Seq(Item) /\ Len(queue') <= QueueSize /\ item' \in Item
    BY <1>2, NotifyAssumption DEF Receive
  <2> QED BY <1>0, <1>2, <2>1 DEF Receive, Open
<1>3. CASE Mute \/ PassAlarm
  BY <1>0, <1>3 DEF Mute, PassAlarm, Open
<1>4. CASE LetThrough
  <2>1. PICK i : /\ dedup' = [dedup EXCEPT ![i] = [hash |-> item, age |-> 0]]
                 /\ sent' = [sent EXCEPT ![item] = 0]
    BY <1>4 DEF LetThrough, Marked
  <2>2. item \in Error /\ 0 \in Age /\ \A a \in Age : 0 <= a
    BY <1>4, NotifyAssumption DEF LetThrough, Item, Age
  <2>3. [hash |-> item, age |-> 0] \in [hash : Item, age : Age]
    BY <2>2
  <2>4. dedup' \in [Slot -> [hash : Item, age : Age]] /\ sent' \in [Error -> Age]
    BY <2>1, <2>2, <2>3
  <2>5. \A e \in Error : sent'[e] \in {sent[e], 0} /\ sent'[e] <= sent[e]
    BY <2>1, <2>2 DEF Age
  <2>6. ASSUME NEW j \in Slot, dedup'[j].age < Cooldown
        PROVE  dedup'[j].hash \in Error /\ sent'[dedup'[j].hash] <= dedup'[j].age
    <3>1. CASE j = i
      <4>1. dedup'[j] = [hash |-> item, age |-> 0]
        BY <2>1, <3>1
      <4> QED BY <4>1, <2>1, <2>2
    <3>2. CASE j # i
      <4>1. dedup'[j] = dedup[j] /\ dedup[j].age \in Age /\ j \in Open
        BY <2>1, <2>6, <3>2 DEF Open
      <4>2. dedup[j].hash \in Error /\ sent[dedup[j].hash] <= dedup[j].age
        BY <4>1
      <4> QED BY <4>1, <4>2, <2>4, <2>5, NotifyAssumption DEF Age
    <3> QED BY <3>1, <3>2
  <2>7. DedupInv'
    BY <2>6 DEF Open
  <2>8. lag' \in 0 .. PostTime + 1
    BY <1>4, NotifyAssumption DEF LetThrough
  <2> QED BY <1>4, <2>2, <2>4, <2>7, <2>8 DEF LetThrough
<1>5. CASE Post
  BY <1>0, <1>5 DEF Post, Posted, Open
<1>6. CASE PostFails(errors)
  <2>1. PICK e \in Error, f \in Error : queue' = Reported(Reported(queue, e), f)
    BY <1>6 DEF PostFails
  <2>2. queue' \in Seq(Item) /\ Len(queue') <= QueueSize
    BY <2>1, ReportedType
  <2> QED BY <1>0, <1>6, <2>2 DEF PostFails, Posted, Open
<1>7. CASE WifiChange
  BY <1>7 DEF WifiChange, Open
<1>8. CASE NotifyTick
  <2>1. /\ dedup' = [i \in Slot |-> [hash |-> dedup[i].hash, age |-> Older(dedup[i].age)]]
        /\ sent' = [e \in Error |-> Older(sent[e])]
        /\ UNCHANGED <<queue, item, phase, suppressed, wifi>>
    BY <1>8 DEF NotifyTick
  <2>2. lag' \in 0 .. PostTime + 1
    BY <1>8, NotifyAssumption DEF NotifyTick
  <2>3. \A i \in Slot : /\ dedup[i].age \in Age /\ dedup'[i] \in [hash : Item, age : Age]
                        /\ dedup'[i].hash = dedup[i].hash
                        /\ dedup'[i].age = Older(dedup[i].age)
    BY <1>8, TickSlot
  <2>4. dedup' \in [Slot -> [hash : Item, age : Age]] /\ sent' \in [Error -> Age]
    BY <2>1, <2>3, OlderAge
  <2>5. ASSUME NEW i \in Slot, dedup'[i].age < Cooldown
        PROVE  dedup'[i].hash \in Error /\ sent'[dedup'[i].hash] <= dedup'[i].age
    <3>1. dedup'[i].hash = dedup[i].hash /\ dedup'[i].age = Older(dedup[i].age)
      BY <2>3
    <3>2. dedup[i].hash \in Error /\ sent[dedup[i].hash] <= dedup[i].age
      BY <2>3, <2>5, <3>1, OlderAge DEF Open
    <3>3. sent[dedup[i].hash] \in Age /\ sent'[dedup[i].hash] = Older(sent[dedup[i].hash])
      BY <2>1, <3>2
    <3> QED BY <2>3, <3>1, <3>2, <3>3, OlderAge
  <2>6. DedupInv'
    BY <2>5 DEF Open
  <2> QED BY <2>1, <2>2, <2>4, <2>6
<1> QED BY <1>1, <1>2, <1>3, <1>4, <1>5, <1>6, <1>7, <1>8 DEF NotifyNext, NotifyTask

-----------------------------------------------------------------------------
\* A step of the download task but the restart: the notifications are as they
\* were but for the muting, and for the error of a missing image.
LEMMA WorkerType ==
  ASSUME TypeOK, DedupInv, NEW t \in Task, Worker(t), ~Restart(t)
  PROVE  TypeOK' /\ DedupInv'
<1>1. work' \in [Task -> {"none", "begin", "download", "failed", "installed",
                               "delete", "restart", "end"}]
  BY DEF Worker, Begin, DownloadFails, DownloadEnds, Unmute, Delete, End, Go, TypeOK
<1>2. queue' \in Seq(Item) /\ Len(queue') <= QueueSize
  BY ReportedType, OtaAssumption
     DEF Worker, Begin, DownloadFails, DownloadEnds, Unmute, Delete, End, Suppress,
         RaiseError, TypeOK, NotifyTypeOK
<1>3. /\ suppressed' \in BOOLEAN /\ s_running' \in BOOLEAN /\ published' \in BOOLEAN
      /\ UNCHANGED <<item, phase, dedup, sent, lag, wifi, ready, call>>
  BY DEF Worker, Begin, DownloadFails, DownloadEnds, Unmute, Delete, End, Suppress,
         TypeOK, NotifyTypeOK
<1> QED BY <1>1, <1>2, <1>3 DEF TypeOK, NotifyTypeOK, DedupInv, Open

LEMMA RestartType ==
  ASSUME TypeOK, NEW t \in Task, Restart(t)
  PROVE  TypeOK' /\ DedupInv'
<1>1. Fresh' /\ call' = [c \in Caller |-> "idle"] /\ work' = [k \in Task |-> "none"]
      /\ ready' = FALSE /\ s_running' = FALSE /\ published' = published
  BY DEF Restart, Fresh
<1>2. NotifyTypeOK' /\ DedupInv'
  BY <1>1, FreshType, PTL
<1> QED BY <1>1, <1>2 DEF TypeOK

LEMMA TypeInit == Init => TypeOK /\ DedupInv
<1> SUFFICES ASSUME Init PROVE TypeOK /\ DedupInv
  OBVIOUS
<1>1. NotifyTypeOK /\ DedupInv
  BY FreshType DEF Init, NotifyInit, Fresh
<1> QED BY <1>1 DEF Init, OtaInit, TypeOK

LEMMA TypeNext == TypeOK /\ DedupInv /\ [Next]_vars => TypeOK' /\ DedupInv'
<1> SUFFICES ASSUME TypeOK, DedupInv, [Next]_vars PROVE TypeOK' /\ DedupInv'
  OBVIOUS
<1>1. CASE Configure \/ Publish
  BY <1>1 DEF Configure, Publish, TypeOK, NotifyTypeOK, DedupInv, Open
<1>2. ASSUME NEW c \in Caller, Start(c) PROVE TypeOK' /\ DedupInv'
  <2>1. call' \in [Caller -> {"idle", "checked", "claimed"}]
    BY <1>2 DEF Start, Check, Claim, Spawn, TypeOK
  <2>2. work' \in [Task -> {"none", "begin", "download", "failed", "installed",
                            "delete", "restart", "end"}]
    BY <1>2 DEF Start, Check, Claim, Spawn, TypeOK
  <2> QED BY <1>2, <2>1, <2>2 DEF Start, Check, Claim, Spawn, TypeOK, NotifyTypeOK, DedupInv, Open
<1>3. ASSUME NEW t \in Task, Worker(t) PROVE TypeOK' /\ DedupInv'
  BY <1>3, WorkerType, RestartType
<1>4. CASE NotifyNext(Error \ {Missing}) /\ UNCHANGED otaVars
  <2>1. NotifyTypeOK' /\ DedupInv'
    BY <1>4, NotifyType DEF TypeOK
  <2> QED BY <1>4, <2>1 DEF TypeOK
<1>5. CASE UNCHANGED vars
  BY <1>5 DEF vars, TypeOK, NotifyTypeOK, DedupInv, Open
<1> QED BY <1>1, <1>2, <1>3, <1>4, <1>5 DEF Next

LEMMA TypeInvariance == Spec => [](TypeOK /\ DedupInv)
  BY TypeInit, TypeNext, PTL DEF Spec

\* Every variable stays in its type, for any errors, slots and callers.
THEOREM TypeCorrect == Spec => []TypeOK
  BY TypeInvariance, PTL

\* An error is withheld on account of itself alone, and for less than a
\* window, whatever slots were reused since (hi_notify.c:66-75).
THEOREM MutedForItself == Spec => MutedOnlyInWindow
<1>1. TypeOK /\ DedupInv => (Mute => item # Alarm /\ sent[item] < Cooldown)
  <2> SUFFICES ASSUME TypeOK, DedupInv, Mute
               PROVE  item # Alarm /\ sent[item] < Cooldown
    OBVIOUS
  <2>1. PICK i \in SlotOf(item) : TooSoon(i)
    BY DEF Mute
  <2>2. i \in Open /\ dedup[i].hash = item /\ dedup[i].age \in Age
    BY <2>1 DEF SlotOf, TooSoon, Open, TypeOK, NotifyTypeOK
  <2>3. item \in Error /\ sent[item] <= dedup[i].age /\ sent[item] \in Age
    BY <2>2 DEF DedupInv, TypeOK, NotifyTypeOK
  <2> QED BY <2>2, <2>3, NotifyAssumption DEF Open, Age
<1> QED BY <1>1, TypeInvariance, PTL DEF MutedOnlyInWindow

-----------------------------------------------------------------------------
(* With one caller the test and the set of s_running are as good as one.   *)

Exists(t) == work[t] # "none"

\* One task at most, none while a call goes on, and s_running says so.
GuardInv ==
    /\ \A t, u \in Task : Exists(t) /\ Exists(u) => t = u
    /\ \A t \in Task : Exists(t) => s_running /\ \A c \in Caller : call[c] = "idle"
    /\ \A c \in Caller : /\ call[c] = "checked" => ~s_running
                        /\ call[c] = "claimed" => s_running

\* The mute flag is set exactly while a download goes on.
MuteInv ==
    /\ \A t \in Task : work[t] \in {"download", "failed", "installed"} => suppressed
    /\ suppressed => \E t \in Task : work[t] \in {"download", "failed", "installed"}

NoMissing == \A i \in 1 .. Len(queue) : queue[i] # Missing

OneRunInv == TypeOK /\ GuardInv /\ MuteInv /\ NoMissing

LEMMA PutNoMissing ==
  ASSUME NEW q \in Seq(Item), Len(q) <= QueueSize, NEW x \in Item, x # Missing,
         \A i \in 1 .. Len(q) : q[i] # Missing
  PROVE  \A i \in 1 .. Len(Put(q, x)) : Put(q, x)[i] # Missing
  BY DEF Put

LEMMA ReportedNoMissing ==
  ASSUME NEW q \in Seq(Item), Len(q) <= QueueSize, NEW e \in Error, e # Missing,
         \A i \in 1 .. Len(q) : q[i] # Missing
  PROVE  \A i \in 1 .. Len(Reported(q, e)) : Reported(q, e)[i] # Missing
  BY PutNoMissing DEF Reported, Item

LEMMA NotifyNoMissing ==
  ASSUME TypeOK, NoMissing, NotifyNext(Error \ {Missing})
  PROVE  NoMissing'
<1> DEFINE E == Error \ {Missing}
<1> USE DEF NoMissing
<1>0. queue \in Seq(Item) /\ Len(queue) <= QueueSize /\ Alarm # Missing /\ Alarm \in Item
  BY NotifyAssumption, OtaAssumption DEF TypeOK, NotifyTypeOK, Item
<1>1. CASE Send(E)
  <2>1. CASE RaiseAlarm
    BY <1>0, <2>1, PutNoMissing DEF RaiseAlarm
  <2>2. CASE \E e \in E : RaiseError(e)
    BY <1>0, <2>2, ReportedNoMissing DEF RaiseError
  <2> QED BY <1>1, <2>1, <2>2 DEF Send
<1>2. CASE Receive
  <2>1. Len(queue') = Len(queue) - 1 /\ \A i \in 1 .. Len(queue') : queue'[i] = queue[i + 1]
    BY <1>0, <1>2 DEF Receive
  <2> QED BY <1>0, <2>1
<1>3. CASE PostFails(E)
  <2>1. PICK e \in E, f \in E : queue' = Reported(Reported(queue, e), f)
    BY <1>3 DEF PostFails
  <2>2. /\ Reported(queue, e) \in Seq(Item) /\ Len(Reported(queue, e)) <= QueueSize
        /\ \A i \in 1 .. Len(Reported(queue, e)) : Reported(queue, e)[i] # Missing
    BY <1>0, ReportedType, ReportedNoMissing
  <2> QED BY <2>1, <2>2, ReportedNoMissing
<1>4. CASE UNCHANGED queue
  BY <1>4
<1> QED BY <1>1, <1>2, <1>3, <1>4
        DEF NotifyNext, NotifyTask, Mute, LetThrough, PassAlarm, Post, Posted, WifiChange,
            NotifyTick

\* A call of the one caller.
LEMMA StartGuard ==
  ASSUME OneCaller, OneRunInv, NEW c \in Caller, Start(c)
  PROVE  GuardInv' /\ MuteInv' /\ NoMissing'
<1> USE DEF OneRunInv, GuardInv, MuteInv, NoMissing, Exists, OneCaller
<1>1. CASE Check(c)
  BY <1>1 DEF Check, TypeOK
<1>2. CASE Claim(c)
  BY <1>2 DEF Claim, TypeOK
<1>3. CASE Spawn(c)
  <2>1. /\ call[c] = "claimed" /\ call' = [call EXCEPT ![c] = "idle"] /\ UNCHANGED notifyVars
        /\ \A d \in Caller : call'[d] = "idle"
        /\ \A t \in Task : work[t] = "none"
    BY <1>3 DEF Spawn, TypeOK
  <2>2. ~suppressed
    BY <2>1
  <2>3. CASE \E t \in Task : work[t] = "none" /\ work' = [work EXCEPT ![t] = "begin"]
                           /\ UNCHANGED s_running
    <3>1. PICK t \in Task : work' = [work EXCEPT ![t] = "begin"] /\ s_running' = s_running
      BY <2>3
    <3>2. \A u \in Task : work'[u] = IF u = t THEN "begin" ELSE "none"
      BY <2>1, <3>1 DEF TypeOK
    <3> QED BY <2>1, <2>2, <3>1, <3>2
  <2>4. CASE s_running' = FALSE /\ UNCHANGED work
    BY <2>1, <2>2, <2>4
  <2> QED BY <1>3, <2>3, <2>4 DEF Spawn
<1> QED BY <1>1, <1>2, <1>3 DEF Start

\* A step of the one task.
LEMMA WorkerGuard ==
  ASSUME OneRunInv, NEW t \in Task, Worker(t)
  PROVE  GuardInv' /\ MuteInv' /\ NoMissing'
<1> USE DEF OneRunInv, GuardInv, MuteInv, NoMissing, Exists
<1>1. CASE Restart(t)
  BY <1>1 DEF Restart, TypeOK
<1>2. CASE ~Restart(t)
  <2>1. /\ work[t] # "none" /\ s_running /\ \A c \in Caller : call[c] = "idle"
        /\ \A u \in Task : u # t => work[u] = "none"
        /\ \A u \in Task : u # t => work'[u] = "none"
        /\ work'[t] \in {"download", "failed", "installed", "end", "delete", "restart", "none"}
        /\ call' = call
    BY <1>2 DEF Worker, Begin, DownloadFails, DownloadEnds, Unmute, Delete, End, Go, TypeOK
  <2>2. work'[t] # "none" => s_running'
    BY <1>2, <2>1 DEF Worker, Begin, DownloadFails, DownloadEnds, Unmute, Delete, End, Go, TypeOK
  <2>3. GuardInv'
    BY <2>1, <2>2
  <2>4. MuteInv'
    <3> DEFINE Muting == {"download", "failed", "installed"}
    <3>1. suppressed \in BOOLEAN /\ (suppressed <=> work[t] \in Muting)
      BY <2>1 DEF TypeOK, NotifyTypeOK
    <3>2. CASE Begin(t)
      BY <2>1, <3>2 DEF Begin, Go, Suppress, TypeOK
    <3>3. CASE Unmute(t)
      BY <2>1, <3>3 DEF Unmute, Go, Suppress, TypeOK
    <3>4. CASE DownloadFails(t) \/ DownloadEnds(t) \/ Delete(t) \/ End(t)
      <4>1. suppressed' = suppressed /\ (work[t] \in Muting <=> work'[t] \in Muting)
        BY <3>4 DEF DownloadFails, DownloadEnds, Delete, End, Go, TypeOK
      <4> QED BY <2>1, <3>1, <4>1
    <3> QED BY <1>2, <3>2, <3>3, <3>4 DEF Worker
  <2>5. queue' = queue
    BY <1>2 DEF Worker, Begin, DownloadFails, DownloadEnds, Unmute, Delete, End, Go,
                Suppress, RaiseError, Reported
  <2> QED BY <2>3, <2>4, <2>5
<1> QED BY <1>1, <1>2

LEMMA OneRunInit == Init => OneRunInv
  BY TypeInit DEF Init, NotifyInit, OtaInit, OneRunInv, GuardInv, MuteInv, NoMissing, Exists

LEMMA OneRunNext ==
  ASSUME OneCaller, OneRunInv, TypeOK', [Next]_vars
  PROVE  OneRunInv'
<1> USE DEF OneRunInv
<1>1. CASE Configure \/ Publish
  BY <1>1 DEF Configure, Publish, GuardInv, MuteInv, NoMissing, Exists
<1>2. ASSUME NEW c \in Caller, Start(c) PROVE OneRunInv'
  BY <1>2, StartGuard
<1>3. ASSUME NEW t \in Task, Worker(t) PROVE OneRunInv'
  BY <1>3, WorkerGuard
<1>4. CASE NotifyNext(Error \ {Missing}) /\ UNCHANGED otaVars
  <2>1. UNCHANGED suppressed
    BY <1>4 DEF NotifyNext, NotifyTask, Send, Receive, Mute, LetThrough, PassAlarm, Post,
                PostFails, Posted, WifiChange, NotifyTick
  <2>2. GuardInv' /\ MuteInv'
    BY <1>4, <2>1 DEF GuardInv, MuteInv, Exists
  <2> QED BY <1>4, <2>2, NotifyNoMissing
<1>5. CASE UNCHANGED vars
  BY <1>5 DEF vars, GuardInv, MuteInv, NoMissing, Exists
<1> QED BY <1>1, <1>2, <1>3, <1>4, <1>5 DEF Next

LEMMA OneRunInvariance == ASSUME OneCaller PROVE Spec => []OneRunInv
<1>1. OneRunInv /\ TypeOK' /\ [Next]_vars => OneRunInv'
  BY OneRunNext
<1> QED BY <1>1, OneRunInit, TypeCorrect, PTL DEF Spec

\* "false when already running" (hi_ota.h:18): with one caller, two runs never
\* write the slot at the same time.  ota_race shows that two callers can.
THEOREM OneRunForOneCaller == ASSUME OneCaller PROVE Spec => []AtMostOneRun
<1>1. OneRunInv => AtMostOneRun
  <2> SUFFICES ASSUME OneRunInv PROVE AtMostOneRun
    OBVIOUS
  <2> DEFINE R == {t \in Task : Running(t)}
  <2>1. CASE R = {}
    BY <2>1, FS_EmptySet DEF AtMostOneRun
  <2>2. CASE R # {}
    <3>1. PICK t \in Task : t \in R
      BY <2>2
    <3>2. R = {t}
      BY <3>1 DEF OneRunInv, GuardInv, Exists, Running
    <3> QED BY <3>2, FS_Singleton DEF AtMostOneRun
  <2> QED BY <2>1, <2>2
<1> QED BY <1>1, OneRunInvariance, PTL

\* "do not turn it into an error notification" (hi_ota.c:55): with one caller,
\* the error of a missing image never reaches the queue, and errors are muted
\* for no longer than a download lasts.
THEOREM OnlyMissingIsMuted == ASSUME OneCaller PROVE Spec => []OnlyMissingMuted
<1>1. OneRunInv => OnlyMissingMuted
  BY DEF OneRunInv, MuteInv, NoMissing, OnlyMissingMuted
<1> QED BY <1>1, OneRunInvariance, PTL

-----------------------------------------------------------------------------
(* The guard, with any number of callers.                                  *)

\* Whoever is to free it: a caller that claimed it and has not come back from
\* xTaskCreate(), or a task.
GuardHeld == s_running => \/ \E c \in Caller : call[c] = "claimed"
                          \/ \E t \in Task : Exists(t)

LEMMA GuardHeldNext == TypeOK /\ GuardHeld /\ [Next]_vars => GuardHeld'
<1> SUFFICES ASSUME TypeOK, GuardHeld, [Next]_vars PROVE GuardHeld'
  OBVIOUS
<1> USE DEF GuardHeld, Exists
<1>0. call \in [Caller -> {"idle", "checked", "claimed"}] /\ DOMAIN work = Task
  BY DEF TypeOK
<1>1. ASSUME NEW c \in Caller, Check(c) PROVE GuardHeld'
  BY <1>0, <1>1 DEF Check
<1>2. ASSUME NEW c \in Caller, Claim(c) PROVE GuardHeld'
  BY <1>0, <1>2 DEF Claim
<1>3. ASSUME NEW c \in Caller, Spawn(c) PROVE GuardHeld'
  <2>1. CASE s_running' = FALSE
    BY <2>1
  <2>2. CASE s_running' # FALSE
    <3>1. PICK t \in Task : work' = [work EXCEPT ![t] = "begin"]
      BY <1>3, <2>2 DEF Spawn
    <3>2. work'[t] = "begin"
      BY <1>0, <3>1
    <3> QED BY <3>2
  <2> QED BY <2>1, <2>2
<1>4. ASSUME NEW t \in Task, Restart(t) \/ End(t) PROVE GuardHeld'
  BY <1>4 DEF Restart, End
<1>5. ASSUME NEW t \in Task, Worker(t), ~Restart(t), ~End(t) PROVE GuardHeld'
  <2>1. work'[t] # "none"
    BY <1>0, <1>5
       DEF Worker, Begin, DownloadFails, DownloadEnds, Unmute, Delete, Go
  <2> QED BY <2>1
<1>6. CASE UNCHANGED <<s_running, call, work>>
  BY <1>6
<1> QED BY <1>1, <1>2, <1>3, <1>4, <1>5, <1>6 DEF Next, Start, Configure, Publish, vars

\* Nobody keeps the guard: as long as it is set there is a caller or a task
\* whose next steps free it, even when two callers passed the test at once
\* (hi_ota.c:66-87).  It is freed in the end when these run (GuardFreed).
THEOREM GuardNeverStranded == Spec => []GuardHeld
<1>1. Init => GuardHeld
  BY DEF Init, OtaInit, GuardHeld
<1> QED BY <1>1, GuardHeldNext, TypeCorrect, PTL DEF Spec

-----------------------------------------------------------------------------
(* With no more errors than slots no open window is forgotten.             *)

\* An error has one open window at most, and from the time it is sent it has it.
SlotInv ==
    /\ \A i, j \in Open : dedup[i].hash = dedup[j].hash => i = j
    /\ \A e \in Error : sent[e] < Cooldown
           => \E i \in Open : dedup[i].hash = e /\ dedup[i].age = sent[e]

WindowInv == TypeOK /\ DedupInv /\ SlotInv

\* As many errors as slots, one of which has no slot, leave a slot without an
\* open window.
LEMMA ClosedSlot ==
  ASSUME FewErrors, TypeOK, DedupInv, SlotInv, NEW e \in Error, SlotOf(e) = {}
  PROVE  \E i \in Slot : i \notin Open
<1> SUFFICES ASSUME \A i \in Slot : i \in Open PROVE FALSE
  OBVIOUS
<1> DEFINE f == [i \in Slot |-> dedup[i].hash]
           Others == Error \ {e}
<1>1. f \in [Slot -> Others]
  BY DEF DedupInv, SlotOf
<1>2. IsFiniteSet(Others) /\ Cardinality(Others) = Cardinality(Error) - 1
      /\ Cardinality(Error) \in Nat
  BY FS_RemoveElement, FS_CardinalityType DEF FewErrors
<1>3. IsFiniteSet(Slot) /\ Cardinality(Slot) = Slots
  <2>1. Slots \in Nat \ {0} /\ 1 \in Int /\ Slots \in Int
    BY NotifyAssumption
  <2>2. IsFiniteSet(1 .. Slots) /\ Cardinality(1 .. Slots) = IF 1 > Slots THEN 0 ELSE Slots - 1 + 1
    BY <2>1, FS_Interval
  <2> QED BY <2>1, <2>2 DEF Slot
<1>4. Cardinality(Others) < Cardinality(Slot)
  BY <1>2, <1>3, NotifyAssumption DEF FewErrors
<1> HIDE DEF f, Others
<1>5. PICK i, j \in Slot : i # j /\ f[i] = f[j]
  BY <1>1, <1>2, <1>3, <1>4, FS_PigeonHole
<1>6. dedup[i].hash = dedup[j].hash
  BY <1>5 DEF f
<1> QED BY <1>5, <1>6 DEF SlotInv

\* Then the oldest slot, which an error without one takes, has none.
LEMMA OldestClosed ==
  ASSUME TypeOK, \E i \in Slot : i \notin Open
  PROVE  Oldest \in Slot /\ Oldest \notin Open
<1> DEFINE Z == {i \in Slot : dedup[i].age = Cooldown}
<1>0. \A j \in Slot : dedup[j].age \in Age
  <2>1. \A j \in Slot : dedup[j] \in [hash : Item, age : Age]
    BY DEF TypeOK, NotifyTypeOK
  <2> QED BY <2>1
<1>1. Z \subseteq Nat /\ Z # {}
  <2>1. Slot \subseteq Nat
    BY NotifyAssumption DEF Slot
  <2>2. PICK i \in Slot : i \notin Open
    OBVIOUS
  <2>3. dedup[i].age = Cooldown
    BY <1>0, <2>2, NotifyAssumption DEF Open, Age
  <2> QED BY <2>1, <2>2, <2>3
<1>2. PICK i \in Z : \A j \in Z : ~(<<j, i>> \in OpToRel(<, Nat))
  BY <1>1, NatLessThanWellFounded, WFMin
<1>3. \A j \in Z : ~(j < i)
  BY <1>1, <1>2 DEF OpToRel
<1>4. /\ i \in Slot /\ \A j \in Slot : dedup[i].age >= dedup[j].age
      /\ \A j \in 1 .. i - 1 : dedup[i].age > dedup[j].age
  <2>1. \A j \in 1 .. i - 1 : j \in Slot /\ j < i
    BY NotifyAssumption DEF Slot
  <2>2. \A j \in Slot : /\ dedup[i].age >= dedup[j].age
                        /\ dedup[j].age # Cooldown => dedup[i].age > dedup[j].age
    BY <1>0, NotifyAssumption DEF Age
  <2> QED BY <1>3, <2>1, <2>2
<1>5. Oldest \in Slot /\ \A j \in Slot : dedup[Oldest].age >= dedup[j].age
  BY <1>4 DEF Oldest
<1>6. dedup[Oldest].age >= Cooldown /\ dedup[Oldest].age \in Age
  BY <1>0, <1>5
<1> QED BY <1>5, <1>6, NotifyAssumption DEF Open, Age

LEMMA LetThroughWindow ==
  ASSUME FewErrors, WindowInv, TypeOK', LetThrough
  PROVE  SlotInv'
<1> USE DEF WindowInv
<1> DEFINE k == IF SlotOf(item) # {} THEN CHOOSE n \in SlotOf(item) : TRUE ELSE Oldest
<1>1. /\ item \in Error
      /\ dedup' = [dedup EXCEPT ![k] = [hash |-> item, age |-> 0]]
      /\ sent' = [sent EXCEPT ![item] = 0]
      /\ \A i \in SlotOf(item) : i \notin Open
  BY DEF LetThrough, Marked, TooSoon, Open, TypeOK, NotifyTypeOK, Item
<1>2. k \in Slot /\ k \notin Open
  <2>1. CASE SlotOf(item) # {}
    BY <1>1, <2>1 DEF SlotOf
  <2>2. CASE SlotOf(item) = {}
    <3>1. \E i \in Slot : i \notin Open
      BY <1>1, <2>2, ClosedSlot
    <3> QED BY <2>2, <3>1, OldestClosed
  <2> QED BY <2>1, <2>2
<1>3. \A i \in Open : dedup[i].hash # item
  BY <1>1 DEF SlotOf, Open
<1> HIDE DEF k
<1>4. dedup'[k] = [hash |-> item, age |-> 0] /\ \A i \in Slot : i # k => dedup'[i] = dedup[i]
  BY <1>1, <1>2 DEF TypeOK, NotifyTypeOK
<1>5. Open \subseteq Open' /\ Open' \subseteq Open \cup {k}
  BY <1>2, <1>4 DEF Open
<1>6. \A i, j \in Open' : dedup'[i].hash = dedup'[j].hash => i = j
  <2>1. \A i \in Open' : \/ i = k /\ dedup'[i].hash = item
                         \/ i \in Open /\ dedup'[i].hash = dedup[i].hash
    BY <1>2, <1>4, <1>5 DEF Open
  <2> QED BY <1>3, <2>1 DEF SlotInv
<1>7. ASSUME NEW e \in Error, sent'[e] < Cooldown
      PROVE  \E i \in Open' : dedup'[i].hash = e /\ dedup'[i].age = sent'[e]
  <2>1. CASE e = item
    <3>1. sent'[e] = 0 /\ 0 < Cooldown
      BY <1>1, <1>7, <2>1 DEF TypeOK, NotifyTypeOK
    <3>2. k \in Open'
      BY <1>2, <1>4, <3>1 DEF Open
    <3> QED BY <1>4, <2>1, <3>1, <3>2
  <2>2. CASE e # item
    <3>1. sent'[e] = sent[e]
      BY <1>1, <2>2 DEF TypeOK, NotifyTypeOK
    <3>2. PICK i \in Open : dedup[i].hash = e /\ dedup[i].age = sent[e]
      BY <1>7, <3>1 DEF SlotInv
    <3> QED BY <1>2, <1>4, <1>5, <3>1, <3>2 DEF Open
  <2> QED BY <2>1, <2>2
<1> QED BY <1>6, <1>7 DEF SlotInv

LEMMA TickWindow ==
  ASSUME WindowInv, NotifyTick
  PROVE  SlotInv'
<1> USE DEF WindowInv
<1>1. /\ \A i \in Slot : /\ dedup[i].age \in Age /\ dedup'[i].hash = dedup[i].hash
                          /\ dedup'[i].age = Older(dedup[i].age)
      /\ \A e \in Error : sent'[e] = Older(sent[e]) /\ sent[e] \in Age
  BY TickSlot DEF NotifyTick, TypeOK, NotifyTypeOK
<1>2. Open' \subseteq Open
  BY <1>1, OlderAge DEF Open
<1>3. \A i, j \in Open' : dedup'[i].hash = dedup'[j].hash => i = j
  BY <1>1, <1>2 DEF SlotInv, Open
<1>4. ASSUME NEW e \in Error, sent'[e] < Cooldown
      PROVE  \E i \in Open' : dedup'[i].hash = e /\ dedup'[i].age = sent'[e]
  <2>1. sent[e] < Cooldown
    BY <1>1, <1>4, OlderAge
  <2>2. PICK i \in Open : dedup[i].hash = e /\ dedup[i].age = sent[e]
    BY <2>1 DEF SlotInv
  <2>3. i \in Slot /\ dedup'[i].age = sent'[e] /\ dedup'[i].hash = e
    BY <1>1, <2>2 DEF Open
  <2> QED BY <1>4, <2>3 DEF Open
<1> QED BY <1>3, <1>4 DEF SlotInv

LEMMA WindowNext ==
  ASSUME FewErrors, WindowInv, TypeOK', DedupInv', [Next]_vars
  PROVE  WindowInv'
<1> USE DEF WindowInv
<1>1. CASE LetThrough
  BY <1>1, LetThroughWindow
<1>2. CASE NotifyTick
  BY <1>2, TickWindow
<1>3. ASSUME NEW t \in Task, Restart(t) PROVE WindowInv'
  BY <1>3, NotifyAssumption DEF Restart, SlotInv, Open, Empty
<1>4. CASE UNCHANGED <<dedup, sent>>
  BY <1>4 DEF SlotInv, Open
<1> QED BY <1>1, <1>2, <1>3, <1>4
        DEF Next, Configure, Publish, Start, Check, Claim, Spawn, Worker, Begin,
            DownloadFails, DownloadEnds, Unmute, Suppress, Delete, End, NotifyNext, Send,
            NotifyTask, Receive, Mute, PassAlarm, Post, PostFails, Posted, WifiChange, vars

LEMMA WindowInvariance == ASSUME FewErrors PROVE Spec => []WindowInv
<1>1. Init => WindowInv
  BY TypeInit, NotifyAssumption DEF Init, NotifyInit, WindowInv, SlotInv, Open, Empty
<1>2. WindowInv /\ TypeOK' /\ DedupInv' /\ [Next]_vars => WindowInv'
  BY WindowNext
<1> QED BY <1>1, <1>2, TypeInvariance, PTL DEF Spec

\* "same error text is sent at most once per window" (hi_notify.h:21), for as
\* many different errors as there are slots; with one more, the oldest window
\* is forgotten (hi_notify.c:73).
THEOREM OnceForFewErrors == ASSUME FewErrors PROVE Spec => OncePerWindow
<1>1. WindowInv => (LetThrough => sent[item] >= Cooldown)
  <2> SUFFICES ASSUME WindowInv, LetThrough, sent[item] < Cooldown PROVE FALSE
    <3>1. LetThrough /\ WindowInv => sent[item] \in Age
      BY DEF LetThrough, WindowInv, TypeOK, NotifyTypeOK, Item
    <3> QED BY <3>1, NotifyAssumption DEF Age
  <2>1. item \in Error
    BY DEF LetThrough, WindowInv, TypeOK, NotifyTypeOK, Item
  <2>2. PICK i \in Open : dedup[i].hash = item
    BY <2>1 DEF WindowInv, SlotInv
  <2> QED BY <2>2 DEF LetThrough, SlotOf, TooSoon, Open
<1> QED BY <1>1, WindowInvariance, PTL DEF OncePerWindow
=============================================================================
