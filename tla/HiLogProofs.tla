---------------------------- MODULE HiLogProofs ----------------------------
(***************************************************************************)
(* The invariants of HiLog and HiWifi, for any number of producers and     *)
(* lines, any buffer, and any maximum of the back-off.                     *)
(***************************************************************************)
EXTENDS HiLog, TLAPS

\* How long the buffer lives, and who may still come to use it.
BufferInv ==
    /\ task = "none" => ~s_ringbuf /\ misused = {} /\ \A p \in Producer : pc[p] = "idle"
    /\ task \in {"waiting", "receiving", "sending"} => s_ringbuf
    /\ task \in {"stopping", "absent"} => ~s_ringbuf
    /\ s_ringbuf => live /\ misused = {}
    /\ ~s_ringbuf => \A p \in Producer : pc[p] = "uses" => p \in caught

\* As long as the buffer lives no line is lost from it: what it took was sent,
\* is being sent, or is in it.
NoGap == live \/ task = "none"
            => lines = sent + (IF item # 0 THEN 1 ELSE 0) + Len(items)

IInv == TypeOK /\ BufferInv /\ NoGap /\ ProducersStopped

\* How far the handler is behind the station.  The station is started once, and
\* by the first event; the last event tells what it is; and while it is idle
\* an event that arms the timer is on its way, or the timer runs.
Waits(event) == \E i \in 1 .. Len(events) : events[i] = event
UpToDate  == IF events = << >> THEN s_connected ELSE events[Len(events)] = "got_ip"

WifiInv ==
    /\ link = "off" => events = << >> /\ ~s_connected /\ ~timer
    /\ Waits("start") => events = <<"start">> /\ link = "idle" /\ ~s_connected /\ ~timer
    /\ UpToDate <=> link = "up"
    /\ link = "idle" => timer \/ refused \/ Waits("start") \/ Waits("disconnected")

-----------------------------------------------------------------------------
LEMMA WifiInitType == WifiInit => WifiTypeOK
<1> SUFFICES ASSUME WifiInit PROVE WifiTypeOK
  OBVIOUS
<1>1. events \in Seq(Event) /\ Len(events) <= MaxEvents
  BY WifiAssumption DEF WifiInit
<1>2. s_retry_delay_s \in 1 .. RetryMax
  BY WifiAssumption DEF WifiInit
<1> QED BY <1>1, <1>2 DEF WifiInit, WifiTypeOK

LEMMA PostedType ==
  ASSUME WifiTypeOK, NEW event \in Event, Post(event)
  PROVE  events' \in Seq(Event) /\ Len(events') <= MaxEvents
  BY WifiAssumption DEF WifiTypeOK, Post

LEMMA WifiNextType == WifiTypeOK /\ WifiNext => WifiTypeOK'
<1> SUFFICES ASSUME WifiTypeOK, WifiNext PROVE WifiTypeOK'
  OBVIOUS
<1> USE DEF WifiTypeOK
<1>1. CASE Start
  BY <1>1, PostedType DEF Start, Changes, Event
<1>2. CASE Joins
  BY <1>2, PostedType DEF Joins, Changes, Event
<1>3. CASE JoinFails
  BY <1>3, PostedType DEF JoinFails, Changes, Event
<1>4. CASE Drops
  BY <1>4, PostedType DEF Drops, Changes, Event
<1>5. CASE Roams
  BY <1>5, PostedType DEF Roams, Changes, Event
<1>6. CASE Handler
  <2>1. events' \in Seq(Event) /\ Len(events') <= MaxEvents
    BY <1>6, WifiAssumption DEF Handler, OnStart, OnDisconnected, OnGotIp, Handles
  <2>2. DelayDoubled \in 1 .. RetryMax /\ 1 \in 1 .. RetryMax
    BY WifiAssumption DEF DelayDoubled
  <2>3. s_retry_delay_s' \in 1 .. RetryMax
    BY <1>6, <2>2 DEF Handler, OnStart, OnDisconnected, OnGotIp
  <2>4. ASSUME NEW works \in BOOLEAN, OnStart(works) PROVE WifiTypeOK'
    BY <2>1, <2>3, <2>4 DEF OnStart, Connect
  <2>5. CASE OnDisconnected
    BY <2>1, <2>3, <2>5 DEF OnDisconnected, Armed
  <2>6. CASE OnGotIp
    BY <2>1, <2>3, <2>6 DEF OnGotIp
  <2> QED BY <1>6, <2>4, <2>5, <2>6 DEF Handler
<1>7. CASE Timers
  BY <1>7 DEF Timers, Retry, Connect
<1> QED BY <1>1, <1>2, <1>3, <1>4, <1>5, <1>6, <1>7 DEF WifiNext

-----------------------------------------------------------------------------
LEMMA InitInv == Init => IInv
<1> SUFFICES ASSUME Init PROVE IInv
  OBVIOUS
<1>1. WifiTypeOK
  BY WifiInitType DEF Init
<1>2. items = << >> /\ Len(items) = 0 /\ item = 0 /\ lines = 0 /\ sent = 0
  BY DEF Init, LogInit
<1>3. /\ items = [i \in 1 .. Len(items) |-> lines - Len(items) + i]
      /\ items \in Seq(1 .. MaxLines)
  BY <1>2
<1>4. lines \in 0 .. MaxLines /\ sent \in 0 .. lines
      /\ Len(items) + (IF item # 0 THEN 1 ELSE 0) <= Capacity
  BY <1>2, LogAssumption
<1>5. TypeOK
  BY <1>1, <1>2, <1>3, <1>4 DEF Init, LogInit, TypeOK
<1> QED BY <1>2, <1>5 DEF Init, LogInit, IInv, BufferInv, NoGap, ProducersStopped

\* A step that leaves the buffer and its lines alone.
LEMMA LinesKept ==
  ASSUME TypeOK, UNCHANGED <<wifiVars, items, lines, item, sent>>,
         s_ringbuf' \in BOOLEAN, live' \in BOOLEAN,
         caught' \subseteq Producer, misused' \subseteq Producer,
         pc' \in [Producer -> {"idle", "uses"}],
         task' \in {"none", "waiting", "receiving", "sending", "stopping", "absent"},
         task' = "sending" <=> task = "sending"
  PROVE  TypeOK'
  BY DEF TypeOK, WifiTypeOK, wifiVars

LEMMA ProducerInv ==
  ASSUME IInv, UNCHANGED wifiVars, NEW p \in Producer, Tests(p) \/ Uses(p)
  PROVE  IInv'
<1> USE DEF IInv, BufferInv, NoGap, ProducersStopped
<1>1. CASE Tests(p)
  <2>1. pc' \in [Producer -> {"idle", "uses"}]
    BY <1>1 DEF Tests, TypeOK
  <2>2. TypeOK'
    BY <1>1, <2>1, LinesKept DEF Tests, TypeOK
  <2> QED BY <1>1, <2>2 DEF Tests, TypeOK
<1>2. CASE Uses(p)
  <2>1. pc' \in [Producer -> {"idle", "uses"}]
    BY <1>2 DEF Uses, TypeOK
  <2>2. misused' \subseteq misused \cup {p} /\ (misused' # misused => ~s_ringbuf)
    BY <1>2 DEF Uses
  <2>3. BufferInv' /\ ProducersStopped'
    BY <1>2, <2>1, <2>2 DEF Uses, TypeOK
  <2>4. CASE live /\ Fits /\ lines < MaxLines
    <3>1. lines' = lines + 1 /\ items' = Append(items, lines')
      BY <1>2, <2>4 DEF Uses
    <3>2. items = [i \in 1 .. Len(items) |-> lines - Len(items) + i] /\ lines \in Nat
      BY DEF TypeOK
    <3> DEFINE n == Len(items)
    <3>3. n \in Nat /\ items \in Seq(1 .. MaxLines) /\ lines' \in 1 .. MaxLines
      BY <2>4, <3>1, LogAssumption DEF TypeOK
    <3>4. items' \in Seq(1 .. MaxLines) /\ Len(items') = n + 1
      BY <3>1, <3>3
    <3>5. \A i \in 1 .. n + 1 : items'[i] = lines' - (n + 1) + i
      BY <3>1, <3>2, <3>3
    <3>6. items' = [i \in 1 .. n + 1 |-> lines' - (n + 1) + i]
      BY <3>4, <3>5
    <3>7. sent \in 0 .. lines' /\ lines' \in 0 .. MaxLines
      BY <3>1, <3>2, <3>3 DEF TypeOK
    <3>8. n + 1 + (IF item # 0 THEN 1 ELSE 0) <= Capacity
      BY <2>4, <3>3, LogAssumption DEF Fits
    <3>9. TypeOK'
      BY <1>2, <2>1, <2>2, <3>4, <3>6, <3>7, <3>8 DEF Uses, TypeOK, WifiTypeOK, wifiVars
    <3>10. NoGap'
      <4>1. lines = sent + (IF item # 0 THEN 1 ELSE 0) + n
        BY <2>4
      <4>2. sent \in Nat /\ lines \in Nat /\ sent' = sent /\ item' = item
        BY <1>2 DEF Uses, TypeOK
      <4>3. lines' = sent' + (IF item' # 0 THEN 1 ELSE 0) + Len(items')
        BY <3>1, <3>3, <3>4, <4>1, <4>2
      <4> QED BY <4>3
    <3> QED BY <2>3, <3>9, <3>10
  <2>5. CASE ~(live /\ Fits /\ lines < MaxLines)
    <3>1. UNCHANGED <<items, lines>>
      BY <1>2, <2>5 DEF Uses
    <3>2. TypeOK' /\ NoGap'
      BY <1>2, <2>1, <2>2, <3>1, LinesKept DEF Uses, TypeOK
    <3> QED BY <2>3, <3>2
  <2> QED BY <2>4, <2>5
<1> QED BY <1>1, <1>2

LEMMA TaskInv ==
  ASSUME IInv, UNCHANGED wifiVars, UdpTask \/ \E works \in BOOLEAN : InitLog(works)
  PROVE  IInv'
<1> USE DEF IInv, BufferInv, NoGap, ProducersStopped
<1>1. ASSUME NEW works \in BOOLEAN, InitLog(works) PROVE IInv'
  <2>1. TypeOK'
    BY <1>1, LinesKept DEF InitLog, TypeOK
  <2> QED BY <1>1, <2>1 DEF InitLog, TypeOK
<1>2. ASSUME NEW works \in BOOLEAN, OpensSocket(works) PROVE IInv'
  <2>1. caught' \subseteq Producer
    BY <1>2 DEF OpensSocket, Cleared, TypeOK
  <2>2. TypeOK'
    BY <1>2, <2>1, LinesKept DEF OpensSocket, Cleared, TypeOK
  <2> QED BY <1>2, <2>2 DEF OpensSocket, Cleared, TypeOK
<1>3. CASE Deletes
  <2>1. items' = << >> /\ Len(items') = 0 /\ item' = 0 /\ task' = "absent" /\ ~live'
    BY <1>3 DEF Deletes, TypeOK
  <2>2. /\ items' = [i \in 1 .. Len(items') |-> lines' - Len(items') + i]
        /\ items' \in Seq(1 .. MaxLines)
    BY <2>1
  <2>3. 0 + (IF 0 # 0 THEN 1 ELSE 0) <= Capacity
    BY LogAssumption
  <2>4. TypeOK'
    BY <1>3, <2>1, <2>2, <2>3 DEF Deletes, TypeOK, WifiTypeOK, wifiVars
  <2> QED BY <1>3, <2>1, <2>4 DEF Deletes, TypeOK
<1>4. CASE Receives
  <2> DEFINE n == Len(items)
  <2>1. items = [i \in 1 .. n |-> lines - n + i] /\ lines \in Nat /\ item = 0 /\ live
        /\ lines = sent + n /\ sent \in Nat /\ n \in Nat /\ n # 0
    BY <1>4 DEF Receives, TypeOK
  <2>2. item' = sent + 1
    BY <1>4, <2>1 DEF Receives
  <2>3. items' \in Seq(1 .. MaxLines) /\ Len(items') = n - 1
    BY <1>4, <2>1 DEF Receives, TypeOK
  <2>4. \A i \in 1 .. n - 1 : items'[i] = lines - (n - 1) + i
    BY <1>4, <2>1 DEF Receives, TypeOK
  <2>5. items' = [i \in 1 .. n - 1 |-> lines - (n - 1) + i]
    BY <2>3, <2>4
  <2>6. n <= Capacity /\ task' = "sending"
    BY <1>4, <2>1 DEF Receives, TypeOK
  <2> HIDE DEF n
  <2>7. Len(items') + (IF item' # 0 THEN 1 ELSE 0) <= Capacity
    BY <2>1, <2>2, <2>3, <2>6
  <2>8. items' = [i \in 1 .. Len(items') |-> lines - Len(items') + i]
    BY <2>3, <2>5
  <2>9. TypeOK'
    BY <1>4, <2>2, <2>3, <2>6, <2>7, <2>8 DEF Receives, TypeOK, WifiTypeOK, wifiVars
  <2>10. lines' = sent' + (IF item' # 0 THEN 1 ELSE 0) + Len(items')
    BY <1>4, <2>1, <2>2, <2>3 DEF Receives
  <2> QED BY <1>4, <2>9, <2>10 DEF Receives
<1>5. CASE Sends
  <2>1. task' = "receiving" /\ item' = 0 /\ item = sent + 1 /\ sent' = sent + 1
    BY <1>5 DEF Sends, AfterSend, Returned, TypeOK
  <2>2. live /\ lines = sent + 1 + Len(items) /\ Len(items) \in Nat /\ sent \in Nat
    BY <1>5, <2>1 DEF Sends, TypeOK
  <2>3. TypeOK'
    BY <1>5, <2>1, <2>2, LogAssumption DEF Sends, TypeOK, WifiTypeOK, wifiVars
  <2> QED BY <1>5, <2>1, <2>2, <2>3 DEF Sends, TypeOK
<1> QED BY <1>1, <1>2, <1>3, <1>4, <1>5 DEF UdpTask

LEMMA NextInv == IInv /\ [Next]_vars => IInv'
<1> SUFFICES ASSUME IInv, [Next]_vars PROVE IInv'
  OBVIOUS
<1>1. CASE WifiNext /\ UNCHANGED logVars
  BY <1>1, WifiNextType DEF logVars, IInv, TypeOK, BufferInv, NoGap, ProducersStopped
<1>2. CASE LogNext /\ UNCHANGED wifiVars
  BY <1>2, ProducerInv, TaskInv DEF LogNext
<1>3. CASE UNCHANGED vars
  BY <1>3 DEF vars, wifiVars, logVars, IInv, TypeOK, WifiTypeOK, BufferInv, NoGap,
              ProducersStopped
<1> QED BY <1>1, <1>2, <1>3 DEF Next

LEMMA Invariance == Spec => []IInv
  BY InitInv, NextInv, PTL DEF Spec

-----------------------------------------------------------------------------
(* The station and its events.                                             *)

\* An event that is posted is the last one, one that is handled was the first.
LEMMA PostedLast ==
  ASSUME WifiTypeOK, NEW event \in Event, Post(event)
  PROVE  /\ Len(events) \in Nat /\ Len(events') = Len(events) + 1
         /\ events' # << >> /\ events'[Len(events')] = event
         /\ \A i \in 1 .. Len(events) : events'[i] = events[i]
  BY DEF WifiTypeOK, Post

LEMMA HandledFirst ==
  ASSUME WifiTypeOK, NEW event \in Event, Handles(event)
  PROVE  /\ Len(events) \in Nat \ {0} /\ Len(events') = Len(events) - 1
         /\ events # << >> /\ events[1] = event
         /\ \A i \in 1 .. Len(events') : events'[i] = events[i + 1]
         /\ events' = << >> <=> Len(events) = 1
<1>1. events \in Seq(Event) /\ events # << >> /\ Head(events) = event /\ events' = Tail(events)
  BY DEF WifiTypeOK, Handles
<1>2. Len(events) \in Nat \ {0} /\ events[1] = event
  BY <1>1
<1>3. /\ events' \in Seq(Event) /\ Len(events') = Len(events) - 1
      /\ \A i \in 1 .. Len(events') : events'[i] = events[i + 1]
  BY <1>1
<1>4. events' = << >> <=> Len(events') = 0
  BY <1>3
<1> QED BY <1>1, <1>2, <1>3, <1>4

\* What the driver does, but to start: the last event tells of it.
LEMMA ChangeFollowed ==
  ASSUME WifiTypeOK, WifiInv, NEW from \in {"joining", "up"},
         NEW to \in {"idle", "joining", "up"}, NEW event \in Event \ {"start"},
         Changes(from, to, event),
         event = "got_ip" <=> to = "up", to = "idle" => event = "disconnected"
  PROVE  WifiInv'
<1>1. /\ link = from /\ link' = to /\ Post(event)
      /\ UNCHANGED <<s_connected, s_retry_delay_s, timer, refused>>
  BY DEF Changes
<1>2. /\ Len(events) \in Nat /\ Len(events') = Len(events) + 1
      /\ events' # << >> /\ events'[Len(events')] = event
      /\ \A i \in 1 .. Len(events) : events'[i] = events[i]
  BY <1>1, PostedLast
<1>3. ~Waits("start") /\ ~Waits("start")'
  <2>1. ~Waits("start")
    BY <1>1 DEF WifiInv
  <2> QED BY <1>2, <2>1 DEF Waits
<1>4. UpToDate' <=> link' = "up"
  BY <1>1, <1>2 DEF UpToDate
<1>5. link' = "idle" => Waits("disconnected")'
  BY <1>1, <1>2 DEF Waits
<1> QED BY <1>1, <1>3, <1>4, <1>5 DEF WifiInv

LEMMA StartFollowed ==
  ASSUME WifiTypeOK, WifiInv, Start
  PROVE  WifiInv'
<1>1. /\ link = "off" /\ link' = "idle" /\ Post("start") /\ UNCHANGED <<s_connected, timer>>
  BY DEF Start, Changes
<1>2. events' = <<"start">> /\ ~s_connected /\ ~timer
  BY <1>1 DEF WifiInv, Post
<1>3. Waits("start")' /\ ~UpToDate'
  BY <1>2 DEF Waits, UpToDate
<1> QED BY <1>1, <1>2, <1>3 DEF WifiInv

\* The handler: the events that it leaves still tell what the station is.
LEMMA HandlerFollowed ==
  ASSUME WifiTypeOK, WifiInv, Handler
  PROVE  WifiInv'
<1>1. ASSUME NEW works \in BOOLEAN, OnStart(works) PROVE WifiInv'
  <2>1. events[1] = "start" /\ Len(events) \in Nat \ {0}
    BY <1>1, HandledFirst DEF OnStart, Event
  <2>2. events = <<"start">> /\ link = "idle" /\ ~s_connected /\ ~timer
    BY <2>1 DEF WifiInv, Waits
  <2>3. events' = << >> /\ ~s_connected' /\ ~timer' /\ refused' = ~works
        /\ link' = IF works THEN "joining" ELSE "idle"
    BY <1>1, <2>2 DEF OnStart, Handles, Connect
  <2>4. ~Waits("start")' /\ ~UpToDate'
    BY <2>3 DEF Waits, UpToDate
  <2> QED BY <2>3, <2>4 DEF WifiInv
<1>2. CASE OnDisconnected
  <2>1. /\ Handles("disconnected") /\ ~s_connected' /\ timer' = TRUE /\ UNCHANGED link
    BY <1>2 DEF OnDisconnected, Armed
  <2>2. /\ Len(events) \in Nat \ {0} /\ Len(events') = Len(events) - 1
        /\ events # << >> /\ events[1] = "disconnected"
        /\ \A i \in 1 .. Len(events') : events'[i] = events[i + 1]
        /\ events' = << >> <=> Len(events) = 1
    BY <2>1, HandledFirst DEF Event
  <2>3. ~Waits("start")
    BY <2>2 DEF WifiInv
  <2>4. ~Waits("start")'
    BY <2>2, <2>3 DEF Waits
  <2>5. UpToDate' <=> UpToDate
    BY <2>1, <2>2 DEF UpToDate
  <2> QED BY <2>1, <2>2, <2>4, <2>5 DEF WifiInv
<1>3. CASE OnGotIp
  <2>1. /\ Handles("got_ip") /\ s_connected' = TRUE /\ UNCHANGED <<link, timer, refused>>
    BY <1>3 DEF OnGotIp
  <2>2. /\ Len(events) \in Nat \ {0} /\ Len(events') = Len(events) - 1
        /\ events # << >> /\ events[1] = "got_ip"
        /\ \A i \in 1 .. Len(events') : events'[i] = events[i + 1]
        /\ events' = << >> <=> Len(events) = 1
    BY <2>1, HandledFirst DEF Event
  <2>3. ~Waits("start")
    BY <2>2 DEF WifiInv
  <2>4. ~Waits("start")'
    BY <2>2, <2>3 DEF Waits
  <2>5. UpToDate' <=> UpToDate
    BY <2>1, <2>2 DEF UpToDate
  <2>6. Waits("disconnected") => Waits("disconnected")'
    <3> SUFFICES ASSUME NEW i \in 1 .. Len(events), events[i] = "disconnected"
                 PROVE  Waits("disconnected")'
      BY DEF Waits
    <3>1. i # 1
      BY <2>2
    <3>2. i - 1 \in 1 .. Len(events') /\ events'[i - 1] = events[i]
      BY <2>2, <3>1
    <3> QED BY <3>2 DEF Waits
  <2> QED BY <2>1, <2>2, <2>3, <2>4, <2>5, <2>6 DEF WifiInv
<1> QED BY <1>1, <1>2, <1>3 DEF Handler

LEMMA TimersFollowed ==
  ASSUME WifiTypeOK, WifiInv, Timers
  PROVE  WifiInv'
<1>1. PICK works \in BOOLEAN : Retry(works)
  BY DEF Timers
<1>2. timer /\ ~timer' /\ Connect(works) /\ UNCHANGED <<events, s_connected>>
  BY <1>1 DEF Retry
<1>3. ~Waits("start") /\ ~Waits("start")' /\ (UpToDate' <=> UpToDate)
  BY <1>2 DEF WifiInv, Waits, UpToDate
<1>4. /\ link' = "up" <=> link = "up"
      /\ link' # "off" /\ (link' = "idle" => refused')
  <2>1. CASE link = "idle"
    BY <1>2, <2>1 DEF Connect
  <2>2. CASE link # "idle"
    BY <1>2, <2>2 DEF WifiInv, Connect
  <2> QED BY <2>1, <2>2
<1> QED BY <1>2, <1>3, <1>4 DEF WifiInv

LEMMA WifiInvInit == WifiInit => WifiInv
  BY DEF WifiInit, WifiInv, Waits, UpToDate

LEMMA WifiInvNext == WifiTypeOK /\ WifiInv /\ [Next]_vars => WifiInv'
<1> SUFFICES ASSUME WifiTypeOK, WifiInv, [Next]_vars PROVE WifiInv'
  OBVIOUS
<1>1. CASE Joins \/ JoinFails \/ Drops \/ Roams
  BY <1>1, ChangeFollowed DEF Joins, JoinFails, Drops, Roams, Event
<1>2. CASE UNCHANGED wifiVars
  BY <1>2 DEF wifiVars, WifiInv, Waits, UpToDate
<1> QED BY <1>1, <1>2, StartFollowed, HandlerFollowed, TimersFollowed
        DEF Next, WifiNext, vars

-----------------------------------------------------------------------------
\* Every variable stays in its type, and the lines stay in order: what is in
\* the buffer are the last ones it took, and what is sent comes before them
\* (hi_log.c:41-82).
THEOREM TypeCorrect == Spec => []TypeOK
<1>1. IInv => TypeOK
  BY DEF IInv
<1> QED BY <1>1, Invariance, PTL

\* "stop producers first" (hi_log.c:70): with any number of tasks that log,
\* only one that tested s_ringbuf before it was cleared may use the deleted
\* buffer.
THEOREM OnlyCaughtMisuse == Spec => []ProducersStopped
<1>1. IInv => ProducersStopped
  BY DEF IInv
<1> QED BY <1>1, Invariance, PTL

\* Once the handler is through with the events hi_wifi_is_connected() is what
\* the station is, and an idle one has its next attempt coming, whatever the
\* timer did between two events and however many of them waited
\* (hi_wifi.c:23-60).
THEOREM StationFollowed == Spec => []Followed
<1>1. Init => WifiInv
  BY WifiInvInit DEF Init
<1>2. TypeOK /\ WifiInv /\ [Next]_vars => WifiInv'
  BY WifiInvNext DEF TypeOK
<1>3. WifiInv => Followed
  BY DEF WifiInv, Waits, UpToDate, Followed
<1> QED BY <1>1, <1>2, <1>3, TypeCorrect, PTL DEF Spec
=============================================================================
