---------------------------- MODULE HiMqttProofs ----------------------------
(***************************************************************************)
(* The invariants of HiMqtt, for any number of subscriptions and any size  *)
(* of the outbox.                                                          *)
(***************************************************************************)
EXTENDS HiMqtt, TLAPS

\* Where the MQTT task is agrees with the connection and with s_connected;
\* nothing is handled before hi_mqtt_start(), and a state is published once built.
TaskInv ==
    /\ mqtt = "connected" => ~s_connected
    /\ mqtt \in {"online", "refresh", "loop"} => s_connected
    /\ link /\ mqtt = "idle" => s_connected
    /\ mqtt = "loop" => at \in 1 .. s_sub_count + 1
    /\ s_connected \/ mqtt # "idle" => client
    /\ app # "idle" => s_sub_count # 0
    /\ stateTask = "publish" => doc # "none"

\* What the application task has added and not yet looked after.
Pending == IF app = "idle" THEN {} ELSE {s_sub_count}

\* The loop has asked for the subscriptions before its index; after it all were
\* asked for but the one the application task will ask for itself.
Asked == served \cup denied
SubInv ==
    /\ link /\ mqtt = "loop" => 1 .. at - 1 \subseteq Asked
    /\ link /\ s_connected /\ mqtt = "idle"
           => (1 .. s_sub_count) \ Pending \subseteq Asked

\* The state that may still be queued in an outage is the one being built.
OfflineInv ==
    /\ offline <= 1
    /\ ~s_connected /\ offline = 1 => stateTask \notin {"build", "publish"}

\* From its enqueue on, "online" waits, arrived, or was refused.
StatusInv ==
    link /\ mqtt \in {"refresh", "loop", "idle"}
        => \/ status = "online" \/ "online" \in refused
           \/ \E i \in 1 .. Len(outbox) : outbox[i] = "online"

IInv == TypeOK /\ TaskInv /\ SubInv /\ OfflineInv /\ StatusInv

\* The tuples of UNCHANGED.
USE DEF broker, subs, stating, handling

LEMMA Outbox ==
  ASSUME outbox \in Seq(Message), Len(outbox) <= OutboxLimit, NEW m \in Message, Enqueue(m)
  PROVE  /\ outbox' \in Seq(Message) /\ Len(outbox') <= OutboxLimit
         /\ Len(outbox) <= Len(outbox')
         /\ \A i \in 1 .. Len(outbox) : outbox'[i] = outbox[i]
         /\ refused \subseteq refused' /\ refused' \subseteq refused \cup {m}
         /\ m \in refused' \/ \E i \in 1 .. Len(outbox') : outbox'[i] = m
<1>1. CASE Accepts
  <2>1. outbox' = Append(outbox, m) /\ refused' = refused
    BY <1>1 DEF Enqueue
  <2>2. Len(outbox') = Len(outbox) + 1 /\ Len(outbox') \in Nat
    BY <2>1
  <2>3. outbox'[Len(outbox')] = m /\ \A i \in 1 .. Len(outbox) : outbox'[i] = outbox[i]
    BY <2>1, <2>2
  <2>4. Len(outbox') <= OutboxLimit
    BY <1>1, <2>2, MqttAssumption DEF Accepts
  <2>5. \E i \in 1 .. Len(outbox') : outbox'[i] = m
    BY <2>2, <2>3
  <2> QED BY <2>1, <2>2, <2>3, <2>4, <2>5
<1>2. CASE ~Accepts
  BY <1>2 DEF Enqueue
<1> QED BY <1>1, <1>2

LEMMA InitInv == Init => IInv
<1> SUFFICES ASSUME Init PROVE IInv
  OBVIOUS
<1>1. outbox \in Seq(Message) /\ Len(outbox) <= OutboxLimit
  BY MqttAssumption DEF Init
<1>2. at = 0 /\ at \in 0 .. MaxSubs + 1 /\ s_sub_count = 0 /\ s_sub_count \in 0 .. MaxSubs
  BY MqttAssumption DEF Init
<1>3. served \subseteq 1 .. s_sub_count /\ denied \subseteq 1 .. s_sub_count /\ offline \in 0 .. 2 /\ refused \subseteq Message
  BY DEF Init
<1>4. TypeOK
  BY <1>1, <1>2, <1>3 DEF Init, TypeOK, Doc
<1>5. TaskInv /\ SubInv /\ OfflineInv /\ StatusInv
  BY DEF Init, TaskInv, SubInv, OfflineInv, StatusInv
<1> QED BY <1>4, <1>5 DEF IInv

-----------------------------------------------------------------------------
LEMMA BrokerInv == ASSUME IInv, Broker PROVE IInv'
<1> USE DEF TaskInv, SubInv, Asked, OfflineInv, Pending
<1>1. CASE Connect
  <2>1. outbox' \in Seq(Message) /\ Len(outbox') = Len(outbox)
    BY <1>1 DEF Connect, IInv, TypeOK, Message, Aged
  <2>2. TypeOK'
    BY <1>1, <2>1 DEF Connect, IInv, TypeOK, Message, Doc, Aged
  <2>3. TaskInv' /\ SubInv' /\ StatusInv'
    BY <1>1 DEF Connect, IInv, StatusInv, TypeOK, Doc, Aged
  <2>4. OfflineInv'
    BY <1>1 DEF Connect, IInv
  <2> QED BY <2>2, <2>3, <2>4 DEF IInv
<1>2. CASE LinkLost
  BY <1>2 DEF LinkLost, IInv, TypeOK, StatusInv
<1>3. CASE Send
  <2>1. /\ outbox' \in Seq(Message) /\ Len(outbox') = Len(outbox) - 1
        /\ \A i \in 1 .. Len(outbox') : outbox'[i] = outbox[i + 1]
        /\ Head(outbox) = outbox[1] /\ Head(outbox) \in Message
    BY <1>3 DEF Send, IInv, TypeOK
  <2>2. TypeOK'
    BY <1>3, <2>1, MqttAssumption DEF Send, Arrives, IInv, TypeOK, Message, Doc
  <2>3. StatusInv'
    <3>1. CASE Head(outbox) = "online"
      BY <1>3, <3>1 DEF Send, Arrives, StatusInv
    <3>2. CASE Head(outbox) # "online"
      <4>1. ASSUME NEW i \in 1 .. Len(outbox), outbox[i] = "online"
            PROVE  \E j \in 1 .. Len(outbox') : outbox'[j] = "online"
        <5>1. i # 1
          BY <2>1, <3>2, <4>1
        <5>2. i - 1 \in 1 .. Len(outbox') /\ outbox'[i - 1] = outbox[i]
          BY <2>1, <5>1 DEF IInv, TypeOK
        <5> QED BY <4>1, <5>2
      <4> QED BY <1>3, <3>2, <4>1 DEF Send, Arrives, StatusInv, IInv
    <3> QED BY <3>1, <3>2
  <2> QED BY <1>3, <2>2, <2>3 DEF Send, IInv, TypeOK
<1>4. CASE SendUnacknowledged
  <2>1. Head(outbox) \in Message
    BY <1>4 DEF SendUnacknowledged, IInv, TypeOK
  <2>2. TypeOK' /\ StatusInv'
    BY <1>4, <2>1 DEF SendUnacknowledged, Arrives, IInv, TypeOK, Message, Doc, StatusInv
  <2> QED BY <1>4, <2>2 DEF SendUnacknowledged, IInv, TypeOK
<1> QED BY <1>1, <1>2, <1>3, <1>4 DEF Broker

LEMMA EventInv == ASSUME IInv, Event PROVE IInv'
<1> USE DEF TaskInv, SubInv, Asked, OfflineInv, Pending
<1>1. CASE Connected
  BY <1>1 DEF Connected, IInv, TypeOK, StatusInv
<1>2. CASE Online
  <2>1. Enqueue("online") /\ "online" \in Message
    BY <1>2 DEF Online, Message
  <2>2. /\ outbox' \in Seq(Message) /\ Len(outbox') <= OutboxLimit
        /\ refused' \subseteq refused \cup {"online"}
        /\ "online" \in refused' \/ \E i \in 1 .. Len(outbox') : outbox'[i] = "online"
    BY <2>1, Outbox DEF IInv, TypeOK
  <2> QED BY <1>2, <2>1, <2>2 DEF Online, IInv, TypeOK, StatusInv
<1>3. CASE Refresh
  BY <1>3, MqttAssumption DEF Refresh, PublishNow, IInv, TypeOK, StatusInv
<1>4. CASE Resubscribe
  <2>1. CASE More
    <3>1. /\ mqtt = "loop" /\ mqtt' = mqtt /\ at \in 1 .. s_sub_count /\ at' = at + 1
          /\ Asked' = Asked \cup {at}
          /\ served' \subseteq served \cup {at} /\ denied' \subseteq denied \cup {at}
          /\ s_sub_count \in 0 .. MaxSubs
      BY <1>4, <2>1 DEF Resubscribe, Subscribe, More, IInv, TypeOK
    <3>2. served' \subseteq 1 .. s_sub_count /\ denied' \subseteq 1 .. s_sub_count
          /\ at' \in 1 .. s_sub_count + 1
          /\ at' \in 0 .. MaxSubs + 1
      BY <3>1, MqttAssumption DEF IInv, TypeOK
    <3>3. TypeOK'
      BY <1>4, <3>1, <3>2 DEF Resubscribe, IInv, TypeOK
    <3>4. SubInv'
      BY <1>4, <3>1 DEF Resubscribe, IInv
    <3>5. TaskInv' /\ OfflineInv' /\ StatusInv'
      BY <1>4, <3>1, <3>2 DEF Resubscribe, IInv, StatusInv
    <3> QED BY <3>3, <3>4, <3>5 DEF IInv
  <2>2. CASE ~More
    <3>1. at = s_sub_count + 1 /\ mqtt = "loop" /\ mqtt' = "idle" /\ at' = 0
      BY <1>4, <2>2 DEF Resubscribe, More, IInv, TypeOK
    <3>2. SubInv'
      BY <1>4, <2>2, <3>1 DEF Resubscribe, More, IInv, TypeOK
    <3>3. TypeOK'
      BY <1>4, <3>1, MqttAssumption, 0 \in 0 .. MaxSubs + 1 DEF Resubscribe, More, IInv, TypeOK
    <3>4. TaskInv' /\ OfflineInv' /\ StatusInv'
      BY <1>4, <2>2, <3>1 DEF Resubscribe, IInv, StatusInv
    <3> QED BY <3>2, <3>3, <3>4 DEF IInv
  <2> QED BY <2>1, <2>2
<1>5. CASE Disconnected
  <2>1. TypeOK'
    BY <1>5, 0 \in 0 .. 2 DEF Disconnected, IInv, TypeOK
  <2>2. TaskInv' /\ SubInv' /\ StatusInv'
    BY <1>5 DEF Disconnected, IInv, StatusInv
  <2>3. OfflineInv'
    BY <1>5 DEF Disconnected
  <2> QED BY <2>1, <2>2, <2>3 DEF IInv
<1> QED BY <1>1, <1>2, <1>3, <1>4, <1>5 DEF Event

LEMMA AppInv == ASSUME IInv, App PROVE IInv'
<1> USE DEF TaskInv, SubInv, Asked, OfflineInv, Pending
<1>1. CASE Start
  BY <1>1 DEF Start, IInv, TypeOK, StatusInv
<1>2. CASE AddSubscription
  <2>1. /\ s_sub_count' = s_sub_count + 1 /\ s_sub_count' \in 1 .. MaxSubs
        /\ app' = "added" /\ served' = served /\ denied' = denied
    BY <1>2, MqttAssumption DEF AddSubscription, Room, IInv, TypeOK
  <2>2. (1 .. s_sub_count') \ {s_sub_count'} = 1 .. s_sub_count /\ Pending = {}
    BY <1>2, <2>1 DEF AddSubscription, IInv, TypeOK
  <2>3. SubInv'
    BY <1>2, <2>1, <2>2 DEF AddSubscription, IInv
  <2> QED BY <1>2, <2>1, <2>3, MqttAssumption DEF AddSubscription, IInv, TypeOK, StatusInv
<1>3. CASE CheckConnected
  BY <1>3 DEF CheckConnected, IInv, TypeOK, StatusInv
<1>4. CASE SubscribeNow
  <2>1. /\ app = "subscribe" /\ app' = "idle" /\ s_sub_count \in 1 .. s_sub_count
        /\ UNCHANGED <<link, status, state, client, s_connected, s_sub_count, outbox,
                       handling, stating, refused, offline>>
    BY <1>4 DEF SubscribeNow, IInv, TypeOK
  <2>2. /\ Asked' = Asked \cup {s_sub_count}
        /\ served' \subseteq 1 .. s_sub_count /\ denied' \subseteq 1 .. s_sub_count
    BY <1>4, <2>1 DEF SubscribeNow, Subscribe, IInv, TypeOK
  <2>3. SubInv'
    BY <2>1, <2>2 DEF IInv
  <2> QED BY <2>1, <2>2, <2>3 DEF IInv, TypeOK, StatusInv
<1>5. CASE Publish
  <2>1. Enqueue("reading") /\ "reading" \in Message
    BY <1>5 DEF Publish, Message
  <2>2. /\ outbox' \in Seq(Message) /\ Len(outbox') <= OutboxLimit
        /\ Len(outbox) <= Len(outbox') /\ Len(outbox) \in Nat /\ Len(outbox') \in Nat
        /\ \A i \in 1 .. Len(outbox) : outbox'[i] = outbox[i]
        /\ refused \subseteq refused' /\ refused' \subseteq refused \cup {"reading"}
    BY <2>1, Outbox DEF IInv, TypeOK
  <2>3. StatusInv' /\ TypeOK'
    BY <1>5, <2>1, <2>2 DEF Publish, IInv, TypeOK, StatusInv
  <2> QED BY <1>5, <2>3 DEF Publish, IInv, TypeOK
<1>6. CASE AskState
  BY <1>6 DEF AskState, PublishNow, IInv, TypeOK, StatusInv
<1> QED BY <1>1, <1>2, <1>3, <1>4, <1>5, <1>6 DEF App

LEMMA StateTaskInv == ASSUME IInv, StateTask PROVE IInv'
<1> USE DEF TaskInv, SubInv, Asked, OfflineInv, Pending
<1>1. CASE StartStateTask
  BY <1>1 DEF StartStateTask, IInv, TypeOK, StatusInv
<1>2. CASE Wake
  BY <1>2 DEF Wake, IInv, TypeOK, StatusInv
<1>3. CASE Check
  BY <1>3 DEF Check, IInv, TypeOK, StatusInv
<1>4. CASE Build
  <2>1. TypeOK'
    BY <1>4 DEF Build, IInv, TypeOK, Doc, Message
  <2>2. OfflineInv' /\ TaskInv' /\ SubInv'
    BY <1>4 DEF Build, IInv, TypeOK
  <2>3. StatusInv'
    BY <1>4 DEF Build, IInv, StatusInv
  <2> QED BY <2>1, <2>2, <2>3 DEF IInv
<1>5. CASE PublishState
  <2>1. doc \in Message /\ Enqueue(doc)
    BY <1>5 DEF PublishState, IInv, TypeOK, Doc, Message
  <2>2. /\ outbox' \in Seq(Message) /\ Len(outbox') <= OutboxLimit
        /\ Len(outbox) <= Len(outbox') /\ Len(outbox) \in Nat /\ Len(outbox') \in Nat
        /\ \A i \in 1 .. Len(outbox) : outbox'[i] = outbox[i]
        /\ refused \subseteq refused' /\ refused' \subseteq refused \cup {doc}
    BY <2>1, Outbox DEF IInv, TypeOK
  <2>3. StatusInv' /\ TypeOK'
    BY <1>5, <2>1, <2>2 DEF PublishState, IInv, TypeOK, StatusInv, Doc
  <2> QED BY <1>5, <2>3 DEF PublishState, IInv, TypeOK
<1> QED BY <1>1, <1>2, <1>3, <1>4, <1>5 DEF StateTask

LEMMA NextInv == IInv /\ [Next]_vars => IInv'
<1> SUFFICES ASSUME IInv, [Next]_vars PROVE IInv'
  OBVIOUS
<1>1. CASE UNCHANGED vars
  BY <1>1 DEF vars, IInv, TypeOK, TaskInv, SubInv, Asked, Pending, OfflineInv, StatusInv
<1> QED BY <1>1, BrokerInv, EventInv, AppInv, StateTaskInv DEF Next

LEMMA Invariance == Spec => []IInv
  BY InitInv, NextInv, PTL DEF Spec

-----------------------------------------------------------------------------
\* Every variable of the client stays in its type, for any number of
\* subscriptions and any outbox.
THEOREM TypeCorrect == Spec => []TypeOK
<1>1. IInv => TypeOK
  BY DEF IInv
<1> QED BY <1>1, Invariance, PTL

\* "now if connected and again after every reconnect" (hi_mqtt.h:78): no order
\* of the two tasks leaves a subscription out (hi_mqtt.c:134-135, 191-196); one
\* is missing only where esp-mqtt refused it on this connection.
THEOREM NoneLeftOut == Spec => []AllSubscribed
<1>1. IInv => AllSubscribed
  BY DEF IInv, TypeOK, SubInv, Asked, Pending, AllSubscribed
<1> QED BY <1>1, Invariance, PTL

\* An outage queues at most the state that was being built when it began
\* (hi_mqtt.c:84-85).
THEOREM OneStateQueued == Spec => []OneStateOffline
<1>1. IInv => OneStateOffline
  BY DEF IInv, OfflineInv, OneStateOffline
<1> QED BY <1>1, Invariance, PTL

\* A connected device whose outbox is empty is shown as online, unless the
\* outbox refused to say so (hi_mqtt.h:14).
THEOREM ShownOnline == Spec => []OnlineWhenSent
<1>1. IInv => OnlineWhenSent
  BY DEF IInv, TypeOK, StatusInv, OnlineWhenSent
<1> QED BY <1>1, Invariance, PTL
=============================================================================
