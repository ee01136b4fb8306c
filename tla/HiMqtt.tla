------------------------------- MODULE HiMqtt -------------------------------
(***************************************************************************)
(* The MQTT client (src/hi_mqtt.c): its connection events, the outbox, the *)
(* retained status and state, and the subscriptions.                       *)
(*                                                                         *)
(* Three tasks interleave: the MQTT task of esp-mqtt, which runs           *)
(* on_mqtt_event() and sends the outbox; the state task; and an            *)
(* application task that subscribes and publishes.  esp-mqtt and the       *)
(* broker are external: the outbox keeps its order and loses nothing it    *)
(* accepted, a message is removed once it is acknowledged, and the broker  *)
(* starts every session without subscriptions and publishes the last will  *)
(* when a connection is lost.                                              *)
(***************************************************************************)
EXTENDS Integers, Sequences

CONSTANTS
    MaxSubs,      \* HI_MQTT_MAX_SUBSCRIPTIONS
    OutboxLimit   \* outbox_limit_bytes, in messages

ASSUME MqttAssumption == MaxSubs \in Nat /\ OutboxLimit \in Nat \ {0}

VARIABLES
    link,          \* the broker and the client have a connection
    status,        \* retained at the broker: <prefix>/<mac>/status
    state,         \* retained at the broker: <prefix>/<mac>/state
    served,        \* the subscriptions the broker has for this connection
    client,        \* s_client # NULL
    s_connected,
    s_sub_count,
    outbox,        \* of esp-mqtt
    mqtt,          \* where the MQTT task is in on_mqtt_event()
    at,            \* its loop index over s_subs
    app,           \* where the application task is in add_subscription()
    stateTask,     \* where the state task is
    doc,           \* the state document it has built
    notified,      \* its task notification
    refused,       \* history: what this connection's outbox refused
    denied,        \* history: the subscriptions refused on this connection
    offline        \* history: states queued since s_connected was cleared

broker   == <<link, status, state, served, denied>>
subs     == <<s_sub_count, app>>
stating  == <<stateTask, doc, notified>>
handling == <<mqtt, at>>
vars == <<link, status, state, served, client, s_connected, s_sub_count,
          outbox, mqtt, at, app, stateTask, doc, notified, refused, denied, offline>>

\* A state document is "fresh" when it was built on the present connection.
Doc     == {"none", "stale", "fresh"}
Message == {"reading", "online", "stale", "fresh"}
Aged(m) == IF m = "fresh" THEN "stale" ELSE m

Init ==
    /\ link = FALSE /\ status = "offline" /\ served = {}
    /\ state \in {"none", "stale"}
    /\ client = FALSE /\ s_connected = FALSE
    /\ s_sub_count = 0 /\ app = "idle"
    /\ outbox = << >>
    /\ mqtt = "idle" /\ at = 0
    /\ stateTask = "none" /\ doc = "none" /\ notified = FALSE
    /\ refused = {} /\ denied = {} /\ offline = 0

-----------------------------------------------------------------------------
(* esp-mqtt and the broker (external)                                      *)

Accepts == Len(outbox) < OutboxLimit

\* esp_mqtt_client_enqueue(): -2 when the outbox is full.
Enqueue(m) ==
    /\ outbox' = IF Accepts THEN Append(outbox, m) ELSE outbox
    /\ refused' = IF Accepts THEN refused ELSE refused \cup {m}

\* A connection: the MQTT task is about to run the event.
Connect ==
    /\ client /\ ~link /\ ~s_connected /\ mqtt = "idle"
    /\ link' = TRUE /\ mqtt' = "connected"
    /\ served' = {} /\ state' = Aged(state) /\ doc' = Aged(doc)
    /\ outbox' = [i \in DOMAIN outbox |-> Aged(outbox[i])]
    /\ refused' = {} /\ denied' = {}
    /\ UNCHANGED <<status, client, s_connected, subs, at, stateTask, notified,
                   offline>>

\* The last will; the client notices later.
LinkLost ==
    /\ link /\ link' = FALSE /\ status' = "offline" /\ served' = {}
    /\ UNCHANGED <<state, client, s_connected, subs, outbox, handling,
                   stating, refused, denied, offline>>

\* The MQTT task sends the oldest message; one whose acknowledgement is lost
\* with the connection stays and is sent again.
Arrives(m) ==
    /\ status' = IF m = "online" THEN "online" ELSE status
    /\ state'  = IF m \in Doc THEN m ELSE state

Send ==
    /\ link /\ mqtt = "idle" /\ outbox # << >>
    /\ Arrives(Head(outbox))
    /\ outbox' = Tail(outbox)
    /\ UNCHANGED <<link, served, client, s_connected, subs, handling, stating,
                   refused, denied, offline>>

SendUnacknowledged ==
    /\ link /\ mqtt = "idle" /\ outbox # << >>
    /\ Arrives(Head(outbox))
    /\ UNCHANGED <<link, served, client, s_connected, subs, outbox, handling,
                   stating, refused, denied, offline>>

\* subscribe_one(): esp_mqtt_client_subscribe() fails without a connection, and
\* may fail with one, when the outbox is full or memory is short.  A failure is
\* only a warning: the next attempt is that of the next connection.
Subscribe(i) ==
    \/ link /\ served' = served \cup {i} /\ UNCHANGED denied
    \/ denied' = denied \cup {i} /\ UNCHANGED served

-----------------------------------------------------------------------------
(* on_mqtt_event(), in the MQTT task                                       *)

\* publish_now() is lost as long as there is no state task.
PublishNow == notified' = (notified \/ stateTask # "none")

Connected ==
    /\ mqtt = "connected" /\ mqtt' = "online"
    /\ s_connected' = TRUE
    /\ UNCHANGED <<broker, client, subs, outbox, at, stating, refused, offline>>

\* The result of the enqueue is not looked at.
OnlineForgotten ==
    /\ mqtt = "online" /\ mqtt' = "refresh"
    /\ UNCHANGED <<broker, client, s_connected, subs, outbox, at, stating,
                   refused, offline>>
Online ==
    /\ mqtt = "online" /\ mqtt' = "refresh"
    /\ Enqueue("online")
    /\ UNCHANGED <<broker, client, s_connected, subs, at, stating, offline>>

RefreshNever ==
    /\ mqtt = "refresh" /\ mqtt' = "loop" /\ at' = 1
    /\ UNCHANGED <<broker, client, s_connected, subs, outbox, stating,
                   refused, offline>>
Refresh ==
    /\ mqtt = "refresh" /\ mqtt' = "loop" /\ at' = 1
    /\ PublishNow
    /\ UNCHANGED <<broker, client, s_connected, subs, outbox, stateTask, doc,
                   refused, offline>>

\* s_sub_count is read anew for every subscription.
MoreButLast == at < s_sub_count
More == at <= s_sub_count

Resubscribe ==
    /\ mqtt = "loop"
    /\ IF More THEN Subscribe(at) /\ at' = at + 1 /\ UNCHANGED mqtt
       ELSE mqtt' = "idle" /\ at' = 0 /\ UNCHANGED <<served, denied>>
    /\ UNCHANGED <<link, status, state, client, s_connected, subs, outbox,
                   stating, refused, offline>>

Disconnected ==
    /\ ~link /\ s_connected /\ mqtt = "idle"
    /\ s_connected' = FALSE /\ offline' = 0
    /\ UNCHANGED <<broker, client, subs, outbox, handling, stating, refused>>

-----------------------------------------------------------------------------
(* hi_mqtt_start(), add_subscription() and publish_topic(), in a task of   *)
(* the application                                                         *)

\* The client starts, and connects, before the state task exists; the latter
\* is missing for good when it cannot be created.  A start that fails leaves
\* nothing behind.
Start ==
    /\ ~client /\ client' = TRUE
    /\ UNCHANGED <<broker, s_connected, subs, outbox, handling, stating,
                   refused, offline>>
StartStateTask ==
    /\ client /\ stateTask = "none" /\ stateTask' = "wait"
    /\ UNCHANGED <<broker, client, s_connected, subs, outbox, handling, doc,
                   notified, refused, offline>>

RoomForOneMore == s_sub_count <= MaxSubs
Room == s_sub_count < MaxSubs

AddSubscription ==
    /\ app = "idle" /\ Room
    /\ s_sub_count' = s_sub_count + 1
    /\ app' = "added"
    /\ UNCHANGED <<broker, client, s_connected, outbox, handling, stating,
                   refused, offline>>

CheckConnected ==
    /\ app = "added"
    /\ app' = IF client /\ s_connected THEN "subscribe" ELSE "idle"
    /\ UNCHANGED <<broker, client, s_connected, s_sub_count, outbox, handling,
                   stating, refused, offline>>

SubscribeNow ==
    /\ app = "subscribe" /\ app' = "idle"
    /\ Subscribe(s_sub_count)
    /\ UNCHANGED <<link, status, state, client, s_connected, s_sub_count,
                   outbox, handling, stating, refused, offline>>

\* hi_mqtt_publish(): readings survive an outage in the outbox.
Publish ==
    /\ client /\ Enqueue("reading")
    /\ UNCHANGED <<broker, client, s_connected, subs, handling, stating,
                   offline>>

\* hi_mqtt_state_publish_now() from anywhere.
AskState ==
    /\ PublishNow
    /\ UNCHANGED <<broker, client, s_connected, subs, outbox, handling,
                   stateTask, doc, refused, offline>>

-----------------------------------------------------------------------------
(* state_task() and publish_state()                                        *)

\* Woken by a notification, or by the period.
Wake ==
    /\ stateTask = "wait" /\ stateTask' = "check"
    /\ notified' = FALSE
    /\ UNCHANGED <<broker, client, s_connected, subs, outbox, handling, doc,
                   refused, offline>>

CheckNothing ==
    /\ stateTask = "check" /\ stateTask' = "build"
    /\ UNCHANGED <<broker, client, s_connected, subs, outbox, handling, doc,
                   notified, refused, offline>>
Check ==
    /\ stateTask = "check"
    /\ stateTask' = IF s_connected THEN "build" ELSE "wait"
    /\ UNCHANGED <<broker, client, s_connected, subs, outbox, handling, doc,
                   notified, refused, offline>>

\* state_fn(), which may have no document, and the printing of it.
Build ==
    /\ stateTask = "build"
    /\ \/ stateTask' = "publish" /\ doc' = "fresh" /\ UNCHANGED refused
       \/ stateTask' = "wait" /\ UNCHANGED doc /\ refused' = refused \cup {"fresh"}
    /\ UNCHANGED <<broker, client, s_connected, subs, outbox, handling,
                   notified, offline>>

PublishState ==
    /\ stateTask = "publish" /\ stateTask' = "wait"
    /\ Enqueue(doc) /\ doc' = "none"
    /\ offline' = IF ~s_connected /\ Accepts /\ offline < 2 THEN offline + 1
                  ELSE offline
    /\ UNCHANGED <<broker, client, s_connected, subs, handling, notified>>

-----------------------------------------------------------------------------
Broker    == Connect \/ LinkLost \/ Send \/ SendUnacknowledged
Event     == Connected \/ Online \/ Refresh \/ Resubscribe \/ Disconnected
App       == \/ Start \/ AddSubscription \/ CheckConnected \/ SubscribeNow
             \/ Publish \/ AskState
StateTask == StartStateTask \/ Wake \/ Check \/ Build \/ PublishState

Next == Broker \/ Event \/ App \/ StateTask

Spec == Init /\ [][Next]_vars

(* The tasks run, and a broker that is connected acknowledges what it is   *)
(* sent.  The period of the state task is left out: a state that waits for *)
(* it is late.                                                             *)
Fairness ==
    /\ WF_vars(Event) /\ WF_vars(Send)
    /\ WF_vars(notified /\ Wake) /\ WF_vars(Check \/ Build \/ PublishState)

FairSpec == Spec /\ Fairness

-----------------------------------------------------------------------------
\* Every variable stays in its type.
TypeOK ==
    /\ link \in BOOLEAN /\ client \in BOOLEAN /\ s_connected \in BOOLEAN
    /\ status \in {"offline", "online"} /\ state \in Doc /\ doc \in Doc
    /\ s_sub_count \in 0 .. MaxSubs
    /\ served \subseteq 1 .. s_sub_count /\ denied \subseteq 1 .. s_sub_count
    /\ outbox \in Seq(Message) /\ Len(outbox) <= OutboxLimit
    /\ mqtt \in {"idle", "connected", "online", "refresh", "loop"}
    /\ at \in 0 .. MaxSubs + 1
    /\ app \in {"idle", "added", "subscribe"}
    /\ stateTask \in {"none", "wait", "check", "build", "publish"}
    /\ notified \in BOOLEAN
    /\ refused \subseteq Message /\ offline \in 0 .. 2

\* "now if connected and again after every reconnect" (hi_mqtt.h:78): a
\* subscription that is added while a connection comes up is asked for by the
\* one or the other task, in whatever order they go (hi_mqtt.c:134-135,
\* 191-196): the broker has it, unless esp-mqtt refused it on this connection,
\* after which the code leaves it out until the next one (hi_mqtt.c:121).
AllSubscribed ==
    link /\ s_connected /\ mqtt = "idle" /\ app = "idle"
        => served \cup denied = 1 .. s_sub_count

\* "a retained state queued offline would sit in the outbox and push out the
\* readings" (hi_mqtt.c:84-85): the connection can be lost after the check,
\* but no outage queues more than the one state that was being built.
OneStateOffline == offline <= 1

\* "online" / "offline" (hi_mqtt.h:14): once the outbox was sent, a connected
\* device is shown as online, if its outbox had room for saying so.
OnlineWhenSent ==
    link /\ s_connected /\ mqtt = "idle" /\ outbox = << >>
        => status = "online" \/ "online" \in refused

\* The same of every connected device.
ConnectedIsOnline ==
    link /\ s_connected /\ mqtt = "idle" /\ outbox = << >> => status = "online"

\* "a subscriber never sees one from before the outage" (hi_mqtt.c:194): on a
\* connection that lasts, the state is replaced, without waiting for the
\* period, unless it could not be built or queued.
StateRefreshed ==
    (mqtt = "refresh" /\ stateTask # "none") ~>
        (state = "fresh" \/ ~link \/ refused \cap {"stale", "fresh"} # {})
=============================================================================
