------------------------------- MODULE HiWifi -------------------------------
(***************************************************************************)
(* The WiFi station (src/hi_wifi.c).  The driver and the IP stack, modelled *)
(* by what they do to the station, post events; one task of the system     *)
(* hands them to event_handler() in their order.  A retry is made by       *)
(* retry_cb() in the task of the timers, at any time between two events.   *)
(***************************************************************************)
EXTENDS Integers, Sequences

CONSTANTS
    RetryMax,    \* CONFIG_HOME_IDF_WIFI_RETRY_MAX_S
    MaxEvents    \* bound: events that wait for the handler

ASSUME WifiAssumption == RetryMax \in Nat \ {0, 1} /\ MaxEvents \in Nat \ {0}

VARIABLES
    link,               \* the driver: "off", "idle", "joining" or "up" with an address
    events,             \* posted and not yet handled
    s_connected,        \* and CONNECTED_BIT of s_events, written beside it
    s_retry_delay_s,
    timer,              \* s_retry_timer is armed
    refused             \* history: the last call of esp_wifi_connect() failed

wifiVars == <<link, events, s_connected, s_retry_delay_s, timer, refused>>

Event == {"start", "disconnected", "got_ip"}

WifiInit ==
    /\ link = "off" /\ events = << >>
    /\ s_connected = FALSE /\ s_retry_delay_s = 1
    /\ timer = FALSE /\ refused = FALSE

-----------------------------------------------------------------------------
(* The driver (external).                                                  *)

Post(event) == Len(events) < MaxEvents /\ events' = Append(events, event)

Changes(from, to, event) ==
    /\ link = from /\ link' = to /\ Post(event)
    /\ UNCHANGED <<s_connected, s_retry_delay_s, timer, refused>>

Joins     == Changes("joining", "up", "got_ip")
JoinFails == Changes("joining", "idle", "disconnected")
Drops     == Changes("up", "idle", "disconnected")
\* Steered to another access point (802.11v), which it joins by itself.
Roams     == Changes("up", "joining", "disconnected")

\* esp_wifi_connect().  It is refused while the station is joining or joined,
\* which does no harm, and may fail when it is not.
Connect(works) ==
    IF link = "idle"
    THEN refused' = ~works /\ link' = IF works THEN "joining" ELSE link
    ELSE UNCHANGED <<link, refused>>

-----------------------------------------------------------------------------
\* hi_wifi_start(); the driver reports that it is started.
Start == Changes("off", "idle", "start")

Handles(event) == events # << >> /\ Head(events) = event /\ events' = Tail(events)

\* event_handler(), one branch for each event.
OnStart(works) ==
    /\ Handles("start") /\ Connect(works)
    /\ UNCHANGED <<s_connected, s_retry_delay_s, timer>>

\* "esp_timer_stop(); esp_timer_start_once()"
ArmedOnce == timer' = (timer \/ s_connected)
Armed     == timer' = TRUE

DelayDoubled == IF s_retry_delay_s * 2 < RetryMax THEN s_retry_delay_s * 2 ELSE RetryMax

OnDisconnected ==
    /\ Handles("disconnected")
    /\ s_connected' = FALSE /\ s_retry_delay_s' = DelayDoubled /\ Armed
    /\ UNCHANGED <<link, refused>>

\* The timer is not stopped: it may go off when the station is joined.
OnGotIp ==
    /\ Handles("got_ip")
    /\ s_connected' = TRUE /\ s_retry_delay_s' = 1
    /\ UNCHANGED <<link, timer, refused>>

\* retry_cb(): a call that fails is logged.
Retry(works) ==
    /\ timer /\ timer' = FALSE /\ Connect(works)
    /\ UNCHANGED <<events, s_connected, s_retry_delay_s>>

\* The tasks that run event_handler() and retry_cb().
Handler == OnDisconnected \/ OnGotIp \/ \E works \in BOOLEAN : OnStart(works)
Timers  == \E works \in BOOLEAN : Retry(works)

WifiNext ==
    \/ Start \/ Joins \/ JoinFails \/ Drops \/ Roams
    \/ Handler \/ Timers

-----------------------------------------------------------------------------
\* Every variable stays in its type.
WifiTypeOK ==
    /\ link \in {"off", "idle", "joining", "up"}
    /\ events \in Seq(Event) /\ Len(events) <= MaxEvents
    /\ s_connected \in BOOLEAN /\ s_retry_delay_s \in 1 .. RetryMax
    /\ timer \in BOOLEAN /\ refused \in BOOLEAN

\* Once the handler is through with the events, hi_wifi_is_connected() is what
\* the station is, and a station that is idle has its next attempt coming, for
\* whatever the timer, in a task of its own, did between them (hi_wifi.c:23-60).
Followed ==
    events = << >> =>
        /\ s_connected <=> link = "up"
        /\ link = "idle" => timer \/ refused

\* "reconnects forever with exponential backoff" (hi_wifi.h:15): the station
\* is connected again and again, as often as an access point lets it join;
\* but for a call of esp_wifi_connect() that fails, after which nothing calls
\* it again (hi_wifi.c:23-30).
Reconnects == []<>(s_connected \/ refused)
=============================================================================
