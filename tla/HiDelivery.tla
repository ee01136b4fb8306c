----------------------------- MODULE HiDelivery -----------------------------
(***************************************************************************)
(* What include/hi_mqtt.h promises of received messages (lines 50 and 79): *)
(* each is handed to the callback of its topic once, whole, when it fits,  *)
(* and not at all when it does not or when the connection is lost first.   *)
(* HiMqttData shows that on_data() keeps it, fragment by fragment.         *)
(***************************************************************************)
EXTENDS Integers

CONSTANTS MaxSubs, MaxLen, Longest, Numbers

VARIABLES
    subscribed,   \* topics 1 .. subscribed
    status,       \* of "message": "sending", "cut" short, or "ended"
    message,
    called        \* the last call of a callback

vars == <<subscribed, status, message, called>>

Whole(m) == [sub |-> m.topic, of |-> m, data |-> [b \in 1 .. m.len |-> m.number]]
NoMessage == [topic |-> 1, len |-> 0, number |-> 0]

Init ==
    /\ subscribed = 0 /\ status = "ended" /\ message = NoMessage
    /\ called = [Whole(NoMessage) EXCEPT !.sub = 0]

Subscribe ==
    /\ subscribed < MaxSubs /\ subscribed' = subscribed + 1
    /\ UNCHANGED <<status, message, called>>

Sends(topic, len) ==
    /\ status # "sending" /\ status' = "sending"
    /\ message' = [topic |-> topic, len |-> len, number |-> (message.number + 1) % Numbers]
    /\ UNCHANGED <<subscribed, called>>

Delivered ==
    /\ status = "sending" /\ status' = "ended"
    /\ called' = IF message.len <= MaxLen THEN Whole(message) ELSE called
    /\ UNCHANGED <<subscribed, message>>

Cut ==
    /\ status = "sending" /\ status' = "cut"
    /\ UNCHANGED <<subscribed, message, called>>

Next == \/ Subscribe \/ Delivered \/ Cut
        \/ \E topic \in 1 .. subscribed, len \in 0 .. Longest : Sends(topic, len)

Spec == Init /\ [][Next]_vars
=============================================================================
