----------------------------- MODULE HiMqttData -----------------------------
(***************************************************************************)
(* Received MQTT messages (on_data() of src/hi_mqtt.c).  esp-mqtt delivers *)
(* a long message in fragments, of which only the first carries the topic; *)
(* the connection may be lost between two fragments, and then the next     *)
(* event belongs to another message.  Meanwhile the application adds       *)
(* subscriptions from a task of its own.                                   *)
(*                                                                         *)
(* A message is one byte value repeated; bytes of different messages are   *)
(* told apart by the value, which is that of the message's number.         *)
(***************************************************************************)
EXTENDS Integers, Sequences

CONSTANTS
    MaxSubs,   \* HI_MQTT_MAX_SUBSCRIPTIONS
    MaxLen,    \* max_len of every subscription
    Longest,   \* the longest message on a topic
    Numbers    \* bound: message numbers, reused in turn

ASSUME DataAssumption ==
    /\ MaxSubs \in Nat \ {0} /\ MaxLen \in Nat \ {0}
    /\ Longest \in Nat /\ Numbers \in Nat \ {0, 1}

VARIABLES
    s_sub_count,   \* subscription i has topic i
    s_rx_sub,      \* the one receiving a message; 0: none, or dropped
    buf,           \* the buffer of each subscription
    message,       \* what the broker is sending
    offset,        \* how much of it was delivered; -1: it has ended, -2: it was cut
    called         \* history: the last call of a subscription's callback

vars == <<s_sub_count, s_rx_sub, buf, message, offset, called>>

Topic   == 1 .. MaxSubs
Number  == 0 .. Numbers - 1
Message == [topic : Topic, len : 0 .. Longest, number : Number]

NotCalled == [sub |-> 0, data |-> << >>, of |-> [topic |-> 1, len |-> 0, number |-> 0]]

Init ==
    /\ s_sub_count = 0 /\ s_rx_sub = 0
    /\ buf = [s \in Topic |-> [b \in 1 .. MaxLen |-> 0]]
    /\ message = [topic |-> 1, len |-> 0, number |-> 0] /\ offset = -1
    /\ called = NotCalled

-----------------------------------------------------------------------------
\* add_subscription(): the entry is filled in, then counted.
AddSubscription ==
    /\ s_sub_count < MaxSubs /\ s_sub_count' = s_sub_count + 1
    /\ UNCHANGED <<s_rx_sub, buf, message, offset, called>>

\* The broker sends on a topic that was subscribed to (external).
Sends(topic, len) ==
    /\ offset < 0 /\ topic <= s_sub_count
    /\ message' = [topic |-> topic, len |-> len,
                   number |-> (message.number + 1) % Numbers]
    /\ offset' = 0
    /\ UNCHANGED <<s_sub_count, s_rx_sub, buf, called>>

\* The connection is lost: the rest of the message never comes (external).
Cut ==
    /\ offset >= 0 /\ offset' = -2
    /\ UNCHANGED <<s_sub_count, s_rx_sub, buf, message, called>>

\* The sizes a subscription takes.
FitsOneMore(n) == n <= MaxLen + 1
FitsOneLess(n) == n < MaxLen
Fits(n) == n <= MaxLen

\* The first fragment finds the subscription, by its topic.
Receiver ==
    IF offset # 0 THEN s_rx_sub
    ELSE IF message.topic <= s_sub_count /\ Fits(message.len) THEN message.topic
    ELSE 0

\* memcpy(): a byte past the buffer would be one more byte of its domain.
Copy(s, n) ==
    LET new == offset + 1 .. offset + n
    IN [buf EXCEPT ![s] = [b \in DOMAIN @ \cup new |->
                              IF b \in new THEN message.number ELSE @[b]]]

\* The fragment is the last one of its message.
EndsAlways(n) == TRUE
Ends(n) == offset + n >= message.len

\* on_data() on the next n bytes.
Data(n) ==
    /\ offset >= 0
    /\ IF Receiver = 0 \/ ~Fits(offset + n)
       THEN s_rx_sub' = 0 /\ UNCHANGED <<buf, called>>
       ELSE /\ buf' = Copy(Receiver, n)
            /\ s_rx_sub' = IF Ends(n) THEN 0 ELSE Receiver
            /\ called' = IF Ends(n)
                         THEN [sub |-> Receiver, of |-> message,
                               data |-> [b \in 1 .. message.len |-> buf'[Receiver][b]]]
                         ELSE called
    /\ offset' = IF offset + n = message.len THEN -1 ELSE offset + n
    /\ UNCHANGED <<s_sub_count, message>>

\* What is left is delivered in fragments of any size; an empty message is
\* one empty fragment.
Fragment == IF message.len = 0 THEN {0} ELSE 1 .. message.len - offset

Next == \/ AddSubscription \/ Cut
        \/ \E t \in Topic, len \in 0 .. Longest : Sends(t, len)
        \/ offset >= 0 /\ \E n \in Fragment : Data(n)

Spec == Init /\ [][Next]_vars

-----------------------------------------------------------------------------
\* Every variable stays in its type, and every write inside its buffer.
TypeOK ==
    /\ s_sub_count \in 0 .. MaxSubs /\ s_rx_sub \in 0 .. s_sub_count
    /\ buf \in [Topic -> [1 .. MaxLen -> Number]]
    /\ message \in Message /\ offset \in -2 .. Longest
    /\ called.sub \in 0 .. MaxSubs /\ called.data \in Seq(Number)
    /\ called.of \in Message /\ Len(called.data) <= MaxLen

\* "A message on a subscribed topic, reassembled from its fragments"
\* (hi_mqtt.h:50), "messages longer than max_len are dropped" (hi_mqtt.h:79):
\* seen from the callbacks, messages arrive whole or not at all, none of those
\* that fit and were not cut is missing, and no byte is of another one
\* (hi_mqtt.c:158-182).
Status == IF offset >= 0 THEN "sending" ELSE IF offset = -1 THEN "ended" ELSE "cut"
Delivery == INSTANCE HiDelivery WITH subscribed <- s_sub_count, status <- Status
Delivers == Delivery!Spec
=============================================================================
