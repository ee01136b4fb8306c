-------------------------- MODULE HiMqttDataProofs --------------------------
(***************************************************************************)
(* HiMqttData implements HiDelivery, for every number of topics, size of a *)
(* buffer and length of a message.                                         *)
(***************************************************************************)
EXTENDS HiMqttData, TLAPS

\* While a message comes, on_data() is at a byte of it, and what was delivered
\* of a message that fits is at the start of its subscription's buffer.
Receiving ==
    offset >= 0 =>
        /\ message.topic <= s_sub_count
        /\ offset < message.len \/ (offset = 0 /\ message.len = 0)
        /\ offset > 0 =>
               IF Fits(message.len)
               THEN /\ s_rx_sub = message.topic
                    /\ \A b \in 1 .. offset : buf[s_rx_sub][b] = message.number
               ELSE s_rx_sub = 0

IInv == TypeOK /\ Receiving

LEMMA InitInv == Init => IInv
  BY DataAssumption DEF Init, IInv, TypeOK, Receiving, Topic, Number, Message, NotCalled

\* The bytes of a fragment that is taken.
LEMMA CopyTaken ==
  ASSUME NEW s \in Topic, NEW n \in Nat, offset >= 0, offset + n <= MaxLen,
         IInv
  PROVE  /\ Copy(s, n) \in [Topic -> [1 .. MaxLen -> Number]]
         /\ \A b \in 1 .. offset : Copy(s, n)[s][b] = buf[s][b]
         /\ \A b \in offset + 1 .. offset + n : Copy(s, n)[s][b] = message.number
<1> DEFINE new == offset + 1 .. offset + n
           row == [b \in DOMAIN buf[s] \cup new |-> IF b \in new THEN message.number
                                                   ELSE buf[s][b]]
<1>1. /\ offset \in Nat /\ message.number \in Number
      /\ buf \in [Topic -> [1 .. MaxLen -> Number]]
  BY DEF IInv, TypeOK, Message
<1>2. DOMAIN buf[s] \cup new = 1 .. MaxLen
  BY <1>1, DataAssumption
<1>3. row \in [1 .. MaxLen -> Number]
  BY <1>1, <1>2
<1>4. Copy(s, n) = [buf EXCEPT ![s] = row]
  BY DEF Copy
<1>5. Copy(s, n)[s] = row
  BY <1>1, <1>4
<1>6. \A b \in 1 .. offset : row[b] = buf[s][b]
  BY <1>1, <1>2, DataAssumption
<1>7. \A b \in new : row[b] = message.number
  BY <1>1, <1>2
<1> QED BY <1>1, <1>3, <1>4, <1>5, <1>6, <1>7

\* What on_data() does with a fragment, in three cases.
LEMMA DataCases ==
  ASSUME IInv, NEW n \in Fragment, Data(n)
  PROVE  /\ n \in Nat /\ offset \in Nat /\ offset + n <= message.len
         /\ offset + n < message.len \/ offset + n = message.len
         /\ message.len \in 0 .. Longest
         /\ ~Fits(message.len) => s_rx_sub' = 0 /\ UNCHANGED <<buf, called>>
         /\ Fits(message.len) => Receiver = message.topic /\ message.topic \in 1 .. s_sub_count
                                 /\ offset + n <= MaxLen /\ buf' = Copy(message.topic, n)
<1>1. /\ message \in Message /\ offset \in Nat /\ message.len \in 0 .. Longest
      /\ message.topic \in Topic /\ message.topic <= s_sub_count /\ s_sub_count \in 0 .. MaxSubs
  BY DEF IInv, TypeOK, Receiving, Message, Data
<1>2. n \in Nat /\ offset + n <= message.len
  BY <1>1 DEF Fragment, IInv, Receiving
<1>3. Receiver = IF Fits(message.len) THEN message.topic ELSE 0
  BY <1>1 DEF Receiver, IInv, Receiving
<1>4. Fits(message.len) => Fits(offset + n)
  BY <1>1, <1>2, DataAssumption DEF Fits
<1>5. CASE Fits(message.len)
  BY <1>1, <1>2, <1>3, <1>4, <1>5, DataAssumption DEF Data, Topic, Fits
<1>6. CASE ~Fits(message.len)
  BY <1>1, <1>2, <1>3, <1>6, DataAssumption DEF Data
<1> QED BY <1>1, <1>2, <1>5, <1>6

\* The call of a callback has the whole message.
LEMMA WholeCalled ==
  ASSUME IInv, NEW n \in Fragment, Data(n), Fits(message.len), offset + n = message.len
  PROVE  /\ offset' = -1 /\ s_rx_sub' = 0
         /\ called' = [sub |-> message.topic, of |-> message,
                       data |-> [b \in 1 .. message.len |-> message.number]]
<1>1. /\ n \in Nat /\ offset \in Nat /\ message.len \in 0 .. Longest
      /\ Receiver = message.topic /\ message.topic \in 1 .. s_sub_count
      /\ offset + n <= MaxLen /\ buf' = Copy(message.topic, n)
  BY DataCases
<1>2. message.topic \in Topic /\ message.number \in Number
  BY DEF IInv, TypeOK, Message
<1>3. \A b \in 1 .. offset : buf[message.topic][b] = message.number
  <2>1. CASE offset > 0
    BY <2>1, <1>1 DEF IInv, Receiving
  <2>2. CASE offset = 0
    BY <2>2
  <2> QED BY <2>1, <2>2, <1>1
<1>4. \A b \in 1 .. message.len : buf'[message.topic][b] = message.number
  <2> TAKE b \in 1 .. message.len
  <2>1. CASE b <= offset
    BY <2>1, <1>1, <1>2, <1>3, CopyTaken
  <2>2. CASE b > offset
    BY <2>2, <1>1, <1>2, CopyTaken
  <2> QED BY <2>1, <2>2, <1>1
<1>5. Ends(n) /\ Receiver # 0 /\ Fits(offset + n)
  BY <1>1, DataAssumption DEF Ends, Fits
<1>6. called' = [sub |-> message.topic, of |-> message,
                 data |-> [b \in 1 .. message.len |-> buf'[message.topic][b]]]
  BY <1>1, <1>5 DEF Data
<1>7. offset' = -1 /\ s_rx_sub' = 0
  BY <1>1, <1>5 DEF Data
<1> QED BY <1>4, <1>6, <1>7

\* A fragment that is not the last one calls nobody.
LEMMA NotCalledYet ==
  ASSUME IInv, NEW n \in Fragment, Data(n), offset + n < message.len
  PROVE  /\ offset' = offset + n /\ called' = called
         /\ Fits(message.len) => s_rx_sub' = message.topic
<1>1. n \in Nat /\ offset \in Nat /\ message.len \in 0 .. Longest
  BY DataCases
<1>2. ~Ends(n) /\ offset' = offset + n
  BY <1>1 DEF Ends, Data
<1>3. CASE Fits(message.len)
  <2>1. Receiver = message.topic /\ message.topic \in 1 .. s_sub_count /\ offset + n <= MaxLen
    BY <1>3, DataCases
  <2>2. Fits(offset + n) /\ Receiver # 0
    BY <2>1, DataAssumption DEF Fits, IInv, TypeOK
  <2> QED BY <1>2, <2>1, <2>2 DEF Data
<1>4. CASE ~Fits(message.len)
  BY <1>2, <1>4, DataCases
<1> QED BY <1>2, <1>3, <1>4

LEMMA DataInv == ASSUME IInv, NEW n \in Fragment, Data(n) PROVE IInv'
<1>1. /\ n \in Nat /\ offset \in Nat /\ offset + n <= message.len
      /\ message.len \in 0 .. Longest /\ message \in Message
      /\ message.topic \in Topic /\ message.number \in Number
      /\ message.topic <= s_sub_count /\ s_sub_count \in 0 .. MaxSubs
      /\ UNCHANGED <<s_sub_count, message>>
  BY DataCases DEF Data, IInv, TypeOK, Receiving, Message
<1>2. buf' \in [Topic -> [1 .. MaxLen -> Number]]
  BY <1>1, DataCases, CopyTaken DEF IInv, TypeOK
<1>3. CASE offset + n = message.len
  <2>1. CASE Fits(message.len)
    <3>1. message.len <= MaxLen
      BY <2>1 DEF Fits
    <3>2. called' = [sub |-> message.topic, of |-> message,
                     data |-> [b \in 1 .. message.len |-> message.number]]
          /\ offset' = -1 /\ s_rx_sub' = 0
      BY <1>3, <2>1, WholeCalled
    <3>3. /\ called'.sub = message.topic /\ called'.of = message
          /\ called'.data = [b \in 1 .. message.len |-> message.number]
      BY <3>2
    <3>4. called'.data \in Seq(Number) /\ Len(called'.data) = message.len
      BY <3>3, <1>1
    <3> QED BY <3>1, <3>2, <3>3, <3>4, <1>1, <1>2, DataAssumption
        DEF IInv, TypeOK, Receiving, Topic
  <2>2. CASE ~Fits(message.len)
    <3>1. s_rx_sub' = 0 /\ called' = called /\ offset' = -1
      BY <2>2, <1>3, DataCases DEF Data
    <3> QED BY <3>1, <1>1, <1>2, DataAssumption DEF IInv, TypeOK, Receiving
  <2> QED BY <2>1, <2>2
<1>4. CASE offset + n < message.len
  <2>1. offset' = offset + n /\ called' = called
    BY <1>4, NotCalledYet
  <2>2. CASE Fits(message.len)
    <3>1. s_rx_sub' = message.topic /\ buf' = Copy(message.topic, n) /\ offset + n <= MaxLen
      BY <1>4, <2>2, DataCases, NotCalledYet
    <3>2. \A b \in 1 .. offset' : buf'[message.topic][b] = message.number
      <4> TAKE b \in 1 .. offset'
      <4>1. CASE b <= offset
        <5>1. buf[message.topic][b] = message.number
          BY <4>1, <2>1, <2>2, <1>1 DEF IInv, Receiving
        <5> QED BY <5>1, <4>1, <3>1, <1>1, CopyTaken
      <4>2. CASE b > offset
        BY <4>2, <2>1, <3>1, <1>1, CopyTaken
      <4> QED BY <4>1, <4>2, <2>1, <1>1
    <3>3. Fits(message.len)'
      BY <2>2, <1>1 DEF Fits
    <3>4. Receiving'
      BY <3>1, <3>2, <3>3, <2>1, <1>1, <1>4 DEF Receiving
    <3> QED BY <3>1, <3>4, <2>1, <1>1, <1>2, <1>4, DataAssumption
        DEF IInv, TypeOK, Topic
  <2>3. CASE ~Fits(message.len)
    <3>1. s_rx_sub' = 0 /\ ~Fits(message.len)'
      BY <2>3, <1>1, DataCases DEF Fits
    <3>2. Receiving'
      BY <3>1, <2>1, <1>1, <1>4 DEF Receiving
    <3> QED BY <3>1, <3>2, <2>1, <1>1, <1>2, <1>4, DataAssumption DEF IInv, TypeOK
  <2> QED BY <2>2, <2>3
<1> QED BY <1>1, <1>3, <1>4

LEMMA NextInv == IInv /\ [Next]_vars => IInv'
<1> SUFFICES ASSUME IInv, [Next]_vars PROVE IInv'
  OBVIOUS
<1>1. CASE AddSubscription
  <2>1. TypeOK'
    BY <1>1, DataAssumption DEF AddSubscription, IInv, TypeOK
  <2>2. Receiving'
    BY <1>1, DataAssumption
       DEF AddSubscription, IInv, TypeOK, Receiving, Fits, Message, Topic
  <2> QED BY <2>1, <2>2 DEF IInv
<1>2. CASE Cut
  BY <1>2, DataAssumption DEF Cut, IInv, TypeOK, Receiving
<1>3. ASSUME NEW t \in Topic, NEW len \in 0 .. Longest, Sends(t, len) PROVE IInv'
  <2>0. (message.number + 1) % Numbers \in Number
    <3>1. \A a \in Nat, m \in Nat \ {0} : a % m \in 0 .. m - 1
      OBVIOUS
    <3>2. message.number + 1 \in Nat
      BY DataAssumption DEF IInv, TypeOK, Message, Number
    <3> QED BY <3>1, <3>2, DataAssumption DEF Number
  <2>1. message' \in Message /\ offset' = 0 /\ message'.topic = t /\ message'.len = len
        /\ t <= s_sub_count
    BY <1>3, <2>0, DataAssumption DEF Sends, IInv, TypeOK, Message
  <2>2. Receiving'
    BY <1>3, <2>1 DEF Receiving, Sends
  <2> QED BY <1>3, <2>1, <2>2, DataAssumption DEF Sends, IInv, TypeOK
<1>4. ASSUME NEW n \in Fragment, Data(n) PROVE IInv'
  BY <1>4, DataInv
<1>5. CASE UNCHANGED vars
  BY <1>5 DEF vars, IInv, TypeOK, Receiving, Fits
<1> QED BY <1>1, <1>2, <1>3, <1>4, <1>5 DEF Next

\* Every variable stays in its type, and every byte inside its buffer
\* (hi_mqtt.c:167-179).
THEOREM TypeCorrect == Spec => []TypeOK
<1>1. IInv => TypeOK
  BY DEF IInv
<1> QED BY <1>1, InitInv, NextInv, PTL DEF Spec

-----------------------------------------------------------------------------
(* The refinement: a fragment that ends a message delivers it, the others  *)
(* are stuttering steps.                                                   *)

LEMMA InitRefines == Init => Delivery!Init
<1> SUFFICES ASSUME Init PROVE Delivery!Init
  OBVIOUS
<1>1. << >> = [b \in 1 .. 0 |-> 0]
  OBVIOUS
<1> QED BY <1>1 DEF Init, Status, NotCalled, Delivery!Init, Delivery!Whole, Delivery!NoMessage

LEMMA StepRefines == IInv /\ [Next]_vars => [Delivery!Next]_Delivery!vars
<1> SUFFICES ASSUME IInv, [Next]_vars PROVE [Delivery!Next]_Delivery!vars
  OBVIOUS
<1>0. offset \in Int /\ message \in Message
  BY DataAssumption DEF IInv, TypeOK
<1>1. CASE AddSubscription
  BY <1>1 DEF AddSubscription, Status, Delivery!Next, Delivery!Subscribe
<1>2. CASE Cut
  BY <1>2, <1>0 DEF Cut, Status, Delivery!Next, Delivery!Cut
<1>3. ASSUME NEW t \in Topic, NEW len \in 0 .. Longest, Sends(t, len)
      PROVE  Delivery!Next
  <2>1. Delivery!Sends(t, len)
    BY <1>3, <1>0 DEF Sends, Status, Delivery!Sends
  <2>2. t \in 1 .. s_sub_count
    BY <1>3, DataAssumption DEF Sends, Topic, IInv, TypeOK
  <2> QED BY <2>1, <2>2 DEF Delivery!Next
<1>4. ASSUME NEW n \in Fragment, Data(n) PROVE [Delivery!Next]_Delivery!vars
  <2>1. /\ offset \in Nat /\ UNCHANGED <<s_sub_count, message>> /\ n \in Nat
        /\ Status = "sending"
    BY <1>4, DataCases DEF Data, Status
  <2>2. CASE offset + n < message.len
    <3>1. offset' >= 0 /\ called' = called
      BY <2>1, <2>2, <1>4, NotCalledYet
    <3> QED BY <3>1, <2>1 DEF Status, Delivery!vars
  <2>3. CASE offset + n = message.len
    <3>1. offset' = -1
      BY <2>1, <2>3, <1>4 DEF Data
    <3>2. Status' = "ended"
      BY <3>1 DEF Status
    <3>3. called' = IF message.len <= MaxLen THEN Delivery!Whole(message) ELSE called
      <4>1. CASE Fits(message.len)
        BY <4>1, <2>3, <1>4, WholeCalled DEF Fits, Delivery!Whole
      <4>2. CASE ~Fits(message.len)
        BY <4>2, <1>4, DataCases DEF Fits
      <4> QED BY <4>1, <4>2
    <3> QED BY <3>2, <3>3, <2>1 DEF Delivery!Next, Delivery!Delivered
  <2> QED BY <2>2, <2>3, <1>4, DataCases
<1>5. CASE UNCHANGED vars
  BY <1>5 DEF vars, Status, Delivery!vars
<1> QED BY <1>1, <1>2, <1>3, <1>4, <1>5 DEF Next

\* "A message on a subscribed topic, reassembled from its fragments"
\* (hi_mqtt.h:50), "messages longer than max_len are dropped" (hi_mqtt.h:79):
\* on_data() implements it, in whatever fragments the messages come.
THEOREM ImplementsDelivery == Spec => Delivers
<1>1. Spec => []IInv
  BY InitInv, NextInv, PTL DEF Spec
<1> QED BY <1>1, InitRefines, StepRefines, PTL DEF Spec, Delivers, Delivery!Spec
=============================================================================
