-------------------------- MODULE HiHelpersProofs --------------------------
(***************************************************************************)
(* The promises of HiDeadband, for every set of readings, every dead band, *)
(* gap and period, and a counter of any width that wraps; and that of      *)
(* HiSecret, for every key, credential and size of the buffer.             *)
(***************************************************************************)
EXTENDS HiDeadband, HiSecret, SequenceTheorems, TLAPS

-----------------------------------------------------------------------------
(* HiDeadband                                                              *)

\* Between two sends the receiver has what d remembers, and the counter has
\* gone on by "quiet" seconds, a whole number of periods, or wrapped once.
Remembered ==
    d.has => /\ received = d.sent /\ quiet < MaxGap
             /\ now - d.sent_s \in {quiet, quiet - Seconds}
             /\ \E k \in Nat : quiet = k * Period

IInv ==
    /\ now \in 0 .. Seconds - 1 /\ quiet \in Nat
    /\ d = [sent |-> d.sent, sent_s |-> d.sent_s, has |-> d.has]
    /\ d.has \in BOOLEAN
    /\ d.sent_s \in 0 .. Seconds - 1
    /\ Remembered /\ Tracks

\* The remainder of a number that is at most once too large or too small.
LEMMA Wraps ==
  ASSUME NEW S \in Nat \ {0}, NEW x \in -S .. 2 * S - 1
  PROVE  x % S = IF x < 0 THEN x + S ELSE IF x < S THEN x ELSE x - S
<1>1. \A y \in 0 .. S - 1, k \in Int : (k * S + y) % S = y
  OBVIOUS
<1>2. CASE x < 0
  BY <1>1, <1>2, x + S \in 0 .. S - 1, x = (-1) * S + (x + S)
<1>3. CASE 0 <= x /\ x < S
  BY <1>1, <1>3, x = 0 * S + x
<1>4. CASE x >= S
  BY <1>1, <1>4, x - S \in 0 .. S - 1, x = 1 * S + (x - S)
<1> QED BY <1>2, <1>3, <1>4

LEMMA InitInv == DeadbandInit => IInv
  BY DeadbandAssumption DEF DeadbandInit, IInv, Remembered, Tracks

\* The counter at the next reading.
LEMMA NextReading ==
  ASSUME now \in 0 .. Seconds - 1
  PROVE  /\ (now + Period) % Seconds \in 0 .. Seconds - 1
         /\ (now + Period) % Seconds \in {now + Period, now + Period - Seconds}
<1>0. PICK x : x = now + Period
  OBVIOUS
<1>1. Seconds \in Nat \ {0} /\ x \in 0 .. 2 * Seconds - 1
  BY <1>0, DeadbandAssumption
<1>2. x \in -Seconds .. 2 * Seconds - 1
  BY <1>1
<1>3. x % Seconds = IF x < 0 THEN x + Seconds ELSE IF x < Seconds THEN x ELSE x - Seconds
  BY <1>1, <1>2, Wraps
<1>4. x % Seconds \in 0 .. Seconds - 1 /\ x % Seconds \in {x, x - Seconds}
  BY <1>1, <1>3
<1> QED BY <1>0, <1>1, <1>4, DeadbandAssumption

\* A reading that is not sent: the counter tells how long the receiver waits.
LEMMA QuietElapsed ==
  ASSUME IInv, d.has
  PROVE  Elapsed((now + Period) % Seconds) = quiet + Period
<1> DEFINE t == (now + Period) % Seconds
<1>1. /\ now \in 0 .. Seconds - 1 /\ d.sent_s \in 0 .. Seconds - 1 /\ quiet \in Nat
      /\ now - d.sent_s \in {quiet, quiet - Seconds}
      /\ quiet + Period \in 1 .. Seconds - 1 /\ Seconds \in Nat \ {0}
      /\ Period \in 1 .. Seconds
  BY DeadbandAssumption DEF IInv, Remembered
<1>2. t \in 0 .. Seconds - 1 /\ t \in {now + Period, now + Period - Seconds}
  BY NextReading DEF IInv
<1> HIDE DEF t
<1>3. t - d.sent_s \in {quiet + Period, quiet + Period - Seconds}
  BY <1>1, <1>2
<1> DEFINE u == t - d.sent_s
<1>4. u \in -Seconds .. 2 * Seconds - 1
  BY <1>1, <1>2
<1>5. u \in {quiet + Period, quiet + Period - Seconds}
  BY <1>3
<1> HIDE DEF u
<1>6. u % Seconds = IF u < 0 THEN u + Seconds ELSE IF u < Seconds THEN u ELSE u - Seconds
  BY <1>1, <1>4, Wraps
<1>7. u % Seconds = quiet + Period
  BY <1>1, <1>4, <1>5, <1>6
<1> QED BY <1>7 DEF Elapsed, t, u

LEMMA ReadInv == ASSUME IInv, NEW v \in Value, Read(v) PROVE IInv'
<1> DEFINE t == (now + Period) % Seconds
<1>1. t \in 0 .. Seconds - 1 /\ now' = t /\ value' = v
  BY NextReading DEF Read, IInv
<1>2. CASE Due(v, t)
  <2>1. d' = [sent |-> v, sent_s |-> t, has |-> TRUE] /\ received' = v /\ quiet' = 0
    BY <1>2 DEF Read
  <2>2. quiet' = 0 * Period /\ now' - d'.sent_s = 0
    BY <1>1, <2>1, DeadbandAssumption
  <2> QED BY <1>1, <2>1, <2>2, DeadbandAssumption DEF IInv, Remembered, Tracks
<1>3. CASE ~Due(v, t)
  <2>1. d' = d /\ quiet' = quiet + Period /\ received' = received
    BY <1>3 DEF Read, Kept
  <2>2. d.has /\ Close(v, d.sent) /\ Elapsed(t) < MaxGap
    BY <1>3 DEF Due, IInv
  <2>3. quiet' < MaxGap /\ quiet' \in Nat
    BY <2>1, <2>2, QuietElapsed, DeadbandAssumption DEF IInv
  <2>4. now' - d'.sent_s \in {quiet', quiet' - Seconds}
    <3>1. t \in {now + Period, now + Period - Seconds}
      BY NextReading DEF IInv
    <3> HIDE DEF t
    <3> QED BY <3>1, <1>1, <2>1, <2>2, <2>3, DeadbandAssumption DEF IInv, Remembered
  <2>5. \E k \in Nat : quiet' = k * Period
    <3>1. PICK k \in Nat : quiet = k * Period
      BY <2>2 DEF IInv, Remembered
    <3>2. quiet' = (k + 1) * Period
      BY <2>1, <3>1, DeadbandAssumption
    <3> QED BY <3>2
  <2>6. received' = d'.sent /\ Close(received', value')
    BY <1>1, <2>1, <2>2 DEF Close, IInv, Remembered
  <2> HIDE DEF t
  <2>7. Remembered' /\ Tracks'
    BY <2>3, <2>4, <2>5, <2>6 DEF Remembered, Tracks, Close
  <2> QED BY <1>1, <2>1, <2>3, <2>7 DEF IInv
<1> QED BY <1>2, <1>3

LEMMA NextInv == IInv /\ [DeadbandNext]_deadbandVars => IInv'
<1> SUFFICES ASSUME IInv, [DeadbandNext]_deadbandVars PROVE IInv'
  OBVIOUS
<1>1. ASSUME NEW v \in Value, Read(v) PROVE IInv'
  BY <1>1, ReadInv
<1>2. ASSUME NEW t \in 0 .. Seconds - 1, Reset(t) PROVE IInv'
  BY <1>2 DEF Reset, IInv, Remembered, Tracks
<1>3. CASE UNCHANGED deadbandVars
  BY <1>3 DEF deadbandVars, IInv, Remembered, Tracks, Close
<1> QED BY <1>1, <1>2, <1>3 DEF DeadbandNext

LEMMA Invariance == DeadbandSpec => []IInv
  BY InitInv, NextInv, PTL DEF DeadbandSpec

-----------------------------------------------------------------------------
\* "A change of at least delta from the last value sent" (hi_deadband.h:4-5):
\* what the receiver has is never that far from the last reading, over any
\* drift and any values that are not numbers (hi_deadband.c:8-12).
THEOREM ReceiverTracks == DeadbandSpec => []Tracks
<1>1. IInv => Tracks
  BY DEF IInv
<1> QED BY <1>1, Invariance, PTL

\* Every window of the length hi_deadband.h:8-9 names has a send, the one in
\* which the counter wraps as well (hi_deadband.c:7-8).
THEOREM NoQuietWindow == DeadbandSpec => []SentInWindow
<1>1. IInv => SentInWindow
  <2> SUFFICES ASSUME IInv, d.has PROVE quiet + Period <= Window
    BY DEF SentInWindow
  <2>1. PICK k \in Nat : quiet = k * Period
    BY DEF IInv, Remembered
  <2>2. quiet < MaxGap /\ quiet \in Nat
    BY DEF IInv, Remembered
  <2>3. CASE MaxGap % Period # 0
    BY <2>2, <2>3, DeadbandAssumption DEF Window
  <2>4. CASE MaxGap % Period = 0
    <3>1. PICK m \in Int : MaxGap = m * Period
      BY <2>4, DeadbandAssumption, MaxGap = (MaxGap \div Period) * Period + (MaxGap % Period)
    <3>2. k + 1 <= m
      <4> SUFFICES ASSUME m <= k PROVE FALSE
        BY <3>1
      <4>1. m * Period <= k * Period
        BY DeadbandAssumption
      <4> QED BY <4>1, <2>1, <2>2, <3>1, DeadbandAssumption
    <3>3. (k + 1) * Period <= m * Period
      BY <3>2, DeadbandAssumption
    <3>4. (k + 1) * Period = quiet + Period
      BY <2>1, DeadbandAssumption
    <3> QED BY <3>1, <3>3, <3>4, <2>4 DEF Window
  <2> QED BY <2>3, <2>4
<1> QED BY <1>1, Invariance, PTL

-----------------------------------------------------------------------------
(* HiSecret                                                                *)

Weight == {1, 2, 4, 8, 16, 32, 64, 128}

\* A byte is the sum of its bits, and each bit of a sum is the one put there.
LEMMA SumOfBits ==
  ASSUME NEW a \in Byte
  PROVE  /\ a = Bit(a, 1) + 2 * Bit(a, 2) + 4 * Bit(a, 4) + 8 * Bit(a, 8)
                + 16 * Bit(a, 16) + 32 * Bit(a, 32) + 64 * Bit(a, 64) + 128 * Bit(a, 128)
         /\ \A w \in Weight : Bit(a, w) \in {0, 1}
  BY DEF Byte, Bit, Weight

LEMMA BitsOfSum ==
  ASSUME NEW b1 \in {0, 1}, NEW b2 \in {0, 1}, NEW b4 \in {0, 1}, NEW b8 \in {0, 1},
         NEW b16 \in {0, 1}, NEW b32 \in {0, 1}, NEW b64 \in {0, 1}, NEW b128 \in {0, 1},
         NEW a, a = b1 + 2 * b2 + 4 * b4 + 8 * b8 + 16 * b16 + 32 * b32 + 64 * b64 + 128 * b128
  PROVE  /\ a \in Byte
         /\ Bit(a, 1) = b1 /\ Bit(a, 2) = b2 /\ Bit(a, 4) = b4 /\ Bit(a, 8) = b8
         /\ Bit(a, 16) = b16 /\ Bit(a, 32) = b32 /\ Bit(a, 64) = b64 /\ Bit(a, 128) = b128
  BY DEF Byte, Bit

LEMMA XorBits ==
  ASSUME NEW a \in Byte, NEW b \in Byte
  PROVE  /\ ByteXor(a, b) \in Byte
         /\ \A w \in Weight : Bit(ByteXor(a, b), w) = IF Bit(a, w) = Bit(b, w) THEN 0 ELSE 1
<1> DEFINE D(w) == IF Bit(a, w) = Bit(b, w) THEN 0 ELSE 1
<1>1. \A w \in Weight : Differ(a, b, w) = w * D(w) /\ D(w) \in {0, 1}
  BY DEF Differ, Weight
<1>2. \A w \in Weight : D(w) \in {0, 1}
  OBVIOUS
<1> HIDE DEF D
<1>3. PICK x : x = D(1) + 2 * D(2) + 4 * D(4) + 8 * D(8)
                   + 16 * D(16) + 32 * D(32) + 64 * D(64) + 128 * D(128)
  OBVIOUS
<1>4. /\ x \in Byte
      /\ Bit(x, 1) = D(1) /\ Bit(x, 2) = D(2) /\ Bit(x, 4) = D(4) /\ Bit(x, 8) = D(8)
      /\ Bit(x, 16) = D(16) /\ Bit(x, 32) = D(32) /\ Bit(x, 64) = D(64) /\ Bit(x, 128) = D(128)
  BY <1>2, <1>3, BitsOfSum DEF Weight
<1>5. ByteXor(a, b) = x
  BY <1>1, <1>3 DEF ByteXor, Weight
<1>6. \A w \in Weight : Bit(x, w) = D(w)
  BY <1>4 DEF Weight
<1> QED BY <1>4, <1>5, <1>6 DEF D

\* Bytes with the same bits are the same.
LEMMA SameBits ==
  ASSUME NEW a \in Byte, NEW b \in Byte, \A w \in Weight : Bit(a, w) = Bit(b, w)
  PROVE  a = b
<1>1. /\ Bit(a, 1) = Bit(b, 1) /\ Bit(a, 2) = Bit(b, 2) /\ Bit(a, 4) = Bit(b, 4)
      /\ Bit(a, 8) = Bit(b, 8) /\ Bit(a, 16) = Bit(b, 16) /\ Bit(a, 32) = Bit(b, 32)
      /\ Bit(a, 64) = Bit(b, 64) /\ Bit(a, 128) = Bit(b, 128)
  BY DEF Weight
<1> QED BY <1>1, SumOfBits

\* Mixing twice with the same bytes gives back what was mixed.
LEMMA MixedTwice ==
  ASSUME NEW a \in Byte, NEW k \in Byte, NEW m \in Byte
  PROVE  ByteXor(ByteXor(a, k), m) \in Byte /\ ByteXor(ByteXor(ByteXor(ByteXor(a, k), m), k), m) = a
<1>1. ByteXor(a, k) \in Byte
  BY XorBits
<1>2. ByteXor(ByteXor(a, k), m) \in Byte
  BY <1>1, XorBits
<1>3. ByteXor(ByteXor(ByteXor(a, k), m), k) \in Byte
  BY <1>2, XorBits
<1>4. ByteXor(ByteXor(ByteXor(ByteXor(a, k), m), k), m) \in Byte
  BY <1>3, XorBits
<1>5. ASSUME NEW w \in Weight PROVE Bit(ByteXor(ByteXor(ByteXor(ByteXor(a, k), m), k), m), w) = Bit(a, w)
  <2> DEFINE D(x, y) == IF x = y THEN 0 ELSE 1
  <2>1. Bit(a, w) \in {0, 1} /\ Bit(k, w) \in {0, 1} /\ Bit(m, w) \in {0, 1}
    BY SumOfBits
  <2>2. Bit(ByteXor(a, k), w) = D(Bit(a, w), Bit(k, w))
    BY XorBits
  <2>3. Bit(ByteXor(ByteXor(a, k), m), w) = D(Bit(ByteXor(a, k), w), Bit(m, w))
    BY <1>1, XorBits
  <2>4. Bit(ByteXor(ByteXor(ByteXor(a, k), m), k), w) = D(Bit(ByteXor(ByteXor(a, k), m), w), Bit(k, w))
    BY <1>2, XorBits
  <2>5. Bit(ByteXor(ByteXor(ByteXor(ByteXor(a, k), m), k), m), w)
            = D(Bit(ByteXor(ByteXor(ByteXor(a, k), m), k), w), Bit(m, w))
    BY <1>3, XorBits
  <2> QED BY <2>1, <2>2, <2>3, <2>4, <2>5
<1> QED BY <1>2, <1>4, <1>5, SameBits

\* The tool and the device mix the same bytes in.
LEMMA Unmixed ==
  ASSUME NEW a \in Byte, NEW i \in Nat
  PROVE  ToolMixed(a, i) \in Byte /\ Mixed(ToolMixed(a, i), i) = a
<1>1. Len(Key) \in Nat \ {0} /\ i % Len(Key) \in 0 .. Len(Key) - 1
  BY SecretAssumption
<1>2. Key[(i % Len(Key)) + 1] \in Byte
  BY <1>1, SecretAssumption
<1>3. (i * 31 + 7) % 256 \in Byte
  BY DEF Byte
<1> QED BY <1>2, <1>3, MixedTwice DEF ToolMixed, Mixed, KeyByte

\* What the tool writes of a text: two digits for each byte.
LEMMA Digits ==
  ASSUME NEW text \in Seq(Byte), text # << >>
  PROVE  /\ Obfuscated(text) = Hex(Obfuscated(text).text)
         /\ Obfuscated(text).text \in Seq(0 .. 15)
         /\ Len(Obfuscated(text).text) = 2 * Len(text)
         /\ \A i \in 0 .. Len(text) - 1 :
                Obfuscated(text).text[2 * i + 1] * 16 + Obfuscated(text).text[2 * i + 2]
                    = ToolMixed(text[i + 1], i)
<1> DEFINE n == Len(text)
           M(i) == ToolMixed(text[i + 1], i)
           digit(j) == IF j % 2 = 1 THEN M((j - 1) \div 2) \div 16 ELSE M((j - 1) \div 2) % 16
           digits == [j \in 1 .. 2 * n |-> digit(j)]
<1>1. n \in Nat \ {0} /\ \A i \in 0 .. n - 1 : text[i + 1] \in Byte
  OBVIOUS
<1>2. \A i \in 0 .. n - 1 : M(i) \in Byte
  BY <1>1, Unmixed
<1>3. Obfuscated(text) = Hex(digits)
  BY DEF Obfuscated
<1>4. Obfuscated(text).text = digits
  BY <1>3 DEF Hex
<1> HIDE DEF n, M
<1>5. \A j \in 1 .. 2 * n : (j - 1) \div 2 \in 0 .. n - 1
  BY <1>1
<1>6. \A x \in Byte : x \div 16 \in 0 .. 15 /\ x % 16 \in 0 .. 15 /\ (x \div 16) * 16 + (x % 16) = x
  BY DEF Byte
<1>7. \A j \in 1 .. 2 * n : digit(j) \in 0 .. 15
  BY <1>2, <1>5, <1>6
<1>8. digits \in Seq(0 .. 15) /\ Len(digits) = 2 * n
  <2> HIDE DEF digit
  <2> QED BY <1>1, <1>7
<1>9. ASSUME NEW i \in 0 .. n - 1 PROVE digits[2 * i + 1] * 16 + digits[2 * i + 2] = M(i)
  <2>1. /\ 2 * i + 1 \in 1 .. 2 * n /\ 2 * i + 2 \in 1 .. 2 * n
        /\ (2 * i + 1) % 2 = 1 /\ (2 * i + 2) % 2 = 0
        /\ ((2 * i + 1) - 1) \div 2 = i /\ ((2 * i + 2) - 1) \div 2 = i
    BY <1>1
  <2>2. digits[2 * i + 1] = digit(2 * i + 1) /\ digits[2 * i + 2] = digit(2 * i + 2)
    BY <2>1
  <2>3. digit(2 * i + 1) = M(i) \div 16 /\ digit(2 * i + 2) = M(i) % 16
    BY <2>1
  <2> QED BY <1>2, <1>6, <2>2, <2>3
<1> HIDE DEF digits
<1> QED BY <1>3, <1>4, <1>8, <1>9 DEF n, M

LEMMA AllHex ==
  ASSUME NEW digits \in Seq(0 .. 15)
  PROVE  \A j \in 1 .. Len(digits) : digits[j] # NotHex
<1> SUFFICES ASSUME NEW j \in 1 .. Len(digits) PROVE digits[j] # NotHex
  OBVIOUS
<1>1. digits[j] \in 0 .. 15
  OBVIOUS
<1> QED BY <1>1 DEF NotHex

\* What the tool wrote is revealed when it fits.
LEMMA RevealObfuscated ==
  ASSUME NEW text \in Seq(Byte), text # << >>, NEW size \in Nat
  PROVE  Reveal(Obfuscated(text), size) =
             IF Len(text) < size THEN [ok |-> TRUE, out |-> text] ELSE Failed
<1> DEFINE v == Obfuscated(text)
           B(i) == v.text[2 * i + 1] * 16 + v.text[2 * i + 2]
           out == [i \in 1 .. Len(text) |-> Mixed(B(i - 1), i - 1)]
<1>1. /\ v.prefix = TRUE /\ v.text \in Seq(0 .. 15) /\ Len(v.text) = 2 * Len(text)
      /\ \A i \in 0 .. Len(text) - 1 : B(i) = ToolMixed(text[i + 1], i)
  BY Digits DEF Hex
<1>2. Len(text) \in Nat \ {0} /\ (2 * Len(text)) \div 2 = Len(text) /\ (2 * Len(text)) % 2 = 0
  OBVIOUS
<1>3. \A j \in 1 .. Len(v.text) : v.text[j] # NotHex
  <2> HIDE DEF v
  <2> QED BY <1>1, AllHex
<1>4. ASSUME NEW i \in 1 .. Len(text) PROVE Mixed(B(i - 1), i - 1) = text[i]
  <2>1. i - 1 \in 0 .. Len(text) - 1 /\ i - 1 \in Nat /\ (i - 1) + 1 = i /\ text[i] \in Byte
    BY <1>2
  <2>2. B(i - 1) = ToolMixed(text[i], i - 1)
    BY <1>1, <2>1
  <2> QED BY <2>1, <2>2, Unmixed
<1>5. out = text
  <2> HIDE DEF B
  <2> QED BY <1>2, <1>4
<1> HIDE DEF v
<1>6. CASE Len(text) < size
  <2>1. size # 0 /\ v.prefix /\ Fits(Len(v.text) \div 2, size) /\ Len(v.text) % 2 = 0
    BY <1>1, <1>2, <1>6 DEF Fits
  <2>2. Reveal(v, size) = [ok |-> TRUE, out |-> out]
    <3>1. ~(\E j \in 1 .. Len(v.text) : v.text[j] = NotHex)
      BY <1>3
    <3>2. Len(v.text) \div 2 = Len(text)
      BY <1>1, <1>2
    <3>3. Reveal(v, size) = [ok |-> TRUE, out |-> [i \in 1 .. Len(v.text) \div 2 |-> Mixed(B(i - 1), i - 1)]]
      BY <2>1, <3>1 DEF Reveal
    <3> QED BY <3>2, <3>3
  <2> QED BY <1>5, <1>6, <2>2 DEF v
<1>7. CASE ~(Len(text) < size)
  <2>1. size = 0 \/ ~Fits(Len(v.text) \div 2, size)
    BY <1>1, <1>2, <1>7 DEF Fits
  <2>2. Reveal(v, size) = Failed
    BY <1>1, <2>1 DEF Reveal
  <2> QED BY <1>7, <2>2 DEF v
<1> QED BY <1>6, <1>7

\* A damaged value is not one that the tool wrote, and is refused.
LEMMA DamagedRefused ==
  ASSUME NEW text \in Seq(Byte), NEW v \in Damaged(text), NEW size \in Nat
  PROVE  v \notin {Plain(text), Obfuscated(text)} /\ Reveal(v, size) = Failed
<1> DEFINE digits == Obfuscated(text).text
           n == Len(digits)
<1>1. text # << >>
  BY DEF Damaged
<1>2. Obfuscated(text) = Hex(digits) /\ digits \in Seq(0 .. 15) /\ n = 2 * Len(text)
      /\ Len(text) \in Nat \ {0}
  BY <1>1, Digits
<1>3. v \in {Hex(Tail(digits)), Hex([digits EXCEPT ![1] = NotHex]),
             Hex([digits EXCEPT ![n] = NotHex])}
  BY <1>1 DEF Damaged
<1> HIDE DEF digits
<1>4. n \in Nat /\ n >= 2 /\ n % 2 = 0 /\ 1 \in 1 .. n /\ n \in 1 .. n
  BY <1>2
<1>5. PICK w : v = Hex(w)
  BY <1>3
<1>6. v.prefix = TRUE /\ v.text = w /\ v # Plain(text)
  BY <1>5 DEF Hex, Plain
<1>7. CASE w = Tail(digits)
  <2>1. Len(w) = n - 1
    <3>1. digits # << >>
      BY <1>2
    <3> QED BY <1>2, <1>7, <3>1, HeadTailProperties
  <2>2. Len(w) % 2 # 0 /\ w # digits
    <3> HIDE DEF n
    <3>1. PICK m \in Nat : n = 2 * m
      BY <1>2
    <3>2. (2 * m - 1) % 2 # 0 /\ n - 1 # n
      BY <1>4
    <3> QED BY <2>1, <3>1, <3>2 DEF n
  <2>3. Reveal(v, size) = Failed
    BY <1>6, <2>2 DEF Reveal
  <2> QED BY <1>2, <1>5, <1>6, <2>2, <2>3 DEF Hex
<1>8. ASSUME NEW k \in 1 .. n, w = [digits EXCEPT ![k] = NotHex]
      PROVE  v \notin {Plain(text), Obfuscated(text)} /\ Reveal(v, size) = Failed
  <2>1. Len(w) = n /\ w[k] = NotHex /\ digits[k] # NotHex
    <3>1. digits \in Seq(0 .. 16) /\ NotHex \in 0 .. 16 /\ k \in 1 .. Len(digits)
      BY <1>2, <1>8 DEF NotHex
    <3>2. Len(w) = n /\ w[k] = NotHex
      BY <1>8, <3>1, ExceptSeq
    <3> QED BY <1>2, <3>1, <3>2, AllHex
  <2>2. Reveal(v, size) = Failed
    <3>1. \E j \in 1 .. Len(v.text) : v.text[j] = NotHex
      BY <1>6, <2>1, k \in 1 .. n
    <3> QED BY <1>6, <3>1 DEF Reveal
  <2>3. w # digits
    BY <2>1
  <2> QED BY <1>2, <1>5, <1>6, <2>2, <2>3 DEF Hex
<1>9. w \in {Tail(digits), [digits EXCEPT ![1] = NotHex], [digits EXCEPT ![n] = NotHex]}
  BY <1>3, <1>5 DEF Hex
<1> QED BY <1>4, <1>7, <1>8, <1>9

LEMMA RevealPlain ==
  ASSUME NEW text \in Seq(Byte), NEW size \in Nat
  PROVE  Reveal(Plain(text), size) =
             IF Len(text) < size THEN [ok |-> TRUE, out |-> text] ELSE Failed
<1>1. Plain(text).prefix = FALSE /\ Plain(text).text = text
  BY DEF Plain
<1>2. Len(text) \in Nat /\ (size = 0 => ~(Len(text) < size))
  OBVIOUS
<1> QED BY <1>1, <1>2 DEF Reveal, Fits

\* "Writes the clear value into out.  False when out is too small or the hex is
\* malformed (out is then an empty string)" (hi_secret.h:14-15): for every key,
\* text and size of the buffer, what the tool wrote is what is read, and of a
\* damaged value nothing is.
THEOREM SecretsReturn == SecretSpec => []Reveals
<1>1. call = NoCall => Reveals
  BY DEF NoCall, Reveals, Plain
<1>2. Reveals /\ [SecretNext]_call => Reveals'
  <2> SUFFICES ASSUME Reveals, [SecretNext]_call PROVE Reveals'
    OBVIOUS
  <2>1. ASSUME NEW text \in Texts, NEW size \in Sizes,
               NEW stored \in {Plain(text), Obfuscated(text)} \cup Damaged(text),
               Calls(text, stored, size)
        PROVE  Reveals'
    <3>1. text \in Seq(Byte) /\ size \in Nat
      BY SecretAssumption
    <3>2. /\ call'.text = text /\ call'.value = stored /\ call'.size = size
          /\ call'.ok = Reveal(stored, size).ok /\ call'.out = Reveal(stored, size).out
      BY <2>1 DEF Calls
    <3>3. ASSUME stored \in {Plain(text), Obfuscated(text)} PROVE Reveals'
      <4>1. Reveal(stored, size) = IF Len(text) < size THEN [ok |-> TRUE, out |-> text] ELSE Failed
        BY <3>1, <3>3, RevealPlain, RevealObfuscated DEF Obfuscated
      <4> QED BY <3>2, <3>3, <4>1 DEF Reveals, Failed
    <3>4. ASSUME stored \in Damaged(text) PROVE Reveals'
      <4>1. stored \notin {Plain(text), Obfuscated(text)} /\ Reveal(stored, size) = Failed
        BY <3>1, <3>4, DamagedRefused
      <4> QED BY <3>2, <4>1 DEF Reveals, Failed
    <3> QED BY <3>3, <3>4
  <2>2. CASE UNCHANGED call
    BY <2>2 DEF Reveals
  <2> QED BY <2>1, <2>2 DEF SecretNext
<1> QED BY <1>1, <1>2, PTL DEF SecretSpec
=============================================================================
