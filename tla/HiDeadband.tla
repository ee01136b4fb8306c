----------------------------- MODULE HiDeadband -----------------------------
(***************************************************************************)
(* When a reading is worth sending (src/hi_deadband.c), with a sensor that *)
(* is read every Period seconds, lost for a while and read again, and the  *)
(* receiver of what is sent.  The seconds are an unsigned counter.         *)
(***************************************************************************)
EXTENDS Integers

CONSTANTS
    Reading,   \* the values of the sensor, integers
    NaN,       \* a value that is not a number, at no distance from any other
    Delta, MaxGap, Period,
    Seconds    \* 2^width of the counter

ASSUME DeadbandAssumption ==
    /\ Reading \subseteq Int /\ NaN \notin Reading
    /\ Delta \in Nat \ {0} /\ MaxGap \in Nat \ {0} /\ Period \in Nat \ {0}
    /\ Seconds \in Nat /\ MaxGap + Period <= Seconds

VARIABLES
    d,          \* hi_deadband_t
    now,        \* the counter at the last reading
    value,      \* the last reading
    received,   \* the last value the receiver got
    quiet       \* history: seconds from the last send to the last reading

deadbandVars == <<d, now, value, received, quiet>>

Value == Reading \cup {NaN}

DeadbandInit ==
    /\ d = [sent |-> 0, sent_s |-> 0, has |-> FALSE]
    /\ now \in 0 .. Seconds - 1
    /\ value = NaN /\ received = NaN /\ quiet = 0

-----------------------------------------------------------------------------
\* "fabsf(a - b) < delta", which a value that is not a number never meets.
Close(a, b) == a # NaN /\ b # NaN /\ a - b < Delta /\ b - a < Delta

\* "now_s - d->sent_s" of two uint32_t.
ElapsedSigned(t) == t - d.sent_s
Elapsed(t) == (t - d.sent_s) % Seconds

Due(v, t) == ~(d.has /\ Close(v, d.sent) /\ Elapsed(t) < MaxGap)

\* What d remembers of a reading that is not sent.
KeptLast(v) == d' = [d EXCEPT !.sent = v]
Kept(v) == d' = d

\* hi_deadband_due() of a reading, Period seconds after the last one, and the
\* send it asks for.
Read(v) ==
    LET t == (now + Period) % Seconds
    IN /\ now' = t /\ value' = v
       /\ IF Due(v, t)
          THEN d' = [sent |-> v, sent_s |-> t, has |-> TRUE] /\ received' = v /\ quiet' = 0
          ELSE Kept(v) /\ quiet' = quiet + Period /\ UNCHANGED received

\* hi_deadband_reset(): the sensor was lost for some time, and is back.
Reset(t) ==
    /\ d.has /\ d' = [d EXCEPT !.has = FALSE]
    /\ now' = t /\ quiet' = 0 /\ UNCHANGED <<value, received>>

DeadbandNext ==
    \/ \E v \in Value : Read(v)
    \/ \E t \in 0 .. Seconds - 1 : Reset(t)

DeadbandSpec == DeadbandInit /\ [][DeadbandNext]_deadbandVars

-----------------------------------------------------------------------------
\* "A change of at least delta from the last value sent" (hi_deadband.h:4-5):
\* what the receiver has is never further from a reading than that, however
\* slowly the value drifts, and whether or not it was a number before.
Tracks == d.has => received = value \/ Close(received, value)

\* "With reads every P s, pass (the wanted bound - P) to keep every window of
\* the wanted length with at least one send" (hi_deadband.h:8-9), and max_gap_s
\* itself when it is a whole number of periods; also when the counter wraps.
Window == IF MaxGap % Period = 0 THEN MaxGap ELSE MaxGap + Period
SentInWindow == d.has => quiet + Period <= Window
=============================================================================
