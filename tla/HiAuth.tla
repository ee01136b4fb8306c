------------------------------- MODULE HiAuth -------------------------------
(***************************************************************************)
(* Web sessions and the login back-off (src/hi_auth.c), with the clock     *)
(* they are stamped by (src/hi_ntp.c).                                     *)
(*                                                                         *)
(* The table of sessions lives in RAM and, rewritten whole after every     *)
(* change, in NVS; a write that fails is reported to nobody.  The back-off *)
(* lives in RAM alone.  The server has one task, so the calls of a request *)
(* are not interleaved with those of another one: this module gives the    *)
(* operations, HiHttpd the requests that make them.                        *)
(*                                                                         *)
(* A token is its number, in the order of the logins; the SHA-256 the      *)
(* table holds is that number again, and an all-zero entry has number 0.   *)
(***************************************************************************)
EXTENDS Integers, Sequences, FiniteSets

CONSTANTS
    MaxSessions,   \* CONFIG_HOME_IDF_AUTH_MAX_SESSIONS
    TTL,           \* session_ttl_s
    LockoutMax,    \* lockout_max_s
    MaxShift,      \* the cap of the shift, 16
    MaxLogins,     \* bound: logins that succeed
    MaxTime,       \* bound: seconds
    MaxBoots,      \* bound: starts of the device
    MaxFaults      \* bound: accesses to NVS that fail

ASSUME AuthAssumption ==
    /\ MaxSessions \in Nat \ {0} /\ TTL \in Nat \ {0} /\ LockoutMax \in Nat \ {0}
    /\ MaxShift \in Nat /\ MaxLogins \in Nat /\ MaxTime \in Nat \ {0}
    /\ MaxBoots \in Nat \ {0} /\ MaxFaults \in Nat

VARIABLES
    on,               \* hi_auth_init() returned
    time,             \* seconds: esp_timer, and the wall clock once it is set
    synced,           \* the wall clock is set
    s_sessions,       \* RAM: the table
    s_hmac_key,       \* RAM: the key of the CSRF tokens, a number; 0: none
    s_failures,       \* RAM: consecutive bad passwords
    s_locked_until,   \* RAM
    nvs,              \* flash: keys sessions_v1 and hmac_key
    logins, boots, faults,   \* used parts of the bounds
    failed,           \* history: the last write of the table failed
    ended,            \* history: sessions that ended
    first,            \* history: the first stamp of each session kept, 0: none;
                      \* made again only where a reset undid it (Undone)
    since,            \* history: when the run of bad passwords began
    rekeyed           \* history: a start without NVS made up a key

ram     == <<s_sessions, s_hmac_key, s_failures, s_locked_until>>
clock   == <<time, synced>>
history == <<failed, ended, first, since, rekeyed>>
authVars == <<on, clock, ram, nvs, logins, boots, faults, history>>

Slot    == 0 .. MaxSessions - 1
Token   == 1 .. MaxLogins
Free    == [hash |-> 0, created |-> 0]
Session == [hash : 0 .. MaxLogins, created : 0 .. MaxTime]
NoSessions == [i \in Slot |-> Free]

Sat(x, y) == IF x < y THEN x ELSE y

\* "hi_ntp_synced() ? time(NULL) : 0"
Now == IF synced THEN time ELSE 0

Holds(sessions, t) == \E i \in Slot : sessions[i].hash = t
CreatedOf(sessions, t) ==
    (CHOOSE s \in Session : s.hash = t /\ \E i \in Slot : s = sessions[i]).created

Init ==
    /\ on = FALSE /\ time = 1 /\ synced = FALSE
    /\ s_sessions = NoSessions /\ s_hmac_key = 0
    /\ s_failures = 0 /\ s_locked_until = 0
    /\ nvs = [sessions |-> NoSessions, key |-> 0]
    /\ logins = 0 /\ boots = 0 /\ faults = 0
    /\ failed = FALSE /\ ended = {} /\ first = [t \in Token |-> 0]
    /\ since = 0 /\ rekeyed = FALSE

-----------------------------------------------------------------------------
\* Seconds pass; SNTP sets the clock once per power cycle (external).
Tick ==
    /\ time < MaxTime /\ time' = time + 1
    /\ UNCHANGED <<on, synced, ram, nvs, logins, boots, faults, history>>

Sync ==
    /\ on /\ ~synced /\ synced' = TRUE
    /\ UNCHANGED <<on, time, ram, nvs, logins, boots, faults, history>>

\* A reset (external).  RAM is lost; the clock too when the power was.
Reset(power) ==
    /\ on /\ on' = FALSE /\ boots < MaxBoots
    /\ synced' = (synced /\ ~power)
    /\ s_sessions' = NoSessions /\ s_hmac_key' = 0
    /\ s_failures' = 0 /\ s_locked_until' = 0 /\ since' = 0
    /\ UNCHANGED <<time, nvs, logins, boots, faults, failed, ended, first, rekeyed>>

\* What was not written before the reset is undone by it: a session comes back
\* as NVS has it, without the stamp whose write failed, and the code will stamp
\* it anew.
Undone ==
    LET back == {t \in Token : failed /\ Holds(nvs.sessions, t)}
    IN /\ ended' = ended \ back
       /\ first' = [t \in Token |-> IF t \in back THEN CreatedOf(nvs.sessions, t)
                                             ELSE first[t]]
       /\ failed' = FALSE

\* The key hi_auth_init() goes on with when NVS opened.
KeyAlwaysNew(key) == boots'
KeyOf(key) == IF key = 0 THEN boots' ELSE key

\* hi_auth_init().  Without NVS it returns early, with a key made up and no
\* sessions; a new key whose write fails is used all the same.
Boot(opens, writes) ==
    /\ ~on /\ on' = TRUE /\ boots < MaxBoots /\ boots' = boots + 1
    /\ writes \/ (opens /\ nvs.key = 0)
    /\ faults' = faults + (IF opens /\ writes THEN 0 ELSE 1) /\ faults' <= MaxFaults
    /\ s_hmac_key' = IF opens THEN KeyOf(nvs.key) ELSE boots'
    /\ s_sessions' = IF opens THEN nvs.sessions ELSE NoSessions
    /\ nvs' = IF opens /\ writes THEN [nvs EXCEPT !.key = s_hmac_key'] ELSE nvs
    /\ rekeyed' = (rekeyed \/ ~opens \/ ~writes)
    /\ Undone
    /\ UNCHANGED <<clock, s_failures, s_locked_until, logins, since>>

-----------------------------------------------------------------------------
\* persist_sessions_locked() for each table of "tables" in turn, of which the
\* writes in "bad" fail: NVS is left with the last one written.
Persist(tables, bad) ==
    LET Written == DOMAIN tables \ bad
        Last == CHOOSE n \in Written : \A m \in Written : m <= n
    IN /\ bad \subseteq DOMAIN tables
       /\ faults' = faults + Cardinality(bad) /\ faults' <= MaxFaults
       /\ nvs' = IF Written = {} THEN nvs ELSE [nvs EXCEPT !.sessions = tables[Last]]
       /\ failed' = IF tables = << >> THEN failed ELSE Len(tables) \in bad

\* What an operation did to the sessions: those that left the table ended, and
\* those it was asked to end; the others keep their first stamp.
Noted(out) ==
    /\ ended' = ended \cup out
                \cup {t \in Token : Holds(s_sessions, t) /\ ~Holds(s_sessions', t)}
    /\ first' = [t \in Token |->
                    IF Holds(s_sessions', t)
                    THEN IF first[t] # 0 THEN first[t] ELSE CreatedOf(s_sessions', t)
                    ELSE IF Holds(nvs'.sessions, t) THEN first[t] ELSE 0]

\* An entry found by hi_auth_session_from_request(): stamped by the first
\* request after the clock was set, cleared when it is too old.
StampAlways(s) == IF Now # 0 THEN [s EXCEPT !.created = Now] ELSE s
StampDeadline(s) == IF Now # 0 /\ s.created = 0 THEN [s EXCEPT !.created = Now + TTL] ELSE s
Stamp(s) == IF Now # 0 /\ s.created = 0 THEN [s EXCEPT !.created = Now] ELSE s
Expired(s) == Now # 0 /\ Now - s.created > TTL
Looked(s) == IF Expired(Stamp(s)) THEN Free ELSE Stamp(s)

LookedUp(t) == [i \in Slot |-> IF t # 0 /\ s_sessions[i].hash = t
                               THEN Looked(s_sessions[i]) ELSE s_sessions[i]]
Valid(t) == t # 0 /\ Holds(LookedUp(t), t)

\* The table that a lookup writes, when it changed it.
DirtyNever(t) == << >>
Dirty(t) == IF LookedUp(t) = s_sessions THEN << >> ELSE <<LookedUp(t)>>

\* hi_auth_session_from_request()
SessionFromRequest(t, bad) ==
    /\ s_sessions' = LookedUp(t)
    /\ Persist(Dirty(t), bad) /\ Noted({})
    /\ UNCHANGED <<on, clock, s_hmac_key, s_failures, s_locked_until, logins, boots,
                   since, rekeyed>>

\* The table without session t.
Without(sessions, t) ==
    [i \in Slot |-> IF sessions[i].hash = t THEN Free ELSE sessions[i]]

\* The lookup of a request whose session it validates, then hi_auth_logout().
Logout(t, bad) ==
    /\ Valid(t)
    /\ s_sessions' = Without(LookedUp(t), t)
    /\ Persist(Dirty(t) \o <<s_sessions'>>, bad) /\ Noted({t})
    /\ UNCHANGED <<on, clock, s_hmac_key, s_failures, s_locked_until, logins, boots,
                   since, rekeyed>>

-----------------------------------------------------------------------------
\* "evict the oldest (unknown creation time counts as oldest)", the lowest of
\* them; but a free entry first.
Preferred(i, j) ==
    \/ s_sessions[i].created < s_sessions[j].created
    \/ s_sessions[i].created = s_sessions[j].created /\ i <= j
SlotForLogin ==
    LET Unused == {i \in Slot : s_sessions[i].hash = 0}
    IN IF Unused # {} THEN CHOOSE i \in Unused : \A j \in Unused : i <= j
       ELSE CHOOSE i \in Slot : \A j \in Slot : Preferred(i, j)

Locked == time < s_locked_until

\* hi_auth_login() with the password, whose new session is number logins'.
Login(bad) ==
    /\ ~Locked /\ logins < MaxLogins /\ logins' = logins + 1
    /\ s_sessions' = [s_sessions EXCEPT ![SlotForLogin] =
                                            [hash |-> logins', created |-> Now]]
    /\ s_failures' = 0 /\ s_locked_until' = 0 /\ since' = 0
    /\ Persist(<<s_sessions'>>, bad) /\ Noted({})
    /\ UNCHANGED <<on, clock, s_hmac_key, boots, rekeyed>>

\* "1u << shift"
Pow2[shift \in Nat] == IF shift = 0 THEN 1 ELSE 2 * Pow2[shift - 1]

\* delay_s: 1, 2, 4 ... up to the maximum.
DelayConstant(failures) == 1
Delay(failures) == Sat(Pow2[Sat(failures - 1, MaxShift)], LockoutMax)

\* hi_auth_login() with another one.  The fifth in a row is also handed to
\* hi_notify_error() (HiNotify).
LoginFails ==
    /\ ~Locked
    /\ s_failures' = s_failures + 1
    /\ s_locked_until' = time + Delay(s_failures')
    /\ since' = IF s_failures = 0 THEN time ELSE since
    /\ UNCHANGED <<on, clock, s_sessions, s_hmac_key, nvs, logins, boots, faults,
                   failed, ended, first, rekeyed>>

\* The CSRF token of a session: HMAC-SHA256 of its hash under the key.
CsrfOf(t) == <<s_hmac_key, t>>

=============================================================================
