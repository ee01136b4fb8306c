------------------------------ MODULE HiHttpd ------------------------------
(***************************************************************************)
(* The pages of the device and the requests they make: the handlers and    *)
(* the guard of src/hi_httpd.c on the sessions of HiAuth, and the browsers *)
(* that run web/login.html and an app page with web/app_shell.js.          *)
(*                                                                         *)
(* A browser has one page, and the cookie "sid".  Between a request and    *)
(* its answer nothing else happens on the server, which has one task; the  *)
(* answer may be lost after the request was served, and the device may be  *)
(* reset between any two of them.  Requests that the guard refuses for     *)
(* their Host, Origin or Content-Type change nothing and are left out: a   *)
(* page of the device never makes one.                                     *)
(***************************************************************************)
EXTENDS HiAuth

CONSTANTS Browser

VARIABLES
    page,     \* what the browser shows: "none" while it loads
    cookie,   \* sid; 0: none
    csrf      \* the "csrf" of app_shell.js

browsers == <<page, cookie, csrf>>
vars == <<authVars, browsers>>

NoCsrf == <<0, 0>>

HttpdInit ==
    /\ Init
    /\ page = [b \in Browser |-> "none"]
    /\ cookie = [b \in Browser |-> 0]
    /\ csrf = [b \in Browser |-> NoCsrf]

-----------------------------------------------------------------------------
\* The browser gets a new page, on which no script has run yet.
Shows(b, p) ==
    /\ page' = [page EXCEPT ![b] = p]
    /\ csrf' = [csrf EXCEPT ![b] = NoCsrf]

\* index_handler(): the login page without a session.
Index(b, bad) ==
    /\ on /\ page[b] = "none"
    /\ SessionFromRequest(cookie[b], bad)
    /\ Shows(b, IF Valid(cookie[b]) THEN "app" ELSE "login")
    /\ UNCHANGED cookie

\* The user reloads the page, or leaves it.
Leaves(b) ==
    /\ page[b] # "none" /\ Shows(b, "none")
    /\ UNCHANGED <<authVars, cookie>>

\* The cookie reached its Max-Age, or the user cleared it.
CookieGone(b) ==
    /\ cookie[b] # 0 /\ cookie' = [cookie EXCEPT ![b] = 0]
    /\ UNCHANGED <<authVars, page, csrf>>

\* session(): the page takes the token, or is loaded again.
TakesToken(b) ==
    IF Valid(cookie[b])
    THEN csrf' = [csrf EXCEPT ![b] = CsrfOf(cookie[b])] /\ UNCHANGED page
    ELSE Shows(b, "none")

\* session_handler()
GetSession(b, bad, lost) ==
    /\ on /\ page[b] = "app"
    /\ SessionFromRequest(cookie[b], bad)
    /\ IF lost THEN UNCHANGED <<page, csrf>> ELSE TakesToken(b)
    /\ UNCHANGED cookie

\* hi_httpd_guard() answers 401, and api() then reloads the page; it answers
\* 403 to a wrong token, and the page stays.
Answered401Stays(b) == UNCHANGED <<page, csrf>>
Answered401(b) == Shows(b, "none")
Refused(b, lost) ==
    IF ~lost /\ ~Valid(cookie[b]) THEN Answered401(b) ELSE UNCHANGED <<page, csrf>>

\* A GET of the application, guarded by HI_GUARD_SESSION.
Get(b, bad, lost) ==
    /\ on /\ page[b] = "app"
    /\ SessionFromRequest(cookie[b], bad) /\ Refused(b, lost)
    /\ UNCHANGED cookie

\* "hi_auth_csrf_valid(req, s)"
Proves(b) == Valid(cookie[b]) /\ csrf[b] = CsrfOf(cookie[b])

\* A POST that HI_GUARD_MUTATION refuses.
PostRefused(b, bad, lost) ==
    /\ on /\ page[b] = "app" /\ ~Proves(b)
    /\ SessionFromRequest(cookie[b], bad) /\ Refused(b, lost)
    /\ UNCHANGED cookie

\* logout_handler(): the answer also clears the cookie.
PostLogout(b, bad, lost) ==
    /\ on /\ page[b] = "app" /\ Proves(b)
    /\ Logout(cookie[b], bad)
    /\ cookie' = IF lost THEN cookie ELSE [cookie EXCEPT ![b] = 0]
    /\ UNCHANGED <<page, csrf>>

\* reboot_handler() and ota_handler(): the restart 500 ms later is one of the
\* resets below; the download is HiOta's.
PostStart(b, bad) ==
    /\ on /\ page[b] = "app" /\ Proves(b)
    /\ SessionFromRequest(cookie[b], bad)
    /\ UNCHANGED browsers

-----------------------------------------------------------------------------
\* The page takes the cookie of the answer and goes to "/".
SignedIn(b) == cookie' = [cookie EXCEPT ![b] = logins'] /\ Shows(b, "none")

\* login_handler() with the password.
PostLogin(b, bad, lost) ==
    /\ on /\ page[b] = "login"
    /\ Login(bad)
    /\ IF lost THEN UNCHANGED browsers ELSE SignedIn(b)

\* login_handler() with a wrong password, or (429) while locked out, which
\* changes nothing.
PostWrongPassword(b) ==
    /\ on /\ page[b] = "login" /\ LoginFails
    /\ UNCHANGED browsers

\* The requests of the clients whose pages are not followed: they sign in and
\* out, and try passwords, as the browsers do.
Strangers(bad) ==
    /\ on
    /\ \/ Login(bad)
       \/ bad = {} /\ LoginFails
       \/ \E t \in Token : (\A b \in Browser : cookie[b] # t) /\ Logout(t, bad)
    /\ UNCHANGED browsers

Writes == SUBSET {1, 2}

BrowserNext(b) ==
    \/ Leaves(b) \/ CookieGone(b) \/ PostWrongPassword(b)
    \/ \E bad \in Writes, lost \in BOOLEAN :
           \/ GetSession(b, bad, lost) \/ Get(b, bad, lost)
           \/ PostRefused(b, bad, lost) \/ PostLogout(b, bad, lost)
           \/ PostLogin(b, bad, lost)
    \/ \E bad \in Writes : Index(b, bad) \/ PostStart(b, bad)

DeviceNext ==
    /\ \/ Tick \/ Sync
       \/ \E power \in BOOLEAN : Reset(power)
       \/ \E opens, writes \in BOOLEAN : Boot(opens, writes)
    /\ UNCHANGED browsers

Next ==
    \/ DeviceNext
    \/ \E bad \in Writes : Strangers(bad)
    \/ \E b \in Browser : BrowserNext(b)

Spec == HttpdInit /\ [][Next]_vars

\* The device starts again after a reset, and an open page goes on asking: it
\* refreshes what it shows, and its requests are answered in the end.
Starts == (\E opens, writes \in BOOLEAN : Boot(opens, writes))
            /\ UNCHANGED browsers
Refreshes(b) == \E bad \in Writes : Get(b, bad, FALSE)
FairSpec ==
    /\ Spec /\ WF_vars(Starts)
    /\ \A b \in Browser : WF_vars(Refreshes(b))

-----------------------------------------------------------------------------
\* Every variable stays in its type.
TypeOK ==
    /\ on \in BOOLEAN /\ time \in 1 .. MaxTime /\ synced \in BOOLEAN
    /\ s_sessions \in [Slot -> Session] /\ s_hmac_key \in 0 .. MaxBoots
    /\ s_failures \in 0 .. MaxTime /\ s_locked_until \in 0 .. MaxTime + LockoutMax
    /\ nvs \in [sessions : [Slot -> Session], key : 0 .. MaxBoots]
    /\ logins \in 0 .. MaxLogins /\ boots \in 0 .. MaxBoots /\ faults \in 0 .. MaxFaults
    /\ failed \in BOOLEAN /\ ended \subseteq Token
    /\ first \in [Token -> 0 .. MaxTime] /\ since \in 0 .. MaxTime /\ rekeyed \in BOOLEAN
    /\ page \in [Browser -> {"none", "login", "app"}]
    /\ cookie \in [Browser -> 0 .. MaxLogins]
    /\ csrf \in [Browser -> (0 .. MaxBoots) \X (0 .. MaxLogins)]

\* A session that ended (by its logout, its age, or a login that took its
\* entry) is not accepted again, whatever resets come: only an end whose write
\* failed is undone, by a reset before the next write (hi_auth.c:91-101,
\* 247-260, 287-298).
EndedStaysEnded == \A t \in ended : ~Holds(s_sessions, t)

\* No session is accepted later than session_ttl_s after its first stamp, over
\* resets and changes of the clock; a device whose clock is not set knows no
\* time and accepts it (hi_auth.c:242-264).  A stamp whose write failed is lost
\* by a reset before the next write (Undone): the next request stamps the
\* session anew, its age counts from there, and it may outlive that first stamp
\* by more than session_ttl_s.
TtlKept ==
    \A t \in Token : on /\ synced /\ first[t] # 0 /\ Valid(t) => time - first[t] <= TTL

\* The delays between bad passwords in a row, and the least time k of them take.
BackOff[k \in Nat] == IF k = 0 THEN 1 ELSE Sat(2 * BackOff[k - 1], LockoutMax)
Waited[k \in Nat] == IF k = 0 THEN 0 ELSE Waited[k - 1] + BackOff[k - 1]

\* "failed logins back off 1, 2, 4 ... s up to this" (hi_auth.h:35): bad
\* passwords in a row take at least the sum of the delays between them, with
\* whatever requests, from whatever browsers, in between.
BackOffKept == s_failures # 0 => time >= since + Waited[s_failures - 1]

\* The token an open page works with is that of the session its cookie names,
\* over logins, logouts and resets: a page whose session is valid is never
\* answered 403 (hi_httpd.c:122-132), unless a start without NVS lost the key.
TokenMatches ==
    \A b \in Browser :
        on /\ page[b] = "app" /\ csrf[b] # NoCsrf /\ Valid(cookie[b]) /\ ~rekeyed
            => Proves(b)

\* "401 reloads (the device then serves the sign-in page)" (app_shell.js:8): a
\* page whose session is gone does not stay open.
SignedOutLeaves ==
    \A b \in Browser :
        page[b] = "app" /\ ~Valid(cookie[b])
            ~> page[b] # "app" \/ Valid(cookie[b])
=============================================================================
