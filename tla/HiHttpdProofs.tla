--------------------------- MODULE HiHttpdProofs ---------------------------
(***************************************************************************)
(* What HiHttpd promises of its sessions, for any table, any number of     *)
(* browsers, logins and starts, and any faults of NVS.                     *)
(***************************************************************************)
EXTENDS HiHttpd, FiniteSetTheorems, SequenceTheorems, WellFoundedInduction, TLAPS

\* A table holds no session twice, and none that was not made yet.
IsTable(s, n) ==
    /\ s \in [Slot -> Session]
    /\ \A i \in Slot : s[i].hash <= n
    /\ \A i, j \in Slot : s[i].hash = s[j].hash /\ s[i].hash # 0 => i = j

BaseInv ==
    /\ time \in 1 .. MaxTime /\ logins \in 0 .. MaxLogins /\ boots \in 0 .. MaxBoots
    /\ nvs = [sessions |-> nvs.sessions, key |-> nvs.key] /\ nvs.key \in Nat
    /\ IsTable(s_sessions, logins) /\ IsTable(nvs.sessions, logins)
    /\ first \in [Token -> 0 .. MaxTime]
    /\ ended \subseteq 1 .. logins
    /\ \A t \in Token : t > logins => first[t] = 0

\* A table stamps every session it holds with the first stamp of that session.
Dated(s) == \A t \in Token, i \in Slot : s[i].hash = t => s[i].created = first[t]

\* The table in RAM, and the one in NVS when its last write did not fail: they
\* hold no session that ended, and the stamps are the first ones.
SessionInv ==
    /\ \A t \in ended : ~Holds(s_sessions, t)
    /\ ~failed => \A t \in ended : ~Holds(nvs.sessions, t)
    /\ Dated(s_sessions)
    /\ ~failed => Dated(nvs.sessions)

\* The key is the one in NVS, as long as no start had to make one up; a page's
\* token is made with it, for the session of the cookie it has.
TokenInv ==
    ~rekeyed => /\ on => s_hmac_key = nvs.key /\ nvs.key # 0
                /\ \A b \in Browser : csrf[b] # NoCsrf =>
                       /\ csrf[b][1] = nvs.key /\ nvs.key # 0
                       /\ cookie[b] \in {0, csrf[b][2]}

BrowserType ==
    /\ cookie \in [Browser -> 0 .. MaxLogins]
    /\ csrf \in [Browser -> Int \X Int]
    /\ s_hmac_key \in Nat

IInv == BaseInv /\ SessionInv /\ TokenInv /\ BrowserType

-----------------------------------------------------------------------------
LEMMA NoneHeld == IsTable(NoSessions, 0) /\ \A t \in Token : ~Holds(NoSessions, t)
  BY AuthAssumption DEF NoSessions, Free, IsTable, Session, Holds, Token

LEMMA CreatedIs ==
  ASSUME NEW s, NEW n, IsTable(s, n), NEW i \in Slot, s[i].hash # 0
  PROVE  CreatedOf(s, s[i].hash) = s[i].created
<1> DEFINE t == s[i].hash
<1>1. s[i] \in Session
  BY DEF IsTable
<1>2. \A x \in Session : x.hash = t /\ (\E j \in Slot : x = s[j]) => x = s[i]
  BY DEF IsTable
<1> QED BY <1>1, <1>2 DEF CreatedOf

\* The one or two tables an operation writes.
LEMMA OneTable ==
  ASSUME NEW T, NEW a \in T
  PROVE  /\ <<a>> \in Seq(T) /\ Len(<<a>>) = 1 /\ <<a>> # << >> /\ <<a>>[1] = a
         /\ << >> \o <<a>> = <<a>>
  OBVIOUS

LEMMA TwoTables ==
  ASSUME NEW T, NEW a \in T, NEW b \in T
  PROVE  /\ <<a, b>> \in Seq(T) /\ Len(<<a, b>>) = 2 /\ <<a, b>> # << >>
         /\ <<a, b>>[1] = a /\ <<a, b>>[2] = b
  OBVIOUS

LEMMA BothTables == \A a, b : <<a>> \o <<b>> = <<a, b>>
<1> TAKE a, b
<1> DEFINE T == {a, b}
<1>1. /\ <<a, b>> \in Seq(T) /\ Len(<<a, b>>) = 2
      /\ <<a, b>>[1] = a /\ <<a, b>>[2] = b
  OBVIOUS
<1>2. <<a>> \in Seq(T) /\ <<b>> \in Seq(T) /\ Len(<<a>>) = 1 /\ Len(<<b>>) = 1
      /\ <<a>>[1] = a /\ <<b>>[1] = b
  OBVIOUS
<1> HIDE DEF T
<1>3. PICK p : p = <<a>> \o <<b>>
  OBVIOUS
<1>4. p \in Seq(T) /\ Len(p) = 2 /\ p[1] = a /\ p[2] = b
  BY <1>2, <1>3, ConcatProperties
<1>5. p = <<a, b>>
  BY <1>1, <1>4, SeqEqual
<1> QED BY <1>3, <1>5

\* What persist_sessions_locked() leaves in NVS.
LEMMA Persisted ==
  ASSUME NEW T, NEW tables \in Seq(T), Len(tables) <= 2, NEW bad, Persist(tables, bad),
         nvs = [sessions |-> nvs.sessions, key |-> nvs.key]
  PROVE  /\ nvs' = [sessions |-> nvs'.sessions, key |-> nvs.key]
         /\ \/ nvs'.sessions = nvs.sessions
            \/ \E k \in 1 .. Len(tables) : nvs'.sessions = tables[k]
         /\ tables # << >> /\ ~failed' => nvs'.sessions = tables[Len(tables)]
         /\ tables = << >> => nvs' = nvs /\ failed' = failed
<1> DEFINE W == DOMAIN tables \ bad
           Last == CHOOSE n \in W : \A m \in W : m <= n
<1>1. nvs' = IF W = {} THEN nvs ELSE [nvs EXCEPT !.sessions = tables[Last]]
  BY DEF Persist
<1>2. W \subseteq {1, 2} /\ W \subseteq 1 .. Len(tables) /\ Len(tables) \in Nat
  OBVIOUS
<1>3. W # {} => Last \in W /\ \A m \in W : m <= Last
  <2> SUFFICES ASSUME W # {} PROVE \E n \in W : \A m \in W : m <= n
    OBVIOUS
  <2> QED BY <1>2
<1>4. tables # << >> /\ ~failed' => Len(tables) \in W
  <2> SUFFICES ASSUME tables # << >>, ~failed' PROVE Len(tables) \in DOMAIN tables \ bad
    OBVIOUS
  <2>1. Len(tables) \in DOMAIN tables
    OBVIOUS
  <2>2. failed' = (Len(tables) \in bad)
    BY DEF Persist
  <2> QED BY <2>1, <2>2
<1>5. tables # << >> /\ ~failed' => Last = Len(tables)
  BY <1>2, <1>3, <1>4
<1>6. tables = << >> => W = {} /\ failed' = failed
  BY DEF Persist
<1> HIDE DEF W, Last
<1>7. CASE W = {}
  BY <1>1, <1>4, <1>6, <1>7
<1>8. CASE W # {}
  <2>1. nvs' = [sessions |-> tables[Last], key |-> nvs.key]
    BY <1>1, <1>8
  <2> QED BY <1>2, <1>3, <1>5, <1>6, <1>8, <2>1
<1> QED BY <1>7, <1>8

\* Every operation writes the tables it makes, the last of which is the one it
\* leaves in RAM.  Its sessions are those it had, with the stamp they had if
\* any, and perhaps a new one.
LEMMA OperationInv ==
  ASSUME BaseInv, SessionInv,
         NEW tables \in Seq([Slot -> Session]), Len(tables) <= 2, NEW bad, NEW out,
         Persist(tables, bad), Noted(out),
         logins' \in logins .. MaxLogins, UNCHANGED <<time, boots>>,
         IsTable(s_sessions', logins'),
         \A k \in 1 .. Len(tables) : IsTable(tables[k], logins'),
         IF tables = << >> THEN s_sessions' = s_sessions /\ out = {}
         ELSE tables[Len(tables)] = s_sessions',
         \A t \in out : t \in 1 .. logins /\ ~Holds(s_sessions', t),
         \A i \in Slot : s_sessions'[i].hash \in 1 .. logins
             => \E j \in Slot : /\ s_sessions[j].hash = s_sessions'[i].hash
                                /\ s_sessions[j].created # 0
                                       => s_sessions'[i].created = s_sessions[j].created
  PROVE  BaseInv' /\ SessionInv'
<1>1. /\ nvs' = [sessions |-> nvs'.sessions, key |-> nvs.key]
      /\ \/ nvs'.sessions = nvs.sessions
         \/ \E k \in 1 .. Len(tables) : nvs'.sessions = tables[k]
      /\ tables # << >> /\ ~failed' => nvs'.sessions = s_sessions'
      /\ tables = << >> => nvs' = nvs /\ failed' = failed
  BY Persisted DEF BaseInv
<1>2. IsTable(nvs.sessions, logins') /\ logins' \in 0 .. MaxLogins /\ logins \in 0 .. MaxLogins
  <2>1. logins \in Nat /\ logins' \in Nat /\ logins <= logins' /\ logins' <= MaxLogins
        /\ MaxLogins \in Nat
    BY AuthAssumption DEF BaseInv
  <2>2. \A i \in Slot : nvs.sessions[i].hash \in Nat /\ nvs.sessions[i].hash <= logins
    BY AuthAssumption DEF BaseInv, IsTable, Session
  <2>3. \A i \in Slot : nvs.sessions[i].hash <= logins'
    BY <2>1, <2>2
  <2> QED BY <2>1, <2>3 DEF BaseInv, IsTable
<1>3. IsTable(nvs'.sessions, logins')
  BY <1>1, <1>2
<1>4. \A t \in Token : Holds(s_sessions, t) \/ Holds(nvs.sessions, t) => t \in 1 .. logins
  BY DEF BaseInv, IsTable, Holds, Token
<1>5. \A t \in Token : Holds(s_sessions', t) => t \in 1 .. logins'
  BY <1>2 DEF IsTable, Holds, Token
<1>6. \A t \in Token : Holds(nvs'.sessions, t) => t \in 1 .. logins'
  BY <1>2, <1>3 DEF IsTable, Holds, Token
<1>7. \A t \in Token, i \in Slot :
          s_sessions'[i].hash = t => CreatedOf(s_sessions', t) = s_sessions'[i].created
  BY CreatedIs DEF Token
<1>8. \A t \in Token, i \in Slot : s_sessions'[i].hash = t => s_sessions'[i].created = first'[t]
  <2> SUFFICES ASSUME NEW t \in Token, NEW i \in Slot, s_sessions'[i].hash = t
               PROVE  s_sessions'[i].created = first'[t]
    OBVIOUS
  <2>1. first'[t] = IF first[t] # 0 THEN first[t] ELSE s_sessions'[i].created
    BY <1>7 DEF Noted, Holds
  <2>2. CASE t \in 1 .. logins
    <3>1. PICK j \in Slot : /\ s_sessions[j].hash = t
                            /\ s_sessions[j].created # 0
                                   => s_sessions'[i].created = s_sessions[j].created
      BY <2>2
    <3>2. s_sessions[j].created = first[t]
      BY <3>1 DEF SessionInv, Dated
    <3> QED BY <2>1, <3>1, <3>2
  <2>3. CASE t \notin 1 .. logins
    <3>1. first[t] = 0
      BY <1>2, <2>3 DEF BaseInv, Token
    <3> QED BY <2>1, <3>1
  <2> QED BY <2>2, <2>3
<1>9. first' \in [Token -> 0 .. MaxTime] /\ \A t \in Token : t > logins' => first'[t] = 0
  <2> SUFFICES ASSUME NEW t \in Token
               PROVE  first'[t] \in 0 .. MaxTime /\ (t > logins' => first'[t] = 0)
    BY DEF Noted
  <2>1. first[t] \in 0 .. MaxTime /\ 0 \in 0 .. MaxTime
    BY AuthAssumption DEF BaseInv
  <2>2. CASE Holds(s_sessions', t)
    <3>1. PICK i \in Slot : s_sessions'[i].hash = t
      BY <2>2 DEF Holds
    <3>2. first'[t] = s_sessions'[i].created /\ s_sessions'[i].created \in 0 .. MaxTime
      BY <1>8, <3>1 DEF IsTable, Session
    <3> QED BY <1>2, <1>5, <2>2, <3>2
  <2>3. CASE ~Holds(s_sessions', t)
    <3>1. first'[t] = IF Holds(nvs'.sessions, t) THEN first[t] ELSE 0
      BY <2>3 DEF Noted
    <3> QED BY <1>2, <1>6, <2>1, <3>1
  <2> QED BY <2>2, <2>3
<1>10. ended' \subseteq 1 .. logins' /\ \A t \in ended' : ~Holds(s_sessions', t)
  <2> SUFFICES ASSUME NEW t \in ended' PROVE t \in 1 .. logins' /\ ~Holds(s_sessions', t)
    OBVIOUS
  <2>1. CASE t \in ended
    <3>1. t \in 1 .. logins /\ ~Holds(s_sessions, t)
      BY <2>1 DEF BaseInv, SessionInv
    <3>2. ~Holds(s_sessions', t)
      BY <3>1 DEF Holds
    <3> QED BY <1>2, <3>1, <3>2
  <2>2. CASE t \in out
    BY <1>2, <2>2
  <2>3. CASE t \in Token /\ Holds(s_sessions, t) /\ ~Holds(s_sessions', t)
    BY <1>2, <1>4, <2>3
  <2> QED BY <2>1, <2>2, <2>3 DEF Noted
<1>11. BaseInv'
  BY <1>1, <1>3, <1>9, <1>10 DEF BaseInv
<1>12. ASSUME ~failed' PROVE (\A t \in ended' : ~Holds(nvs'.sessions, t)) /\ Dated(nvs.sessions)'
  <2>1. CASE tables # << >>
    BY <1>1, <1>8, <1>10, <1>12, <2>1 DEF Dated
  <2>2. CASE tables = << >>
    <3>1. s_sessions' = s_sessions /\ out = {} /\ nvs' = nvs /\ ~failed
      BY <1>1, <1>12, <2>2
    <3>2. ended' = ended
      BY <3>1 DEF Noted
    <3>3. ASSUME NEW t \in Token, NEW i \in Slot, nvs.sessions[i].hash = t
          PROVE  nvs.sessions[i].created = first'[t]
      <4>1. nvs.sessions[i].created = first[t]
        BY <3>1, <3>3 DEF SessionInv, Dated
      <4>2. CASE Holds(s_sessions, t)
        <5>1. PICK j \in Slot : s_sessions[j].hash = t
          BY <4>2 DEF Holds
        <5>2. s_sessions[j].created = first[t] /\ s_sessions[j].created = first'[t]
          BY <1>8, <3>1, <5>1 DEF SessionInv, Dated
        <5> QED BY <4>1, <5>2
      <4>3. CASE ~Holds(s_sessions, t)
        BY <3>1, <3>3, <4>1, <4>3 DEF Noted, Holds
      <4> QED BY <4>2, <4>3
    <3> QED BY <3>1, <3>2, <3>3 DEF SessionInv, Dated
  <2> QED BY <2>1, <2>2
<1> QED BY <1>8, <1>10, <1>11, <1>12 DEF SessionInv, Dated

-----------------------------------------------------------------------------
\* What a lookup makes of the table.
LEMMA LookedUpTable ==
  ASSUME BaseInv, NEW t
  PROVE  /\ IsTable(LookedUp(t), logins)
         /\ \A i \in Slot : LookedUp(t)[i].hash # 0
                => /\ LookedUp(t)[i].hash = s_sessions[i].hash
                   /\ s_sessions[i].created # 0
                          => LookedUp(t)[i].created = s_sessions[i].created
<1> DEFINE L == LookedUp(t)
<1>1. \A i \in Slot : s_sessions[i] \in Session /\ s_sessions[i].hash <= logins
      /\ logins \in 0 .. MaxLogins /\ time \in 1 .. MaxTime
  BY DEF BaseInv, IsTable
<1>2. ASSUME NEW i \in Slot
      PROVE  /\ L[i] \in Session
             /\ \/ L[i] = Free
                \/ L[i].hash = s_sessions[i].hash
                   /\ (s_sessions[i].created # 0 => L[i].created = s_sessions[i].created)
  <2>1. L[i] \in {s_sessions[i], Stamp(s_sessions[i]), Free}
    BY DEF LookedUp, Looked
  <2>2. Free \in Session
    BY AuthAssumption DEF Free, Session
  <2>3. Stamp(s_sessions[i]) = s_sessions[i]
        \/ /\ s_sessions[i].created = 0
           /\ Stamp(s_sessions[i]) = [s_sessions[i] EXCEPT !.created = time]
    BY DEF Stamp, Now
  <2>4. [s_sessions[i] EXCEPT !.created = time] = [hash |-> s_sessions[i].hash, created |-> time]
    BY <1>1 DEF Session
  <2>5. Stamp(s_sessions[i]) \in Session /\ Stamp(s_sessions[i]).hash = s_sessions[i].hash
        /\ (s_sessions[i].created # 0 => Stamp(s_sessions[i]) = s_sessions[i])
    BY <1>1, <2>3, <2>4 DEF Session
  <2> QED BY <1>1, <2>1, <2>2, <2>5
<1>3. L \in [Slot -> Session]
  BY <1>2 DEF LookedUp
<1>4. Free.hash = 0
  BY DEF Free
<1> HIDE DEF L
<1>5. IsTable(L, logins)
  BY <1>1, <1>2, <1>3, <1>4 DEF BaseInv, IsTable
<1>6. \A i \in Slot : L[i].hash # 0
          => /\ L[i].hash = s_sessions[i].hash
             /\ s_sessions[i].created # 0 => L[i].created = s_sessions[i].created
  BY <1>2, <1>4
<1> QED BY <1>5, <1>6 DEF L

LEMMA LookupInv ==
  ASSUME BaseInv, SessionInv, NEW t, NEW bad, SessionFromRequest(t, bad)
  PROVE  BaseInv' /\ SessionInv'
<1> DEFINE tables == Dirty(t)
<1>1. /\ Persist(tables, bad) /\ Noted({}) /\ s_sessions' = LookedUp(t)
      /\ logins' = logins /\ UNCHANGED <<time, boots>>
  BY DEF SessionFromRequest, clock
<1>2. IsTable(s_sessions', logins')
  BY <1>1, LookedUpTable
<1>3. tables = (IF s_sessions' = s_sessions THEN << >> ELSE <<s_sessions'>>)
  BY <1>1 DEF Dirty
<1>4. /\ tables \in Seq([Slot -> Session]) /\ Len(tables) <= 2
      /\ \A k \in 1 .. Len(tables) : IsTable(tables[k], logins')
      /\ IF tables = << >> THEN s_sessions' = s_sessions /\ {} = {}
         ELSE tables[Len(tables)] = s_sessions'
  <2> HIDE DEF tables
  <2>1. s_sessions' \in [Slot -> Session]
    BY <1>2 DEF IsTable
  <2>2. CASE s_sessions' = s_sessions
    BY <1>3, <2>2
  <2>3. CASE s_sessions' # s_sessions
    <3>1. tables = <<s_sessions'>>
      BY <1>3, <2>3
    <3>2. tables \in Seq([Slot -> Session]) /\ Len(tables) = 1 /\ tables # << >>
          /\ tables[1] = s_sessions'
      BY <2>1, <3>1, OneTable
    <3> QED BY <1>2, <3>2
  <2> QED BY <2>2, <2>3
<1>5. \A i \in Slot : s_sessions'[i].hash \in 1 .. logins
          => \E j \in Slot : /\ s_sessions[j].hash = s_sessions'[i].hash
                             /\ s_sessions[j].created # 0
                                    => s_sessions'[i].created = s_sessions[j].created
  BY <1>1, LookedUpTable
<1>6. logins' \in logins .. MaxLogins
  BY <1>1 DEF BaseInv
<1>7. \A x \in {} : x \in 1 .. logins /\ ~Holds(s_sessions', x)
  OBVIOUS
<1> HIDE DEF tables
<1> QED BY <1>1, <1>2, <1>4, <1>5, <1>6, <1>7, OperationInv

LEMMA LogoutInv ==
  ASSUME BaseInv, SessionInv, NEW t \in 0 .. MaxLogins, NEW bad, Logout(t, bad)
  PROVE  BaseInv' /\ SessionInv'
<1> DEFINE L == LookedUp(t)
           tables == Dirty(t) \o <<s_sessions'>>
<1>1. /\ Persist(tables, bad) /\ Noted({t}) /\ s_sessions' = Without(L, t)
      /\ logins' = logins /\ UNCHANGED <<time, boots>> /\ t # 0 /\ Holds(L, t)
  BY DEF Logout, clock, Valid
<1>2. IsTable(L, logins')
  BY <1>1, LookedUpTable
<1>3. \A i \in Slot : s_sessions'[i] = IF L[i].hash = t THEN Free ELSE L[i]
  BY <1>1 DEF Without
<1>4. IsTable(s_sessions', logins')
  <2>1. Free \in Session /\ Free.hash = 0 /\ logins' \in 0 .. MaxLogins
    BY <1>1, AuthAssumption DEF Free, Session, BaseInv
  <2>2. s_sessions' \in [Slot -> Session]
    BY <1>1, <1>2, <2>1 DEF Without, IsTable
  <2> HIDE DEF L
  <2> QED BY <1>2, <1>3, <2>1, <2>2 DEF IsTable
<1>5. Dirty(t) = << >> \/ Dirty(t) = <<L>>
  BY DEF Dirty
<1>7. L \in [Slot -> Session] /\ s_sessions' \in [Slot -> Session]
  BY <1>2, <1>4 DEF IsTable
<1>6. tables = <<s_sessions'>> \/ tables = <<L, s_sessions'>>
  <2>1. CASE Dirty(t) = << >>
    BY <1>7, <2>1, OneTable
  <2>2. CASE Dirty(t) = <<L>>
    <3> HIDE DEF L
    <3>1. <<L>> \o <<s_sessions'>> = <<L, s_sessions'>>
      BY BothTables, Zenon
    <3> QED BY <2>2, <3>1
  <2> QED BY <1>5, <2>1, <2>2
<1>8. t \in 1 .. logins /\ ~Holds(s_sessions', t)
  <2>1. ~Holds(s_sessions', t)
    BY <1>1, <1>3 DEF Holds, Free
  <2>2. PICK i \in Slot : L[i].hash = t
    BY <1>1 DEF Holds
  <2>3. t <= logins
    BY <1>1, <1>2, <2>2 DEF IsTable
  <2> QED BY <1>1, <2>1, <2>3
<1>9. \A i \in Slot : s_sessions'[i].hash \in 1 .. logins
          => \E j \in Slot : /\ s_sessions[j].hash = s_sessions'[i].hash
                             /\ s_sessions[j].created # 0
                                    => s_sessions'[i].created = s_sessions[j].created
  <2> SUFFICES ASSUME NEW i \in Slot, s_sessions'[i].hash \in 1 .. logins
               PROVE  /\ s_sessions[i].hash = s_sessions'[i].hash
                      /\ s_sessions[i].created # 0
                             => s_sessions'[i].created = s_sessions[i].created
    OBVIOUS
  <2>1. s_sessions'[i] = L[i] /\ L[i].hash # 0
    BY <1>3 DEF Free
  <2> QED BY <2>1, LookedUpTable
<1> HIDE DEF L, tables
<1>10. /\ tables \in Seq([Slot -> Session]) /\ Len(tables) <= 2 /\ tables # << >>
       /\ tables[Len(tables)] = s_sessions'
       /\ \A k \in 1 .. Len(tables) : IsTable(tables[k], logins')
  <2>1. CASE tables = <<s_sessions'>>
    BY <1>4, <1>7, <2>1, OneTable
  <2>2. CASE tables = <<L, s_sessions'>>
    BY <1>2, <1>4, <1>7, <2>2, TwoTables
  <2> QED BY <1>6, <2>1, <2>2
<1>11. logins' \in logins .. MaxLogins
  BY <1>1 DEF BaseInv
<1> QED BY <1>1, <1>4, <1>8, <1>9, <1>10, <1>11, OperationInv

LEMMA LoginInv ==
  ASSUME BaseInv, SessionInv, NEW bad, Login(bad)
  PROVE  BaseInv' /\ SessionInv'
<1> DEFINE tables == <<s_sessions'>>
           new == [hash |-> logins', created |-> Now]
           k == SlotForLogin
<1>1. /\ Persist(tables, bad) /\ Noted({}) /\ logins' = logins + 1 /\ logins < MaxLogins
      /\ s_sessions' = [s_sessions EXCEPT ![k] = new] /\ UNCHANGED <<time, boots>>
  BY DEF Login, clock
<1>2. logins \in 0 .. MaxLogins /\ logins' \in logins .. MaxLogins /\ logins' \in 1 .. MaxLogins
      /\ MaxLogins \in Nat
  BY <1>1, AuthAssumption DEF BaseInv
<1>3. new \in Session
  <2>1. Now \in 0 .. MaxTime
    BY AuthAssumption DEF Now, BaseInv
  <2>2. logins' \in 0 .. MaxLogins
    BY <1>2
  <2> QED BY <2>1, <2>2 DEF Session
<1>4. \A i \in Slot : s_sessions'[i] = IF i = k THEN new ELSE s_sessions[i]
  BY <1>1 DEF BaseInv, IsTable
<1>5. \A i \in Slot : s_sessions[i] \in Session /\ s_sessions[i].hash <= logins
  BY DEF BaseInv, IsTable
<1> HIDE DEF k
<1>6. IsTable(s_sessions', logins')
  <2>1. s_sessions' \in [Slot -> Session]
    BY <1>1, <1>3 DEF BaseInv, IsTable
  <2>2. \A i \in Slot : s_sessions'[i].hash <= logins'
    BY <1>1, <1>2, <1>4, <1>5 DEF Session
  <2>3. \A i \in Slot : s_sessions[i].hash # logins'
    BY <1>1, <1>2, <1>5 DEF Session
  <2>4. new.hash = logins'
    OBVIOUS
  <2> HIDE DEF new
  <2>5. \A i, j \in Slot : s_sessions'[i].hash = s_sessions'[j].hash
                               /\ s_sessions'[i].hash # 0 => i = j
    BY <1>4, <2>3, <2>4 DEF BaseInv, IsTable
  <2> QED BY <2>1, <2>2, <2>5 DEF IsTable
<1>7. \A i \in Slot : s_sessions'[i].hash \in 1 .. logins
          => \E j \in Slot : /\ s_sessions[j].hash = s_sessions'[i].hash
                             /\ s_sessions[j].created # 0
                                    => s_sessions'[i].created = s_sessions[j].created
  BY <1>1, <1>2, <1>4
<1>8. tables \in Seq([Slot -> Session]) /\ Len(tables) = 1 /\ tables # << >>
      /\ tables[1] = s_sessions' /\ \A n \in 1 .. Len(tables) : IsTable(tables[n], logins')
  BY <1>6, OneTable DEF IsTable
<1>9. \A x \in {} : x \in 1 .. logins /\ ~Holds(s_sessions', x)
  OBVIOUS
<1> HIDE DEF tables, new
<1>10. /\ Len(tables) <= 2
       /\ IF tables = << >> THEN s_sessions' = s_sessions /\ {} = {}
          ELSE tables[Len(tables)] = s_sessions'
  BY <1>8
<1> QED BY <1>1, <1>2, <1>6, <1>7, <1>8, <1>9, <1>10, OperationInv

-----------------------------------------------------------------------------
LEMMA ResetInv ==
  ASSUME BaseInv, SessionInv, NEW power \in BOOLEAN, Reset(power)
  PROVE  BaseInv' /\ SessionInv'
<1>1. s_sessions' = NoSessions
      /\ UNCHANGED <<time, nvs, logins, boots, failed, ended, first>>
  BY DEF Reset
<1>2. logins \in 0 .. MaxLogins /\ MaxLogins \in Nat
  BY AuthAssumption DEF BaseInv
<1>3. IsTable(NoSessions, logins)
  BY <1>2, AuthAssumption DEF NoSessions, Free, IsTable, Session
<1>4. \A t \in Token : ~Holds(NoSessions, t)
  BY NoneHeld
<1>5. ended \subseteq Token /\ Dated(s_sessions)'
  BY <1>1, <1>2, <1>4 DEF BaseInv, Token, Dated, Holds
<1>6. BaseInv'
  BY <1>1, <1>3 DEF BaseInv
<1> QED BY <1>1, <1>4, <1>5, <1>6 DEF SessionInv, Dated

LEMMA BootInv ==
  ASSUME BaseInv, SessionInv, NEW opens \in BOOLEAN, NEW writes \in BOOLEAN,
         Boot(opens, writes)
  PROVE  BaseInv' /\ SessionInv'
<1>1. /\ s_sessions' = (IF opens THEN nvs.sessions ELSE NoSessions)
      /\ nvs' = IF opens /\ writes THEN [nvs EXCEPT !.key = s_hmac_key'] ELSE nvs
      /\ boots' = boots + 1 /\ boots < MaxBoots /\ UNCHANGED <<time, logins>>
      /\ Undone
  BY DEF Boot, clock
<1>2. boots' \in 1 .. MaxBoots /\ logins \in 0 .. MaxLogins /\ MaxLogins \in Nat
  BY <1>1, AuthAssumption DEF BaseInv
<1>3. opens => s_hmac_key' \in Nat
  BY <1>2 DEF Boot, KeyOf, BaseInv
<1>4. nvs' = [sessions |-> nvs.sessions, key |-> nvs'.key] /\ nvs'.sessions = nvs.sessions
      /\ nvs'.key \in Nat
  <2>1. [nvs EXCEPT !.key = s_hmac_key'] = [sessions |-> nvs.sessions, key |-> s_hmac_key']
    BY DEF BaseInv
  <2> QED BY <1>1, <1>3, <2>1 DEF BaseInv
<1>5. IsTable(NoSessions, logins) /\ \A t \in Token : ~Holds(NoSessions, t)
  BY <1>2, NoneHeld, AuthAssumption DEF NoSessions, Free, IsTable, Session
<1>6. IsTable(s_sessions', logins)
  BY <1>1, <1>5 DEF BaseInv
<1> DEFINE back == {t \in Token : failed /\ Holds(nvs.sessions, t)}
<1>7. /\ ended' = ended \ back /\ failed' = FALSE
      /\ first' = [t \in Token |-> IF t \in back THEN CreatedOf(nvs.sessions, t) ELSE first[t]]
  BY <1>1 DEF Undone
<1>8. \A t \in Token, i \in Slot : nvs.sessions[i].hash = t
          => CreatedOf(nvs.sessions, t) = nvs.sessions[i].created
  BY CreatedIs DEF BaseInv, Token
<1>9. \A t \in Token, i \in Slot : nvs.sessions[i].hash = t => nvs.sessions[i].created = first'[t]
  <2> SUFFICES ASSUME NEW t \in Token, NEW i \in Slot, nvs.sessions[i].hash = t
               PROVE  nvs.sessions[i].created = first'[t]
    OBVIOUS
  <2>1. Holds(nvs.sessions, t)
    BY DEF Holds
  <2>2. CASE failed
    BY <1>7, <1>8, <2>1, <2>2
  <2>3. CASE ~failed
    BY <1>7, <2>3 DEF SessionInv, Dated
  <2> QED BY <2>2, <2>3
<1>10. ended' \subseteq 1 .. logins /\ ended' \subseteq Token
       /\ \A t \in ended' : ~Holds(nvs.sessions, t)
  BY <1>2, <1>7 DEF BaseInv, SessionInv, Token
<1>11. first' \in [Token -> 0 .. MaxTime] /\ \A t \in Token : t > logins => first'[t] = 0
  <2> SUFFICES ASSUME NEW t \in Token
               PROVE  first'[t] \in 0 .. MaxTime /\ (t > logins => first'[t] = 0)
    BY <1>7
  <2>1. CASE t \in back
    <3>1. PICK i \in Slot : nvs.sessions[i].hash = t
      BY <2>1 DEF Holds
    <3>2. first'[t] = nvs.sessions[i].created /\ t <= logins
          /\ nvs.sessions[i].created \in 0 .. MaxTime
      BY <1>9, <3>1 DEF BaseInv, IsTable, Session
    <3> QED BY <1>2, <3>2 DEF Token
  <2>2. CASE t \notin back
    BY <1>7, <2>2 DEF BaseInv
  <2> QED BY <2>1, <2>2
<1> HIDE DEF back
<1>12. BaseInv'
  BY <1>1, <1>2, <1>4, <1>6, <1>10, <1>11 DEF BaseInv
<1>13. SessionInv'
  <2>1. Dated(nvs.sessions)' /\ \A t \in ended' : ~Holds(nvs'.sessions, t)
    BY <1>4, <1>9, <1>10 DEF Dated
  <2>2. CASE opens
    BY <1>1, <1>4, <2>1, <2>2 DEF SessionInv, Dated
  <2>3. CASE ~opens
    <3>1. s_sessions' = NoSessions
      BY <1>1, <2>3
    <3>2. \A t \in Token, i \in Slot : NoSessions[i].hash # t
      BY <1>5 DEF Holds
    <3>3. Dated(s_sessions)' /\ \A t \in ended' : ~Holds(s_sessions', t)
      BY <1>5, <1>10, <3>1, <3>2 DEF Dated
    <3> QED BY <2>1, <3>3 DEF SessionInv
  <2> QED BY <2>2, <2>3
<1> QED BY <1>12, <1>13

-----------------------------------------------------------------------------
\* The requests leave the keys alone.
LEMMA KeysKept ==
  ASSUME BaseInv, NEW t, NEW bad,
         SessionFromRequest(t, bad) \/ Logout(t, bad) \/ Login(bad) \/ LoginFails
  PROVE  UNCHANGED <<on, s_hmac_key, rekeyed>> /\ nvs'.key = nvs.key
<1>1. UNCHANGED <<on, s_hmac_key, rekeyed>>
  BY DEF SessionFromRequest, Logout, Login, LoginFails
<1>2. CASE LoginFails
  BY <1>1, <1>2 DEF LoginFails
<1>3. ASSUME NEW tables, Persist(tables, bad) PROVE nvs'.key = nvs.key
  <2>1. nvs' = nvs \/ \E x : nvs' = [nvs EXCEPT !.sessions = x]
    BY <1>3 DEF Persist
  <2> QED BY <2>1 DEF BaseInv
<1>4. CASE SessionFromRequest(t, bad)
  BY <1>1, <1>3, <1>4 DEF SessionFromRequest
<1>5. CASE Logout(t, bad)
  BY <1>1, <1>3, <1>5 DEF Logout
<1>6. CASE Login(bad)
  BY <1>1, <1>3, <1>6 DEF Login
<1> QED BY <1>2, <1>4, <1>5, <1>6

LEMMA RequestInv ==
  ASSUME BaseInv, SessionInv, NEW t \in 0 .. MaxLogins, NEW bad,
         SessionFromRequest(t, bad) \/ Logout(t, bad) \/ Login(bad) \/ LoginFails
  PROVE  BaseInv' /\ SessionInv'
<1>1. CASE LoginFails
  BY <1>1 DEF LoginFails, clock, BaseInv, SessionInv, Dated, Holds
<1> QED BY <1>1, LookupInv, LogoutInv, LoginInv

\* What a step may do to a browser's token and cookie: the page goes, or the
\* cookie does, or the page takes the token of its session.
LEMMA BrowserStep ==
  ASSUME TokenInv, BrowserType, NEW b \in Browser,
         UNCHANGED <<on, s_hmac_key, rekeyed>>, nvs'.key = nvs.key,
         NEW c \in 0 .. MaxLogins, NEW x \in Int \X Int,
         cookie' = [cookie EXCEPT ![b] = c], csrf' = [csrf EXCEPT ![b] = x],
         \/ x = NoCsrf
         \/ x = csrf[b] /\ c \in {0, cookie[b]}
         \/ on /\ x = <<s_hmac_key, cookie[b]>> /\ c = cookie[b]
  PROVE  TokenInv' /\ BrowserType'
<1>1. BrowserType'
  BY DEF BrowserType
<1>2. /\ \A a \in Browser \ {b} : cookie'[a] = cookie[a] /\ csrf'[a] = csrf[a]
      /\ cookie'[b] = c /\ csrf'[b] = x
  BY DEF BrowserType
<1>3. TokenInv'
  <2> SUFFICES ASSUME ~rekeyed, NEW a \in Browser, csrf'[a] # NoCsrf
               PROVE  csrf'[a][1] = nvs.key /\ nvs.key # 0 /\ cookie'[a] \in {0, csrf'[a][2]}
    BY DEF TokenInv
  <2>1. CASE a # b
    BY <1>2, <2>1 DEF TokenInv
  <2>2. CASE a = b /\ x = csrf[b]
    BY <1>2, <2>2 DEF TokenInv
  <2>3. CASE a = b /\ on /\ x = <<s_hmac_key, cookie[b]>> /\ c = cookie[b]
    BY <1>2, <2>3 DEF TokenInv
  <2>4. CASE a = b /\ x = NoCsrf
    BY <1>2, <2>4
  <2> QED BY <2>1, <2>2, <2>3, <2>4
<1> QED BY <1>1, <1>3

LEMMA SameBrowsers ==
  ASSUME TokenInv, BrowserType, UNCHANGED browsers,
         UNCHANGED <<on, s_hmac_key, rekeyed>>, nvs'.key = nvs.key
  PROVE  TokenInv' /\ BrowserType'
  BY DEF browsers, TokenInv, BrowserType

LEMMA BrowserNextInv ==
  ASSUME IInv, NEW b \in Browser, BrowserNext(b)
  PROVE  IInv'
<1> USE DEF IInv
<1>1. /\ cookie[b] \in 0 .. MaxLogins /\ csrf[b] \in Int \X Int /\ NoCsrf \in Int \X Int
      /\ cookie = [cookie EXCEPT ![b] = cookie[b]] /\ csrf = [csrf EXCEPT ![b] = csrf[b]]
      /\ 0 \in 0 .. MaxLogins /\ CsrfOf(cookie[b]) \in Int \X Int
  BY AuthAssumption DEF BrowserType, NoCsrf, CsrfOf
<1>2. ASSUME UNCHANGED authVars PROVE BaseInv' /\ SessionInv'
  BY <1>2 DEF authVars, ram, clock, history, BaseInv, SessionInv, Dated, Holds
<1>3. CASE Leaves(b)
  <2>1. cookie' = [cookie EXCEPT ![b] = cookie[b]] /\ csrf' = [csrf EXCEPT ![b] = NoCsrf]
    BY <1>1, <1>3 DEF Leaves, Shows
  <2>2. UNCHANGED <<on, s_hmac_key, rekeyed>> /\ nvs'.key = nvs.key
    BY <1>3 DEF Leaves, authVars, ram, history
  <2>3. TokenInv' /\ BrowserType'
    BY <1>1, <2>1, <2>2, BrowserStep
  <2> QED BY <1>2, <1>3, <2>3 DEF Leaves
<1>4. CASE CookieGone(b)
  <2>1. cookie' = [cookie EXCEPT ![b] = 0] /\ csrf' = [csrf EXCEPT ![b] = csrf[b]]
    BY <1>1, <1>4 DEF CookieGone
  <2>2. UNCHANGED <<on, s_hmac_key, rekeyed>> /\ nvs'.key = nvs.key
    BY <1>4 DEF CookieGone, authVars, ram, history
  <2>3. TokenInv' /\ BrowserType'
    BY <1>1, <2>1, <2>2, BrowserStep
  <2> QED BY <1>2, <1>4, <2>3 DEF CookieGone
<1>5. CASE PostWrongPassword(b)
  <2>1. LoginFails /\ UNCHANGED browsers
    BY <1>5 DEF PostWrongPassword
  <2> QED BY <1>1, <2>1, RequestInv, KeysKept, SameBrowsers
<1>6. ASSUME NEW bad, NEW lost,
             GetSession(b, bad, lost) \/ Get(b, bad, lost) \/ PostRefused(b, bad, lost)
             \/ Index(b, bad) \/ PostStart(b, bad)
      PROVE  IInv'
  <2>1. SessionFromRequest(cookie[b], bad) /\ on
    BY <1>6 DEF GetSession, Get, PostRefused, Index, PostStart
  <2>2. BaseInv' /\ SessionInv' /\ UNCHANGED <<on, s_hmac_key, rekeyed>> /\ nvs'.key = nvs.key
    BY <1>1, <2>1, RequestInv, KeysKept
  <2>3. cookie' = [cookie EXCEPT ![b] = cookie[b]]
    BY <1>1, <1>6 DEF GetSession, Get, PostRefused, Index, PostStart, browsers
  <2>4. \/ csrf' = [csrf EXCEPT ![b] = csrf[b]]
        \/ csrf' = [csrf EXCEPT ![b] = NoCsrf]
        \/ csrf' = [csrf EXCEPT ![b] = CsrfOf(cookie[b])]
    BY <1>1, <1>6 DEF GetSession, TakesToken, Get, PostRefused, Refused, Answered401, Shows,
                      Index, PostStart, browsers
  <2>5. CsrfOf(cookie[b]) = <<s_hmac_key, cookie[b]>>
    BY DEF CsrfOf
  <2>6. TokenInv' /\ BrowserType'
    BY <1>1, <2>1, <2>2, <2>3, <2>4, <2>5, BrowserStep
  <2> QED BY <2>2, <2>6
<1>7. ASSUME NEW bad, NEW lost, PostLogout(b, bad, lost) PROVE IInv'
  <2>1. Logout(cookie[b], bad)
    BY <1>7 DEF PostLogout
  <2>2. BaseInv' /\ SessionInv' /\ UNCHANGED <<on, s_hmac_key, rekeyed>> /\ nvs'.key = nvs.key
    BY <1>1, <2>1, RequestInv, KeysKept
  <2>3. csrf' = [csrf EXCEPT ![b] = csrf[b]]
        /\ (cookie' = [cookie EXCEPT ![b] = 0] \/ cookie' = [cookie EXCEPT ![b] = cookie[b]])
    BY <1>1, <1>7 DEF PostLogout
  <2>4. TokenInv' /\ BrowserType'
    BY <1>1, <2>2, <2>3, BrowserStep
  <2> QED BY <2>2, <2>4
<1>8. ASSUME NEW bad, NEW lost, PostLogin(b, bad, lost) PROVE IInv'
  <2>1. Login(bad)
    BY <1>8 DEF PostLogin
  <2>2. BaseInv' /\ SessionInv' /\ UNCHANGED <<on, s_hmac_key, rekeyed>> /\ nvs'.key = nvs.key
    BY <1>1, <2>1, RequestInv, KeysKept
  <2>3. CASE UNCHANGED browsers
    BY <2>2, <2>3, SameBrowsers
  <2>4. CASE SignedIn(b)
    <3>1. cookie' = [cookie EXCEPT ![b] = logins'] /\ csrf' = [csrf EXCEPT ![b] = NoCsrf]
          /\ logins' \in 0 .. MaxLogins
      BY <2>2, <2>4 DEF SignedIn, Shows, BaseInv
    <3>2. TokenInv' /\ BrowserType'
      BY <1>1, <2>2, <3>1, BrowserStep
    <3> QED BY <2>2, <3>2
  <2> QED BY <1>8, <2>3, <2>4 DEF PostLogin
<1> QED BY <1>3, <1>4, <1>5, <1>6, <1>7, <1>8 DEF BrowserNext

LEMMA DeviceNextInv == ASSUME IInv, DeviceNext PROVE IInv'
<1> USE DEF IInv
<1>0. UNCHANGED browsers /\ cookie' = cookie /\ csrf' = csrf
  BY DEF DeviceNext, browsers
<1>1. CASE Tick
  <2>1. time' \in 1 .. MaxTime
    BY <1>1, AuthAssumption DEF Tick, BaseInv
  <2> QED BY <1>0, <1>1, <2>1, SameBrowsers
          DEF Tick, ram, history, BaseInv, SessionInv, Dated, Holds
<1>2. CASE Sync
  BY <1>0, <1>2, SameBrowsers DEF Sync, ram, history, BaseInv, SessionInv, Dated, Holds
<1>3. ASSUME NEW power \in BOOLEAN, Reset(power) PROVE IInv'
  <2>1. TokenInv' /\ BrowserType'
    BY <1>0, <1>3 DEF Reset, TokenInv, BrowserType
  <2> QED BY <1>3, <2>1, ResetInv
<1>4. ASSUME NEW opens \in BOOLEAN, NEW writes \in BOOLEAN, Boot(opens, writes) PROVE IInv'
  <2>1. BaseInv' /\ SessionInv'
    BY <1>4, BootInv
  <2>2. boots' \in Nat /\ boots' # 0 /\ s_hmac_key' \in Nat
    BY <1>4 DEF Boot, KeyOf, BaseInv
  <2>3. BrowserType'
    BY <1>0, <2>2 DEF BrowserType
  <2>4. TokenInv'
    <3> SUFFICES ASSUME ~rekeyed' PROVE TokenInv'
      BY DEF TokenInv
    <3>1. ~rekeyed /\ opens /\ writes
      BY <1>4 DEF Boot
    <3>2. s_hmac_key' = KeyOf(nvs.key) /\ nvs' = [nvs EXCEPT !.key = s_hmac_key']
      BY <1>4, <3>1 DEF Boot
    <3>3. nvs'.key = s_hmac_key' /\ s_hmac_key' # 0 /\ (nvs.key # 0 => nvs'.key = nvs.key)
      BY <2>2, <3>2 DEF KeyOf, BaseInv
    <3> QED BY <1>0, <3>1, <3>3 DEF TokenInv
  <2> QED BY <2>1, <2>3, <2>4
<1> QED BY <1>1, <1>2, <1>3, <1>4 DEF DeviceNext

LEMMA InitInv == HttpdInit => IInv
<1> SUFFICES ASSUME HttpdInit PROVE IInv
  OBVIOUS
<1>1. /\ s_sessions = NoSessions /\ nvs = [sessions |-> NoSessions, key |-> 0]
      /\ logins = 0 /\ boots = 0 /\ time = 1 /\ ended = {} /\ first = [t \in Token |-> 0]
      /\ s_hmac_key = 0 /\ on = FALSE
  BY DEF HttpdInit, Init
<1>2. \A t \in Token, i \in Slot : NoSessions[i].hash # t
  BY NoneHeld DEF Holds
<1>3. BaseInv
  BY <1>1, NoneHeld, AuthAssumption DEF BaseInv
<1>4. SessionInv
  BY <1>1, <1>2 DEF SessionInv, Dated
<1>5. TokenInv /\ BrowserType
  BY <1>1, AuthAssumption DEF HttpdInit, TokenInv, BrowserType, NoCsrf
<1> QED BY <1>3, <1>4, <1>5 DEF IInv

LEMMA NextInv == IInv /\ [Next]_vars => IInv'
<1> SUFFICES ASSUME IInv, [Next]_vars PROVE IInv'
  OBVIOUS
<1>1. ASSUME NEW bad, Strangers(bad) PROVE IInv'
  <2>1. UNCHANGED browsers
    BY <1>1 DEF Strangers
  <2>2. PICK t \in 0 .. MaxLogins : Login(bad) \/ LoginFails \/ Logout(t, bad)
    BY <1>1, AuthAssumption DEF Strangers, Token
  <2>3. BaseInv' /\ SessionInv'
    BY <2>2, RequestInv DEF IInv
  <2>4. UNCHANGED <<on, s_hmac_key, rekeyed>> /\ nvs'.key = nvs.key
    BY <2>2, KeysKept DEF IInv
  <2> QED BY <2>1, <2>3, <2>4, SameBrowsers DEF IInv
<1>2. CASE UNCHANGED vars
  BY <1>2 DEF vars, authVars, browsers, ram, clock, history, IInv, BaseInv, SessionInv,
              Dated, Holds, TokenInv, BrowserType
<1> QED BY <1>1, <1>2, DeviceNextInv, BrowserNextInv DEF Next

LEMMA Invariance == Spec => []IInv
  BY InitInv, NextInv, PTL DEF Spec

-----------------------------------------------------------------------------
(* Induction over the naturals, for a set, and the functions defined by it. *)

LEMMA NatsIn ==
  ASSUME NEW S, 0 \in S, \A n \in Nat : n \in S => n + 1 \in S
  PROVE  Nat \subseteq S
<1> DEFINE T == Nat \ S
<1> SUFFICES ASSUME T # {} PROVE FALSE
  OBVIOUS
<1>1. PICK x \in T : \A y \in T : ~(<<y, x>> \in OpToRel(<, Nat))
  BY NatLessThanWellFounded, WFMin
<1>2. \A y \in T : ~(y < x)
  BY <1>1 DEF OpToRel
<1>3. x # 0 /\ x - 1 \in Nat /\ x - 1 \in S
  BY <1>2
<1> QED BY <1>3, x = (x - 1) + 1

\* f begins with a, and each value is a step from the one before it.
Runs(f, a, step, T) ==
    f \in [Nat -> T] /\ f[0] = a /\ \A n \in Nat : f[n + 1] = step[<<n, f[n]>>]

LEMMA Iterates ==
  ASSUME NEW a, NEW T, a \in T, NEW step \in [Nat \X T -> T]
  PROVE  \E f : Runs(f, a, step, T)
<1> DEFINE Upto(g, n) == /\ g \in [0 .. n -> T]
                         /\ g[0] = a /\ \A i \in 0 .. n - 1 : g[i + 1] = step[<<i, g[i]>>]
           S == {n \in Nat : \E g \in [0 .. n -> T] : Upto(g, n)}
<1>1. 0 \in S
  <2>1. Upto([i \in 0 .. 0 |-> a], 0)
    OBVIOUS
  <2> QED BY <2>1
<1>2. ASSUME NEW n \in Nat, n \in S PROVE n + 1 \in S
  <2>1. PICK g \in [0 .. n -> T] : Upto(g, n)
    BY <1>2
  <2> DEFINE h == [i \in 0 .. n + 1 |-> IF i <= n THEN g[i] ELSE step[<<n, g[n]>>]]
  <2>2. h \in [0 .. n + 1 -> T]
    BY <2>1
  <2>3. h[0] = a /\ \A i \in 0 .. n : h[i] = g[i]
    BY <2>1
  <2>4. ASSUME NEW i \in 0 .. n PROVE h[i + 1] = step[<<i, h[i]>>]
    <3>1. CASE i = n
      BY <3>1
    <3>2. CASE i # n
      BY <2>1, <3>2, i \in 0 .. n - 1, i + 1 \in 0 .. n
    <3> QED BY <3>1, <3>2
  <2> HIDE DEF h
  <2> QED BY <2>2, <2>3, <2>4
<1>3. \A n \in Nat : \E g \in [0 .. n -> T] : Upto(g, n)
  <2> HIDE DEF S
  <2>1. Nat \subseteq S
    BY <1>1, <1>2, NatsIn
  <2> QED BY <2>1 DEF S
<1> DEFINE G(n) == CHOOSE g \in [0 .. n -> T] : Upto(g, n)
           f == [n \in Nat |-> G(n)[n]]
<1>4. \A n \in Nat : Upto(G(n), n)
  BY <1>3
<1> HIDE DEF G
<1>5. ASSUME NEW n \in Nat PROVE \A i \in 0 .. n : G(n)[i] = G(n + 1)[i]
  <2> DEFINE R == {i \in Nat : i <= n => G(n)[i] = G(n + 1)[i]}
  <2>1. Upto(G(n), n) /\ Upto(G(n + 1), n + 1)
    BY <1>4
  <2>2. 0 \in R /\ \A i \in Nat : i \in R => i + 1 \in R
    <3> SUFFICES ASSUME NEW i \in Nat, i <= n => G(n)[i] = G(n + 1)[i], i + 1 <= n
                 PROVE  G(n)[i + 1] = G(n + 1)[i + 1]
      BY <2>1
    <3>1. i \in 0 .. n - 1 /\ i \in 0 .. (n + 1) - 1 /\ i <= n
      OBVIOUS
    <3>2. /\ G(n)[i + 1] = step[<<i, G(n)[i]>>]
          /\ G(n + 1)[i + 1] = step[<<i, G(n + 1)[i]>>]
      BY <2>1, <3>1
    <3> QED BY <3>1, <3>2
  <2> HIDE DEF R
  <2>3. Nat \subseteq R
    BY <2>2, NatsIn
  <2> QED BY <2>3 DEF R
<1>6. f \in [Nat -> T] /\ f[0] = a
  BY <1>4
<1>7. ASSUME NEW n \in Nat PROVE f[n + 1] = step[<<n, f[n]>>]
  <2>1. G(n + 1)[n + 1] = step[<<n, G(n + 1)[n]>>]
    BY <1>4, n + 1 \in Nat, n \in 0 .. (n + 1) - 1
  <2>2. G(n + 1)[n] = G(n)[n]
    BY <1>5
  <2> QED BY <2>1, <2>2
<1> HIDE DEF f
<1>8. Runs(f, a, step, T)
  BY <1>6, <1>7 DEF Runs
<1> QED BY <1>8

\* The three functions that HiAuth and HiHttpd define in this way.
LEMMA Powers ==
  /\ Pow2 \in [Nat -> Nat] /\ Pow2[0] = 1
  /\ \A n \in Nat : Pow2[n + 1] = 2 * Pow2[n]
<1> DEFINE step == [p \in Nat \X Nat |-> 2 * p[2]]
<1>1. PICK f : Runs(f, 1, step, Nat)
  <2>1. step \in [Nat \X Nat -> Nat] /\ 1 \in Nat
    OBVIOUS
  <2> HIDE DEF step
  <2> QED BY <2>1, Iterates
<1>2. f \in [Nat -> Nat] /\ f[0] = 1 /\ \A n \in Nat : f[n + 1] = 2 * f[n]
  BY <1>1 DEF Runs
<1>3. f = [n \in Nat |-> IF n = 0 THEN 1 ELSE 2 * f[n - 1]]
  <2> HIDE DEF step
  <2>1. \A n \in Nat : f[n] = IF n = 0 THEN 1 ELSE 2 * f[n - 1]
    BY <1>2, \A n \in Nat : n # 0 => n - 1 \in Nat /\ (n - 1) + 1 = n
  <2> QED BY <1>2, <2>1
<1>4. Pow2 = [n \in Nat |-> IF n = 0 THEN 1 ELSE 2 * Pow2[n - 1]]
  BY <1>3, Zenon DEF Pow2
<1> HIDE DEF step
<1>5. \A n \in Nat : Pow2[n] = IF n = 0 THEN 1 ELSE 2 * Pow2[n - 1]
  BY <1>4, Zenon
<1>6. Pow2[0] = 1 /\ \A n \in Nat : Pow2[n + 1] = 2 * Pow2[n]
  BY <1>5, \A n \in Nat : n + 1 \in Nat /\ n + 1 # 0 /\ (n + 1) - 1 = n
<1>7. Nat \subseteq {n \in Nat : Pow2[n] \in Nat}
  <2> DEFINE S == {n \in Nat : Pow2[n] \in Nat}
  <2>1. 0 \in S /\ \A n \in Nat : n \in S => n + 1 \in S
    BY <1>6
  <2> HIDE DEF S
  <2>2. Nat \subseteq S
    BY <2>1, NatsIn
  <2> QED BY <2>2 DEF S
<1> QED BY <1>4, <1>6, <1>7

LEMMA BackOffs ==
  /\ BackOff \in [Nat -> Nat] /\ BackOff[0] = 1
  /\ \A n \in Nat : BackOff[n + 1] = Sat(2 * BackOff[n], LockoutMax)
<1> DEFINE step == [p \in Nat \X Nat |-> Sat(2 * p[2], LockoutMax)]
<1>0. \A x \in Nat : Sat(2 * x, LockoutMax) \in Nat
  BY AuthAssumption DEF Sat
<1>1. PICK f : Runs(f, 1, step, Nat)
  <2>1. step \in [Nat \X Nat -> Nat] /\ 1 \in Nat
    BY <1>0
  <2> HIDE DEF step
  <2> QED BY <2>1, Iterates
<1>2. f \in [Nat -> Nat] /\ f[0] = 1 /\ \A n \in Nat : f[n + 1] = Sat(2 * f[n], LockoutMax)
  BY <1>1 DEF Runs
<1> HIDE DEF step
<1>3. f = [n \in Nat |-> IF n = 0 THEN 1 ELSE Sat(2 * f[n - 1], LockoutMax)]
  <2>1. \A n \in Nat : f[n] = IF n = 0 THEN 1 ELSE Sat(2 * f[n - 1], LockoutMax)
    BY <1>2, \A n \in Nat : n # 0 => n - 1 \in Nat /\ (n - 1) + 1 = n
  <2> QED BY <1>2, <2>1
<1>4. BackOff = [n \in Nat |-> IF n = 0 THEN 1 ELSE Sat(2 * BackOff[n - 1], LockoutMax)]
  BY <1>3, Zenon DEF BackOff
<1>5. \A n \in Nat : BackOff[n] = IF n = 0 THEN 1 ELSE Sat(2 * BackOff[n - 1], LockoutMax)
  BY <1>4, Zenon
<1>6. /\ BackOff[0] = 1
      /\ \A n \in Nat : BackOff[n + 1] = Sat(2 * BackOff[n], LockoutMax)
  BY <1>5, \A n \in Nat : n + 1 \in Nat /\ n + 1 # 0 /\ (n + 1) - 1 = n
<1>7. Nat \subseteq {n \in Nat : BackOff[n] \in Nat}
  <2> DEFINE S == {n \in Nat : BackOff[n] \in Nat}
  <2>1. 0 \in S /\ \A n \in Nat : n \in S => n + 1 \in S
    BY <1>0, <1>6
  <2> HIDE DEF S
  <2>2. Nat \subseteq S
    BY <2>1, NatsIn
  <2> QED BY <2>2 DEF S
<1> QED BY <1>4, <1>6, <1>7

LEMMA Waits ==
  Waited[0] = 0 /\ \A n \in Nat : Waited[n] \in Nat /\ Waited[n + 1] = Waited[n] + BackOff[n]
<1> DEFINE step == [p \in Nat \X Nat |-> p[2] + BackOff[p[1]]]
<1>1. PICK f : Runs(f, 0, step, Nat)
  <2>1. step \in [Nat \X Nat -> Nat] /\ 0 \in Nat
    BY BackOffs
  <2> HIDE DEF step
  <2> QED BY <2>1, Iterates
<1>2. f \in [Nat -> Nat] /\ f[0] = 0 /\ \A n \in Nat : f[n + 1] = f[n] + BackOff[n]
  BY <1>1 DEF Runs
<1> HIDE DEF step
<1>3. f = [n \in Nat |-> IF n = 0 THEN 0 ELSE f[n - 1] + BackOff[n - 1]]
  <2>1. \A n \in Nat : f[n] = IF n = 0 THEN 0 ELSE f[n - 1] + BackOff[n - 1]
    BY <1>2, \A n \in Nat : n # 0 => n - 1 \in Nat /\ (n - 1) + 1 = n
  <2> QED BY <1>2, <2>1
<1>4. Waited = [n \in Nat |-> IF n = 0 THEN 0 ELSE Waited[n - 1] + BackOff[n - 1]]
  BY <1>3, Zenon DEF Waited
<1>5. \A n \in Nat : Waited[n] = IF n = 0 THEN 0 ELSE Waited[n - 1] + BackOff[n - 1]
  BY <1>4, Zenon
<1>6. Waited[0] = 0 /\ \A n \in Nat : Waited[n + 1] = Waited[n] + BackOff[n]
  BY <1>5, \A n \in Nat : n + 1 \in Nat /\ n + 1 # 0 /\ (n + 1) - 1 = n
<1>7. Nat \subseteq {n \in Nat : Waited[n] \in Nat}
  <2> DEFINE S == {n \in Nat : Waited[n] \in Nat}
  <2>1. 0 \in S /\ \A n \in Nat : n \in S => n + 1 \in S
    BY <1>6, BackOffs
  <2> HIDE DEF S
  <2>2. Nat \subseteq S
    BY <2>1, NatsIn
  <2> QED BY <2>2 DEF S
<1> QED BY <1>6, <1>7

-----------------------------------------------------------------------------
(* Types, and the back-off.                                                *)

\* The longest shift reaches the longest delay, as 2^16 s does 300 s.
Capped == LockoutMax <= Pow2[MaxShift]

LEMMA DelayIs == ASSUME Capped, NEW k \in Nat PROVE Delay(k + 1) = BackOff[k]
<1> DEFINE D(n) == Sat(Pow2[Sat(n, MaxShift)], LockoutMax)
           S == {n \in Nat : BackOff[n] = D(n)}
<1>1. MaxShift \in Nat /\ LockoutMax \in Nat \ {0} /\ Pow2[MaxShift] \in Nat
      /\ LockoutMax <= Pow2[MaxShift]
  BY AuthAssumption, Powers DEF Capped
<1>2. 0 \in S
  BY <1>1, Powers, BackOffs DEF Sat
<1>3. ASSUME NEW n \in Nat, n \in S PROVE n + 1 \in S
  <2>1. BackOff[n] = D(n) /\ BackOff[n + 1] = Sat(2 * BackOff[n], LockoutMax)
    BY <1>3, BackOffs
  <2>2. CASE n < MaxShift
    <3>1. Sat(n, MaxShift) = n /\ Sat(n + 1, MaxShift) = n + 1
      BY <1>1, <2>2 DEF Sat
    <3>2. Pow2[n] \in Nat /\ Pow2[n + 1] = 2 * Pow2[n]
      BY Powers
    <3>3. Sat(2 * Sat(Pow2[n], LockoutMax), LockoutMax) = Sat(2 * Pow2[n], LockoutMax)
      BY <1>1, <3>2 DEF Sat
    <3> QED BY <2>1, <3>1, <3>2, <3>3
  <2>3. CASE ~(n < MaxShift)
    <3>1. Sat(n, MaxShift) = MaxShift /\ Sat(n + 1, MaxShift) = MaxShift
      BY <1>1, <2>3 DEF Sat
    <3> QED BY <1>1, <2>1, <3>1 DEF Sat
  <2> QED BY <2>2, <2>3
<1> HIDE DEF S
<1>4. Nat \subseteq S
  BY <1>2, <1>3, NatsIn
<1>5. BackOff[k] = D(k)
  BY <1>4 DEF S
<1> QED BY <1>5, (k + 1) - 1 = k DEF Delay

\* Each delay is one second or more, whatever the cap.
LEMMA DelayType ==
  ASSUME NEW k \in Nat \ {0}
  PROVE  Delay(k) \in 1 .. LockoutMax
<1> DEFINE S == {n \in Nat : Pow2[n] >= 1}
<1>1. 0 \in S /\ \A n \in Nat : n \in S => n + 1 \in S
  BY Powers
<1> HIDE DEF S
<1>2. Nat \subseteq S
  BY <1>1, NatsIn
<1>3. Sat(k - 1, MaxShift) \in Nat
  BY AuthAssumption DEF Sat
<1>4. Pow2[Sat(k - 1, MaxShift)] \in Nat \ {0}
  BY <1>2, <1>3, Powers DEF S
<1> QED BY <1>4, AuthAssumption DEF Delay, Sat

\* The first of a run of bad passwords was made at "since"; each of the others
\* waited for the one before it, a second at least.
FailInv ==
    /\ s_failures \in Nat /\ since \in 0 .. MaxTime
    /\ s_locked_until \in 0 .. MaxTime + LockoutMax
    /\ s_failures # 0 => /\ since # 0 /\ since + s_failures - 1 <= time
                         /\ since + s_failures <= s_locked_until

RestInv ==
    /\ on \in BOOLEAN /\ synced \in BOOLEAN /\ failed \in BOOLEAN /\ rekeyed \in BOOLEAN
    /\ s_hmac_key \in 0 .. MaxBoots /\ nvs.key \in 0 .. MaxBoots
    /\ faults \in 0 .. MaxFaults

PageInv ==
    /\ page \in [Browser -> {"none", "login", "app"}]
    /\ csrf \in [Browser -> (0 .. MaxBoots) \X (0 .. MaxLogins)]

TypeInv == FailInv /\ RestInv /\ PageInv

LEMMA Typed == IInv /\ TypeInv => TypeOK
<1> SUFFICES ASSUME IInv, TypeInv PROVE TypeOK
  OBVIOUS
<1>1. s_failures \in 0 .. MaxTime
  BY AuthAssumption DEF IInv, BaseInv, TypeInv, FailInv
<1>2. nvs \in [sessions : [Slot -> Session], key : 0 .. MaxBoots]
  BY DEF IInv, BaseInv, IsTable, TypeInv, RestInv
<1>3. ended \subseteq Token
  BY AuthAssumption DEF IInv, BaseInv, Token
<1> QED BY <1>1, <1>2, <1>3
        DEF TypeOK, TypeInv, FailInv, RestInv, PageInv, IInv, BaseInv, IsTable, BrowserType

LEMMA PersistType ==
  ASSUME NEW tables, NEW bad \in Writes, Persist(tables, bad), RestInv
  PROVE  faults' \in 0 .. MaxFaults /\ failed' \in BOOLEAN
<1>1. Cardinality(bad) \in Nat
  <2>1. IsFiniteSet({1, 2})
    <3>1. \A x : x \in 1 .. 2 <=> x \in {1, 2}
      OBVIOUS
    <3>2. 1 .. 2 = {1, 2}
      BY <3>1
    <3>3. 1 \in Int /\ 2 \in Int
      OBVIOUS
    <3>4. IsFiniteSet(1 .. 2)
      BY <3>3, FS_Interval
    <3> QED BY <3>2, <3>4
  <2>2. IsFiniteSet(bad)
    BY <2>1, FS_Subset DEF Writes
  <2> QED BY <2>2, FS_CardinalityType
<1>2. faults' \in 0 .. MaxFaults
  BY <1>1, AuthAssumption DEF Persist, RestInv
<1>3. failed' \in BOOLEAN
  <2>1. CASE tables = << >>
    BY <2>1, Zenon DEF Persist, RestInv
  <2>2. CASE tables # << >>
    <3>1. failed' = (Len(tables) \in bad)
      BY <2>2, Zenon DEF Persist
    <3> QED BY <3>1
  <2> QED BY <2>1, <2>2
<1> QED BY <1>2, <1>3

LEMMA FailsType ==
  ASSUME BaseInv, FailInv, LoginFails
  PROVE  FailInv'
<1>1. /\ time \in 1 .. MaxTime /\ time' = time /\ s_locked_until <= time
      /\ s_failures' = s_failures + 1 /\ s_locked_until' = time + Delay(s_failures')
      /\ since' = IF s_failures = 0 THEN time ELSE since
  BY DEF LoginFails, Locked, clock, BaseInv, FailInv
<1>2. s_failures' \in Nat \ {0}
  BY <1>1 DEF FailInv
<1>3. Delay(s_failures') \in 1 .. LockoutMax
  BY <1>2, DelayType
<1> QED BY <1>1, <1>2, <1>3, AuthAssumption DEF FailInv

\* What a request does to the types, and to the back-off.
LEMMA RequestType ==
  ASSUME BaseInv, FailInv, RestInv, NEW t, NEW bad \in Writes,
         SessionFromRequest(t, bad) \/ Logout(t, bad) \/ Login(bad) \/ LoginFails
  PROVE  FailInv' /\ RestInv'
<1>1. UNCHANGED <<on, s_hmac_key, rekeyed>> /\ nvs'.key = nvs.key
  BY KeysKept
<1>2. CASE SessionFromRequest(t, bad) \/ Logout(t, bad)
  <2>1. FailInv'
    BY <1>2 DEF SessionFromRequest, Logout, clock, FailInv
  <2>2. \E tables : Persist(tables, bad)
    BY <1>2 DEF SessionFromRequest, Logout
  <2>3. UNCHANGED synced
    BY <1>2 DEF SessionFromRequest, Logout, clock
  <2> QED BY <1>1, <2>1, <2>2, <2>3, PersistType DEF RestInv
<1>3. CASE Login(bad)
  <2>1. FailInv'
    BY <1>3, AuthAssumption DEF Login, clock, FailInv
  <2>2. \E tables : Persist(tables, bad)
    BY <1>3 DEF Login
  <2>3. UNCHANGED synced
    BY <1>3 DEF Login, clock
  <2> QED BY <1>1, <2>1, <2>2, <2>3, PersistType DEF RestInv
<1>4. CASE LoginFails
  <2>1. FailInv'
    BY <1>4, FailsType
  <2> QED BY <1>4, <2>1 DEF LoginFails, clock, RestInv
<1> QED BY <1>2, <1>3, <1>4

LEMMA DeviceType == ASSUME IInv, TypeInv, DeviceNext PROVE TypeInv'
<1> USE DEF TypeInv
<1>1. PageInv'
  BY DEF DeviceNext, browsers, PageInv
<1>2. CASE Tick \/ Sync
  <2>1. RestInv'
    BY <1>2 DEF Tick, Sync, ram, history, RestInv
  <2>2. FailInv'
    BY <1>2, AuthAssumption DEF Tick, Sync, ram, history, FailInv, IInv, BaseInv
  <2> QED BY <1>1, <2>1, <2>2
<1>3. ASSUME NEW power \in BOOLEAN, Reset(power) PROVE TypeInv'
  <2>1. FailInv'
    BY <1>3, AuthAssumption DEF Reset, FailInv
  <2>2. synced' \in BOOLEAN
    BY <1>3, Zenon DEF Reset
  <2>3. RestInv'
    <3>1. on' \in BOOLEAN /\ failed' \in BOOLEAN /\ rekeyed' \in BOOLEAN
      BY <1>3, Zenon DEF Reset, RestInv
    <3>2. s_hmac_key' \in 0 .. MaxBoots /\ nvs'.key \in 0 .. MaxBoots /\ faults' \in 0 .. MaxFaults
      BY <1>3, AuthAssumption DEF Reset, RestInv
    <3> QED BY <2>2, <3>1, <3>2 DEF RestInv
  <2> QED BY <1>1, <2>1, <2>3
<1>4. ASSUME NEW opens \in BOOLEAN, NEW writes \in BOOLEAN, Boot(opens, writes) PROVE TypeInv'
  <2>1. FailInv'
    BY <1>4 DEF Boot, clock, FailInv
  <2>2. boots' \in 0 .. MaxBoots
    BY <1>4, AuthAssumption DEF Boot, IInv, BaseInv
  <2>3. s_hmac_key' \in 0 .. MaxBoots
    BY <1>4, <2>2 DEF Boot, KeyOf, RestInv
  <2>4. nvs'.key \in 0 .. MaxBoots
    BY <1>4, <2>3 DEF Boot, RestInv, IInv, BaseInv
  <2>5. faults' \in 0 .. MaxFaults
    BY <1>4, AuthAssumption DEF Boot, RestInv
  <2>6. on' \in BOOLEAN /\ synced' \in BOOLEAN /\ failed' \in BOOLEAN /\ rekeyed' \in BOOLEAN
    BY <1>4 DEF Boot, clock, Undone, RestInv
  <2> QED BY <1>1, <2>1, <2>3, <2>4, <2>5, <2>6 DEF RestInv
<1> QED BY <1>2, <1>3, <1>4 DEF DeviceNext

LEMMA BrowserNextType ==
  ASSUME IInv, TypeInv, NEW b \in Browser, BrowserNext(b)
  PROVE  TypeInv'
<1> USE DEF TypeInv
<1>1. /\ NoCsrf \in (0 .. MaxBoots) \X (0 .. MaxLogins)
      /\ CsrfOf(cookie[b]) \in (0 .. MaxBoots) \X (0 .. MaxLogins)
  BY AuthAssumption DEF NoCsrf, CsrfOf, RestInv, IInv, BrowserType
<1>2. PageInv'
  BY <1>1 DEF BrowserNext, Leaves, CookieGone, PostWrongPassword, GetSession, TakesToken, Get,
              PostRefused, Refused, Answered401, PostLogout, PostLogin, SignedIn, Index,
              PostStart, Shows, browsers, PageInv
<1>3. CASE UNCHANGED authVars
  BY <1>2, <1>3 DEF authVars, ram, clock, history, FailInv, RestInv
<1>4. ASSUME NEW t, NEW bad \in Writes,
             SessionFromRequest(t, bad) \/ Logout(t, bad) \/ Login(bad) \/ LoginFails
      PROVE  TypeInv'
  BY <1>2, <1>4, RequestType DEF IInv
<1>5. \/ UNCHANGED authVars
      \/ \E bad \in Writes, t \in 0 .. MaxLogins :
             SessionFromRequest(t, bad) \/ Logout(t, bad) \/ Login(bad) \/ LoginFails
  <2>1. cookie[b] \in 0 .. MaxLogins /\ {} \in Writes
    BY DEF IInv, BrowserType, Writes
  <2> QED BY <2>1 DEF BrowserNext, Leaves, CookieGone, PostWrongPassword, GetSession, Get,
                      PostRefused, PostLogout, PostLogin, Index, PostStart
<1> QED BY <1>3, <1>4, <1>5

LEMMA NextType == IInv /\ TypeInv /\ [Next]_vars => TypeInv'
<1> SUFFICES ASSUME IInv, TypeInv, [Next]_vars PROVE TypeInv'
  OBVIOUS
<1>1. ASSUME NEW bad \in Writes, Strangers(bad) PROVE TypeInv'
  <2>1. PageInv'
    BY <1>1 DEF Strangers, browsers, TypeInv, PageInv
  <2>2. PICK t : Login(bad) \/ LoginFails \/ Logout(t, bad)
    BY <1>1 DEF Strangers
  <2> QED BY <2>1, <2>2, RequestType DEF IInv, TypeInv
<1>2. CASE UNCHANGED vars
  BY <1>2 DEF vars, authVars, browsers, ram, clock, history, TypeInv, FailInv, RestInv, PageInv
<1> QED BY <1>1, <1>2, DeviceType, BrowserNextType DEF Next

LEMMA InitType == HttpdInit => TypeInv
<1> SUFFICES ASSUME HttpdInit PROVE TypeInv
  OBVIOUS
<1>1. FailInv
  BY AuthAssumption DEF HttpdInit, Init, FailInv
<1>2. RestInv
  <2>1. on \in BOOLEAN /\ synced \in BOOLEAN /\ failed \in BOOLEAN /\ rekeyed \in BOOLEAN
    BY Zenon DEF HttpdInit, Init
  <2>2. s_hmac_key \in 0 .. MaxBoots /\ nvs.key \in 0 .. MaxBoots /\ faults \in 0 .. MaxFaults
    BY AuthAssumption DEF HttpdInit, Init
  <2> QED BY <2>1, <2>2 DEF RestInv
<1>3. NoCsrf \in (0 .. MaxBoots) \X (0 .. MaxLogins)
  BY AuthAssumption DEF NoCsrf
<1>4. PageInv
  BY <1>3 DEF HttpdInit, PageInv
<1> QED BY <1>1, <1>2, <1>4 DEF TypeInv

LEMMA TypeInvariance == Spec => []TypeInv
  BY InitType, NextType, Invariance, PTL DEF Spec

\* Every variable stays in its type: a run of bad passwords is never longer
\* than the seconds it took, since each of them waited (hi_auth.c:177-183).
THEOREM TypeCorrect == Spec => []TypeOK
  BY Typed, Invariance, TypeInvariance, PTL

\* While locked out, the time the next bad password will have taken is the
\* least one already.
WaitInv ==
    s_failures # 0 => /\ since + Waited[s_failures - 1] <= time
                      /\ since + Waited[s_failures] <= s_locked_until

LEMMA WaitNext ==
  ASSUME Capped, IInv, TypeInv, WaitInv, [Next]_vars
  PROVE  WaitInv'
<1>1. CASE LoginFails
  <2>1. /\ s_failures \in Nat /\ s_failures' = s_failures + 1 /\ time' = time
        /\ s_locked_until <= time /\ s_locked_until' = time + Delay(s_failures + 1)
        /\ since' = IF s_failures = 0 THEN time ELSE since
        /\ time \in Nat /\ since \in Nat /\ s_locked_until \in Nat
    BY <1>1, AuthAssumption
       DEF LoginFails, Locked, clock, IInv, BaseInv, TypeInv, FailInv
  <2>2. Delay(s_failures + 1) = BackOff[s_failures] /\ BackOff[s_failures] \in Nat
    BY <2>1, DelayIs, BackOffs
  <2>3. /\ Waited[s_failures] \in Nat /\ Waited[0] = 0
        /\ Waited[s_failures + 1] = Waited[s_failures] + BackOff[s_failures]
    BY <2>1, Waits
  <2>4. since' + Waited[s_failures] <= time
    BY <2>1, <2>3 DEF WaitInv
  <2>5. s_failures' - 1 = s_failures /\ s_failures' # 0
    BY <2>1
  <2> QED BY <2>1, <2>2, <2>3, <2>4, <2>5 DEF WaitInv
<1>2. CASE /\ UNCHANGED <<s_failures, s_locked_until, since>>
           /\ time' \in {time, time + 1}
  <2>1. s_failures # 0 => s_failures - 1 \in Nat
    BY DEF TypeInv, FailInv
  <2> QED BY <1>2, <2>1, Waits DEF WaitInv, IInv, BaseInv, TypeInv, FailInv
<1>3. CASE s_failures' = 0
  BY <1>3 DEF WaitInv
<1>4. ASSUME NEW t, NEW bad, SessionFromRequest(t, bad) \/ Logout(t, bad) \/ Login(bad)
      PROVE  WaitInv'
  BY <1>2, <1>3, <1>4 DEF SessionFromRequest, Logout, Login, clock
<1>5. CASE DeviceNext
  BY <1>2, <1>3, <1>5 DEF DeviceNext, Tick, Sync, Reset, Boot, ram, clock, history
<1>6. ASSUME NEW bad, Strangers(bad) PROVE WaitInv'
  BY <1>1, <1>4, <1>6 DEF Strangers
<1>7. CASE UNCHANGED authVars
  BY <1>2, <1>7 DEF authVars, ram, clock, history
<1>8. ASSUME NEW b \in Browser, BrowserNext(b) PROVE WaitInv'
  BY <1>1, <1>4, <1>7, <1>8
     DEF BrowserNext, Leaves, CookieGone, PostWrongPassword, GetSession, Get, PostRefused,
         PostLogout, PostLogin, Index, PostStart
<1> QED BY <1>5, <1>6, <1>7, <1>8 DEF Next, vars

\* "failed logins back off 1, 2, 4 ... s up to this" (hi_auth.h:35): bad
\* passwords in a row take at least the sum of the delays between them, for any
\* number of them and of browsers, if the longest shift reaches the longest
\* delay.
THEOREM BackOffsAddUp == ASSUME Capped PROVE Spec => []BackOffKept
<1>1. HttpdInit => WaitInv
  BY DEF HttpdInit, Init, WaitInv
<1>2. IInv /\ TypeInv /\ WaitInv /\ [Next]_vars => WaitInv'
  BY WaitNext
<1>3. WaitInv /\ IInv /\ TypeInv => BackOffKept
  <2> SUFFICES ASSUME WaitInv, IInv, TypeInv, s_failures # 0
               PROVE  time >= since + Waited[s_failures - 1]
    BY DEF BackOffKept
  <2>1. s_failures - 1 \in Nat
    BY DEF TypeInv, FailInv
  <2> QED BY <2>1, Waits DEF WaitInv, IInv, BaseInv, TypeInv, FailInv
<1> QED BY <1>1, <1>2, <1>3, Invariance, TypeInvariance, PTL DEF Spec

-----------------------------------------------------------------------------
\* A session that ended is not accepted again, over any number of browsers,
\* logins, resets and failed writes but the one of its end (hi_auth.c:91-101,
\* 247-260, 287-298).
THEOREM EndedSessionsStayEnded == Spec => []EndedStaysEnded
<1>1. IInv => EndedStaysEnded
  BY DEF IInv, SessionInv, EndedStaysEnded
<1> QED BY <1>1, Invariance, PTL

\* The stamp the age of a session counts from (first) is its first one: it is
\* replaced by nothing but a start that finds the session in NVS after the last
\* write had failed, and then has what NVS has, and forgotten only with the
\* session, in RAM and in NVS (hi_auth.c:91-101, 242-264).
FirstStays ==
    \A t \in Token : first[t] # 0 =>
        \/ first'[t] = first[t]
        \/ ~on /\ failed /\ Holds(nvs.sessions, t) /\ first'[t] = CreatedOf(nvs.sessions, t)
        \/ ~Holds(s_sessions', t) /\ ~Holds(nvs'.sessions, t)

LEMMA NotedFirst == ASSUME NEW out, Noted(out) PROVE FirstStays
  BY DEF Noted, FirstStays

LEMMA DeviceFirst == ASSUME DeviceNext PROVE FirstStays
<1>1. CASE UNCHANGED first
  BY <1>1 DEF FirstStays
<1>2. ASSUME NEW opens \in BOOLEAN, NEW writes \in BOOLEAN, Boot(opens, writes)
      PROVE  FirstStays
  BY <1>2 DEF Boot, Undone, FirstStays
<1> QED BY <1>1, <1>2 DEF DeviceNext, Tick, Sync, Reset, history

LEMMA BrowserFirst == ASSUME NEW b \in Browser, BrowserNext(b) PROVE FirstStays
<1>1. CASE UNCHANGED first
  BY <1>1 DEF FirstStays
<1>2. CASE \E out : Noted(out)
  BY <1>2, NotedFirst
<1>3. CASE Leaves(b) \/ CookieGone(b) \/ PostWrongPassword(b)
  BY <1>1, <1>3 DEF Leaves, CookieGone, PostWrongPassword, LoginFails, authVars, history
<1>4. ASSUME NEW bad \in Writes, NEW lost \in BOOLEAN,
             GetSession(b, bad, lost) \/ Get(b, bad, lost) \/ PostRefused(b, bad, lost)
                 \/ PostLogout(b, bad, lost) \/ PostLogin(b, bad, lost)
                 \/ Index(b, bad) \/ PostStart(b, bad)
      PROVE  FirstStays
  BY <1>2, <1>4 DEF GetSession, Get, PostRefused, PostLogout, PostLogin, Index, PostStart,
                    SessionFromRequest, Logout, Login
<1> QED BY <1>3, <1>4 DEF BrowserNext

THEOREM FirstStampStays == Spec => [][FirstStays]_vars
<1>1. ASSUME [Next]_vars PROVE [FirstStays]_vars
  <2>1. ASSUME NEW bad \in Writes, Strangers(bad) PROVE FirstStays
    <3>1. CASE \E out : Noted(out)
      BY <3>1, NotedFirst
    <3>2. CASE LoginFails
      BY <3>2 DEF LoginFails, FirstStays
    <3> QED BY <2>1, <3>1, <3>2 DEF Strangers, Login, Logout
  <2> QED BY <1>1, <2>1, DeviceFirst, BrowserFirst DEF Next
<1> QED BY <1>1, PTL DEF Spec

\* No session is accepted later than session_ttl_s after its first stamp, which
\* every copy of the table carries, over resets, a clock that is set late and
\* writes that fail, but that of the stamp itself: where a reset undoes the
\* stamp, the age counts from the one made after it (FirstStampStays;
\* hi_auth.c:242-264).
THEOREM NoSessionOutlives == Spec => []TtlKept
<1>1. IInv => TtlKept
  <2> SUFFICES ASSUME IInv, NEW t \in Token, synced, first[t] # 0, Valid(t)
               PROVE  time - first[t] <= TTL
    BY DEF TtlKept
  <2>1. time \in 1 .. MaxTime /\ first[t] \in 0 .. MaxTime /\ Now = time /\ t # 0
        /\ TTL \in Nat
    BY AuthAssumption DEF IInv, BaseInv, Now, Valid
  <2>2. PICK i \in Slot : LookedUp(t)[i].hash = t
    BY DEF Valid, Holds
  <2>3. s_sessions[i].hash = t
    BY <2>1, <2>2, LookedUpTable DEF IInv
  <2>4. s_sessions[i].created = first[t]
    BY <2>3 DEF IInv, SessionInv, Dated
  <2>5. LookedUp(t)[i] = Looked(s_sessions[i]) /\ Stamp(s_sessions[i]) = s_sessions[i]
    BY <2>1, <2>3, <2>4 DEF LookedUp, Stamp
  <2>6. ~Expired(s_sessions[i])
    BY <2>1, <2>2, <2>5 DEF Looked, Free
  <2> QED BY <2>1, <2>4, <2>6 DEF Expired
<1> QED BY <1>1, Invariance, PTL

\* A page whose session is valid is never answered 403, unless a start without
\* NVS made up a key (hi_httpd.c:122-132).
THEOREM ValidPagesAreBelieved == Spec => []TokenMatches
<1>1. IInv => TokenMatches
  <2> SUFFICES ASSUME IInv, NEW b \in Browser,
                      on, csrf[b] # NoCsrf, Valid(cookie[b]), ~rekeyed
               PROVE  Proves(b)
    BY DEF TokenMatches
  <2>1. csrf[b] \in Int \X Int /\ csrf[b][1] = s_hmac_key /\ csrf[b][2] = cookie[b]
    BY DEF IInv, TokenInv, BrowserType, Valid
  <2>2. csrf[b] = <<s_hmac_key, cookie[b]>>
    BY <2>1
  <2> QED BY <2>2 DEF Proves, CsrfOf
<1> QED BY <1>1, Invariance, PTL
=============================================================================
