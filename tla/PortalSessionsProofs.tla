------------------------ MODULE PortalSessionsProofs ------------------------
(* Proofs about PortalSessions for any number of keys, users, sids, workers. *)
EXTENDS PortalSessions, TLAPS

-----------------------------------------------------------------------------
(* The inductive invariant, in parts. *)

Writing(w) == job[w].pc \in {"record", "bound", "save"}
Holding(w) == Writing(w) \/ job[w].pc \in {"ping", "account"}

\* A key drawn for a new session is used nowhere yet.
FreshKeysUnused ==
    /\ handed \subseteq issued
    /\ \A k \in Key :
        django_session[k] # None \/ portal_session[k] # None \/ origin[k] # None
            => k \in issued
    /\ \A w \in Worker :
        /\ Holding(w) \/ job[w].pc = "unrecord" => job[w].key \in issued
        /\ job[w].keys \union job[w].victims \subseteq issued

\* A key is handed out when its session is first saved as signed in. Until then
\* the login that has drawn it is the only request to write under it.
HandedKeysSignedIn ==
    /\ \A k \in Key :
        /\ django_session[k] # None
             => (k \in handed <=> django_session[k].user # None)
        /\ origin[k] # None => k \in handed
    /\ \A w \in Worker : Writing(w) =>
        /\ ~job[w].portal => job[w].key \notin handed
        /\ \A v \in Worker : Writing(v) /\ job[v].key = job[w].key
                             /\ job[w].key \notin handed => v = w

\* A sid that is saved, recorded, or on its way is of an account of the user it
\* goes with, and who has an account has an oldest one.
AccountsAgree ==
    /\ OldestAccounts
    /\ \A k \in Key : portal_session[k] # None =>
        social_account[SidSub[portal_session[k].sid]] = portal_session[k].user
    /\ \A k \in Key : origin[k] # None /\ django_session[k] # None =>
        social_account[SidSub[origin[k]]] = django_session[k].user
    /\ \A w \in Worker :
        (job[w].pc \in {"cycle", "account"} \/ Writing(w)) /\ job[w].sid # None
            => social_account[SidSub[job[w].sid]] = job[w].user

\* Whoever writes or reads under a key does so for one user.
OneUserPerKey ==
    /\ \A v, w \in Worker :
        Holding(v) /\ Holding(w) /\ job[v].key = job[w].key
            => job[v].user = job[w].user
    /\ \A w \in Worker : Holding(w) =>
        /\ portal_session[job[w].key] # None
            => portal_session[job[w].key].user = job[w].user
        /\ django_session[job[w].key] # None
            => \/ django_session[job[w].key].user = job[w].user
               \/ django_session[job[w].key].user = None /\ Writing(w)

\* From its record on, a login is tracked unless it was killed or lost.
SavesAreTracked ==
    \A w \in Worker :
        job[w].pc \in {"bound", "save"} /\ job[w].sid # None
            => \/ django_session[job[w].key] = None
               \/ <<job[w].key, job[w].sid>> \in lost
               \/ Tracked(job[w].key, job[w].sid)

RowsAreTracked ==
    \A k \in Key :
        django_session[k] # None /\ origin[k] # None /\ <<k, origin[k]>> \notin lost
            => Tracked(k, origin[k])

\* How far each logout has come.
LogoutProgress ==
    \A w \in Worker :
        /\ job[w].pc = "select" =>
            \A k \in job[w].victims : \/ django_session[k] = None
                                      \/ <<k, job[w].sid>> \in lost
                                      \/ origin[k] = job[w].sid
        /\ job[w].pc = "delete" =>
            \A k \in job[w].victims : \/ django_session[k] = None
                                      \/ <<k, job[w].sid>> \in lost
                                      \/ k \in job[w].keys
        /\ job[w].pc = "forget" =>
            \A k \in job[w].keys : django_session[k] = None
        /\ job[w].pc = "unrecord" => \/ django_session[job[w].key] = None
                                     \/ {job[w].key} \X Sid \subseteq lost

IInv ==
    /\ TypeOK
    /\ FreshKeysUnused
    /\ HandedKeysSignedIn
    /\ AccountsAgree
    /\ OneUserPerKey
    /\ RecordedUserIsSessionUser
    /\ SavesAreTracked
    /\ RowsAreTracked
    /\ LogoutProgress
    /\ LogoutKillsEstablished

\* The expiry a portal login is about to save ends the day too.
SavesEndAtCutoff ==
    SessionCutoffTime # None =>
        /\ \A k \in Key : django_session[k] # None /\ origin[k] # None
                            => EndsDay(django_session[k].expires, now)
        /\ \A w \in Worker : job[w].pc = "save" /\ job[w].portal
                            => /\ job[w].expiry # None
                               /\ EndsDay(job[w].expiry, now)

-----------------------------------------------------------------------------
(* Helpers *)

\* The next cutoff is a tick strictly ahead and at most a day away.
LEMMA NextCutoffAhead ==
    ASSUME NEW t \in Nat, SessionCutoffTime # None
    PROVE  /\ NextCutoff(t) \in Nat
           /\ t < NextCutoff(t)
           /\ NextCutoff(t) <= t + Day
<1>1. SessionCutoffTime \in Nat /\ SessionCutoffTime < Day /\ Day \in Nat \ {0}
  BY TimeAssumption
<1>2. t % Day \in Nat /\ t % Day < Day /\ t % Day <= t
  BY <1>1, SMTT(30)
<1> QED
  BY <1>1, <1>2 DEF NextCutoff

\* The steps that write the tables, the accounts, the clock or the history.
Quiet == UNCHANGED <<django_session, portal_session, accounts, handed, now,
                     history>>

LEMMA WritingSteps ==
    ASSUME [Next]_vars
    PROVE  \/ \E w \in Worker :
                \/ CycleKey(w) \/ RecordPortalSession(w) \/ SaveSession(w)
                \/ DeleteSessions(w)
                \/ DeletePortalSessions(w) \/ DeletePortalSession(w)
                \/ \E k \in handed : StartLocalLogout(w, k)
                \/ \E k \in handed, s \in Sid, hasSid \in BOOLEAN :
                        StartConnect(w, k, s, hasSid)
           \/ \E k \in handed : GlobalLogout(k)
           \/ Tick
           \/ Quiet
<1>1. ASSUME NEW w \in Worker, NEW k, NEW s, NEW hasSid,
             StartPortalLogin(w, k, s, hasSid)
      PROVE  Quiet
  BY <1>1 DEF StartPortalLogin, Quiet, outside
<1>2. ASSUME NEW w \in Worker, NEW k, NEW u,
             \/ StartLocalLogin(w, k, u) \/ StartPing(w, k)
             \/ StartBackchannelLogout(w, u)
      PROVE  Quiet
  BY <1>2 DEF StartLocalLogin, StartPing, StartBackchannelLogout, Quiet, outside
<1>3. ASSUME NEW w \in Worker, StartRequest(w)
      PROVE  \/ \E k \in handed : StartLocalLogout(w, k)
             \/ \E k \in handed, s \in Sid, hasSid \in BOOLEAN :
                     StartConnect(w, k, s, hasSid)
             \/ Quiet
  BY <1>1, <1>2, <1>3 DEF StartRequest
<1>4. ASSUME NEW w \in Worker,
             \/ BoundSessionToCutoff(w) \/ VerifyLogoutToken(w)
             \/ SelectSessionKeys(w) \/ PingSession(w) \/ AnswerPing(w)
             \/ RequestEnds(w)
      PROVE  Quiet
  BY <1>4 DEF BoundSessionToCutoff, VerifyLogoutToken, SelectSessionKeys,
     PingSession, AnswerPing, RequestEnds, Quiet, outside
<1>5. ASSUME \/ \E s \in Sid : PortalEnds(s)
             \/ UNCHANGED vars
      PROVE  Quiet
  BY <1>5 DEF PortalEnds, Quiet, vars, history, accounts
<1> QED
  BY <1>3, <1>4, <1>5 DEF Next, RequestStep, LoginStep, LogoutStep

-----------------------------------------------------------------------------
(* Type correctness *)

\* A request and its shape, as one type.
Job == {j \in JobFields : WellFormed(j)}

LEMMA TypeOKJob == TypeOK => job \in [Worker -> Job]
BY DEF TypeOK, Job

LEMMA PCTypes ==
    /\ "idle" \in PC /\ "cycle" \in PC /\ "record" \in PC /\ "bound" \in PC
    /\ "save" \in PC /\ "verify" \in PC /\ "select" \in PC /\ "delete" \in PC
    /\ "forget" \in PC /\ "unrecord" \in PC /\ "ping" \in PC
    /\ "account" \in PC
BY DEF PC

LEMMA IdleIsJob == Idle \in Job
BY PCTypes DEF Idle, Job, JobFields, WellFormed

\* One request changes to a well-formed one, the others stay.
LEMMA JobUpdate ==
    ASSUME TypeOK, NEW w \in Worker, NEW j \in Job,
           job' = [job EXCEPT ![w] = j]
    PROVE  job' \in [Worker -> JobFields] /\ \A v \in Worker : WellFormed(job'[v])
BY DEF TypeOK, Job

LEMMA TypeInit == Init => TypeOK
BY IdleIsJob, UserAssumption, NoneAssumption DEF Init, TypeOK, Job

\* TypeOK is inductive on its own: one case per action.
LEMMA TypeNext == TypeOK /\ [Next]_vars => TypeOK'
<1> SUFFICES ASSUME TypeOK, [Next]_vars PROVE TypeOK'
  OBVIOUS
<1> USE NoneAssumption, UserAssumption, IdleIsJob DEF accounts
<1>1. ASSUME NEW w \in Worker, NEW k \in handed \union {None}, NEW s \in Sid,
             NEW hasSid \in BOOLEAN, StartPortalLogin(w, k, s, hasSid)
      PROVE  TypeOK'
  <2>1. [Idle EXCEPT !.pc = "cycle", !.portal = TRUE, !.key = k,
                     !.user = social_account[SidSub[s]],
                     !.sid = IF hasSid THEN s ELSE None] \in Job
    <3>1. k \in Key \union {None} /\ social_account[SidSub[s]] \in User
      BY <1>1 DEF StartPortalLogin, TypeOK
    <3> QED
      BY <3>1, PCTypes DEF Idle, Job, JobFields, WellFormed
  <2> QED
    BY <1>1, <2>1, JobUpdate DEF StartPortalLogin, TypeOK, outside, history
<1>2. ASSUME NEW w \in Worker, NEW k \in handed \union {None},
             NEW u \in LocalUser, StartLocalLogin(w, k, u)
      PROVE  TypeOK'
  <2>1. [Idle EXCEPT !.pc = "cycle", !.key = k, !.user = u] \in Job
    BY PCTypes DEF Idle, Job, JobFields, WellFormed, TypeOK
  <2> QED
    BY <1>2, <2>1, JobUpdate DEF StartLocalLogin, TypeOK, outside, history
<1>3. ASSUME NEW w \in Worker, NEW k \in handed, NEW s \in Sid,
             NEW hasSid \in BOOLEAN, StartConnect(w, k, s, hasSid)
      PROVE  TypeOK'
  <2>1. k \in Key /\ django_session[k].user \in User
    BY <1>3 DEF StartConnect, Authenticated, Live, TypeOK, SessionRow
  <2>2. [Idle EXCEPT !.pc = "record", !.portal = TRUE, !.key = k,
                     !.user = django_session[k].user,
                     !.sid = IF hasSid THEN s ELSE None] \in Job
    BY <2>1, PCTypes DEF Idle, Job, JobFields, WellFormed, TypeOK
  <2>3. /\ social_account' \in [Sub -> User \union {None}]
        /\ oldest_account' \in [User -> Sub \union {None}]
    BY <1>3, <2>1 DEF StartConnect, AddAccount, TypeOK
  <2> QED
    BY <1>3, <2>2, <2>3, JobUpdate DEF StartConnect, TypeOK, history
<1>4. ASSUME NEW w \in Worker, CycleKey(w) PROVE TypeOK'
  <2> PICK fresh \in Key \ issued : CycleKey(w)!2!(fresh)
    BY <1>4 DEF CycleKey
  <2> DEFINE j == [job[w] EXCEPT !.key = fresh,
                     !.pc = IF job[w].portal THEN "record" ELSE "save"]
  <2>1. [user |-> None, expires |-> now + SessionAge] \in SessionRow
    BY TimeAssumption DEF TypeOK, SessionRow
  <2>2. django_session' \in [Key -> SessionRow \union {None}]
    BY <2>1 DEF TypeOK
  <2>3. j \in Job
    BY <1>4, PCTypes DEF CycleKey, TypeOK, Job, JobFields, WellFormed
  <2>4. job' = [job EXCEPT ![w] = j]
    BY DEF TypeOK
  <2> HIDE DEF j
  <2> QED
    BY <1>4, <2>2, <2>3, <2>4, JobUpdate DEF CycleKey, TypeOK, outside
<1>5. ASSUME NEW w \in Worker, RecordPortalSession(w) PROVE TypeOK'
  <2> DEFINE j == [job[w] EXCEPT !.pc = "bound"]
  <2>1. portal_session' \in [Key -> PortalRow \union {None}]
    <3>1. CASE job[w].sid = None
      BY <1>5, <3>1 DEF RecordPortalSession, TypeOK
    <3>2. CASE job[w].sid # None
      <4>1. job[w].sid \in Sid /\ job[w].user \in User
        BY <1>5, <3>2 DEF RecordPortalSession, TypeOK, JobFields, WellFormed
      <4>2. [sid |-> job[w].sid, user |-> job[w].user] \in PortalRow
        BY <4>1 DEF PortalRow
      <4> QED
        BY <1>5, <3>2, <4>2 DEF RecordPortalSession, TypeOK
    <3> QED
      BY <3>1, <3>2
  <2>2. /\ lost' \subseteq Key \X Sid
        /\ j \in Job
    <3>1. job[w] \in Job /\ job[w].pc = "record" /\ job[w].key \in Key
      BY <1>5, TypeOKJob DEF RecordPortalSession, Job, WellFormed
    <3>2. lost' \subseteq Key \X Sid
      BY <1>5, <3>1 DEF RecordPortalSession, TypeOK
    <3> QED
      BY <3>1, <3>2, PCTypes DEF Job, JobFields, WellFormed
  <2>3. job' = [job EXCEPT ![w] = j]
    BY <1>5 DEF RecordPortalSession, TypeOK
  <2> HIDE DEF j
  <2> QED
    BY <1>5, <2>1, <2>2, <2>3, JobUpdate
       DEF RecordPortalSession, TypeOK, outside, history
<1>6. ASSUME NEW w \in Worker, BoundSessionToCutoff(w) PROVE TypeOK'
  <2> DEFINE e == IF SessionCutoffTime = None THEN None ELSE NextCutoff(now)
             j == [job[w] EXCEPT !.pc = "save", !.expiry = e]
  <2>1. e \in Nat \union {None}
    BY NextCutoffAhead DEF TypeOK
  <2>2. job' = [job EXCEPT ![w] = j]
    BY <1>6 DEF BoundSessionToCutoff, TypeOK
  <2> HIDE DEF e
  <2>3. j \in Job
    <3>1. job[w] \in Job /\ job[w].pc = "bound"
      BY <1>6, TypeOKJob DEF BoundSessionToCutoff
    <3> QED
      BY <2>1, <3>1, PCTypes DEF Job, JobFields, WellFormed
  <2> HIDE DEF j
  <2> QED
    BY <1>6, <2>2, <2>3, JobUpdate
       DEF BoundSessionToCutoff, TypeOK, outside, history
<1>7. ASSUME NEW w \in Worker, SaveSession(w) PROVE TypeOK'
  <2>1. CASE django_session[job[w].key] = None
    BY <1>7, <2>1, JobUpdate DEF SaveSession, TypeOK, outside
  <2>2. CASE django_session[job[w].key] # None
    <3> DEFINE row == [user |-> job[w].user,
                       expires |-> IF job[w].expiry = None
                                   THEN now + SessionAge ELSE job[w].expiry]
    <3>1. job[w].key \in Key /\ job[w].user \in User
          /\ job[w].expiry \in Nat \union {None}
          /\ job[w].sid \in Sid \union {None}
      BY <1>7 DEF SaveSession, TypeOK, JobFields, WellFormed
    <3>2. row \in SessionRow
      BY <3>1, TimeAssumption DEF SessionRow, TypeOK
    <3>3. django_session' = [django_session EXCEPT ![job[w].key] = row]
      BY <1>7, <2>2 DEF SaveSession
    <3> HIDE DEF row
    <3>4. django_session' \in [Key -> SessionRow \union {None}]
      BY <3>1, <3>2, <3>3 DEF TypeOK
    <3>5. /\ handed' \subseteq Key /\ origin' \in [Key -> Sid \union {None}]
          /\ lost' \subseteq Key \X Sid
      BY <1>7, <2>2, <3>1 DEF SaveSession, TypeOK
    <3> QED
      BY <1>7, <3>4, <3>5, JobUpdate DEF SaveSession, TypeOK, outside
  <2> QED
    BY <2>1, <2>2
<1>8. ASSUME NEW w \in Worker, NEW s \in Sid, StartBackchannelLogout(w, s)
      PROVE  TypeOK'
  <2>1. [Idle EXCEPT !.pc = "verify", !.sid = s] \in Job
    BY PCTypes DEF Idle, Job, JobFields, WellFormed
  <2> QED
    BY <1>8, <2>1, JobUpdate DEF StartBackchannelLogout, TypeOK, outside, history
<1>9. ASSUME NEW w \in Worker, VerifyLogoutToken(w) PROVE TypeOK'
  <2> DEFINE established == {k \in Key : /\ django_session[k] # None
                                         /\ origin[k] = job[w].sid
                                         /\ <<k, job[w].sid>> \notin lost}
             j == [job[w] EXCEPT !.pc = "select", !.victims = established]
  <2>1. job[w] \in Job /\ job[w].pc = "verify" /\ established \subseteq Key
    BY <1>9, TypeOKJob DEF VerifyLogoutToken
  <2>2. job' = [job EXCEPT ![w] = j]
    BY <1>9 DEF VerifyLogoutToken, TypeOK
  <2> HIDE DEF established
  <2>3. j \in Job
    BY <2>1, PCTypes DEF Job, JobFields, WellFormed
  <2> HIDE DEF j
  <2> QED
    BY <1>9, <2>2, <2>3, JobUpdate
       DEF VerifyLogoutToken, TypeOK, outside, history
<1>10. ASSUME NEW w \in Worker, SelectSessionKeys(w) PROVE TypeOK'
  <2> DEFINE j == [job[w] EXCEPT !.pc = "delete",
                            !.keys = KeysOf(job[w].sid)]
  <2>1. job[w] \in Job /\ job[w].pc = "select"
    BY <1>10, TypeOKJob DEF SelectSessionKeys
  <2>2. KeysOf(job[w].sid) \subseteq Key
    BY DEF KeysOf
  <2>3. job' = [job EXCEPT ![w] = j]
    BY <1>10 DEF SelectSessionKeys, TypeOK
  <2>4. j \in Job
    BY <2>1, <2>2, PCTypes DEF Job, JobFields, WellFormed
  <2> HIDE DEF j
  <2> QED
    BY <1>10, <2>3, <2>4, JobUpdate
       DEF SelectSessionKeys, TypeOK, outside, history
<1>11. ASSUME NEW w \in Worker, DeleteSessions(w) PROVE TypeOK'
  <2> DEFINE j == [job[w] EXCEPT !.pc = "forget"]
  <2>1. j \in Job
    BY <1>11, PCTypes
       DEF DeleteSessions, TypeOK, Job, JobFields, WellFormed
  <2>2. job' = [job EXCEPT ![w] = j]
    BY <1>11 DEF DeleteSessions, TypeOK
  <2> HIDE DEF j
  <2> QED
    BY <1>11, <2>1, <2>2, JobUpdate
       DEF DeleteSessions, TypeOK, outside, history
<1>12. ASSUME NEW w \in Worker, DeletePortalSessions(w) PROVE TypeOK'
  <2>1. job[w].sid \in Sid
    BY <1>12 DEF DeletePortalSessions, TypeOK, WellFormed
  <2> QED
    BY <1>12, <2>1, JobUpdate DEF DeletePortalSessions, TypeOK, outside, KeysOf
<1>13. ASSUME NEW w \in Worker, NEW k \in handed, StartLocalLogout(w, k)
       PROVE  TypeOK'
  <2>1. [Idle EXCEPT !.pc = "unrecord", !.key = k] \in Job
    BY PCTypes DEF Idle, Job, JobFields, WellFormed, TypeOK
  <2> QED
    BY <1>13, <2>1, JobUpdate DEF StartLocalLogout, Flush, TypeOK, outside
<1>14. ASSUME NEW w \in Worker, DeletePortalSession(w) PROVE TypeOK'
  BY <1>14, JobUpdate DEF DeletePortalSession, TypeOK, outside, history
<1>15. ASSUME NEW k \in handed, GlobalLogout(k) PROVE TypeOK'
  BY <1>15 DEF GlobalLogout, Flush, TypeOK, outside, history
<1>16. ASSUME NEW w \in Worker, NEW k \in handed, StartPing(w, k) PROVE TypeOK'
  <2>1. [Idle EXCEPT !.pc = "ping", !.key = k,
                     !.user = django_session[k].user] \in Job
    <3>1. k \in Key /\ django_session[k].user \in User
      BY <1>16 DEF StartPing, Authenticated, Live, TypeOK, SessionRow
    <3> QED
      BY <3>1, PCTypes DEF Idle, Job, JobFields, WellFormed
  <2> QED
    BY <1>16, <2>1, JobUpdate DEF StartPing, TypeOK, outside, history
<1>21. ASSUME NEW w \in Worker, PingSession(w) PROVE TypeOK'
  <2> DEFINE row == portal_session[job[w].key]
             j == [job[w] EXCEPT !.pc = "account",
                                 !.sid = IF row = None THEN None ELSE row.sid]
  <2>1. job[w] \in Job /\ job[w].pc = "ping"
    BY <1>21, TypeOKJob DEF PingSession
  <2>4. (IF row = None THEN None ELSE row.sid) \in Sid \union {None}
    BY <2>1 DEF TypeOK, PortalRow, Job, WellFormed
  <2> HIDE DEF row
  <2>2. j \in Job
    BY <2>1, <2>4, PCTypes DEF Job, JobFields, WellFormed
  <2>3. job' = [job EXCEPT ![w] = j]
    BY <1>21 DEF PingSession, TypeOK, row
  <2> HIDE DEF j
  <2> QED
    BY <1>21, <2>2, <2>3, JobUpdate DEF PingSession, TypeOK, outside, history
<1>17. ASSUME NEW w \in Worker, AnswerPing(w) \/ RequestEnds(w) PROVE TypeOK'
  BY <1>17, JobUpdate DEF AnswerPing, RequestEnds, TypeOK, outside, history
<1>18. ASSUME NEW s \in Sid, PortalEnds(s) PROVE TypeOK'
  BY <1>18 DEF PortalEnds, TypeOK, history
<1>19. CASE Tick
  BY <1>19 DEF Tick, TypeOK, history
<1>20. CASE UNCHANGED vars
  BY <1>20 DEF vars, TypeOK
<1> QED
  BY <1>1, <1>2, <1>3, <1>4, <1>5, <1>6, <1>7, <1>8, <1>9, <1>10, <1>11, <1>12,
     <1>13, <1>14, <1>15, <1>16, <1>17, <1>18, <1>19, <1>20, <1>21
     DEF Next, StartRequest, RequestStep, LoginStep, LogoutStep

\* Every reachable state has the types TypeOK gives: no request saves, records
\* or deletes under a key, user or sid it does not hold.
THEOREM TypeCorrect == Spec => []TypeOK
<1> QED
  BY TypeInit, TypeNext, PTL DEF Spec

-----------------------------------------------------------------------------
(* A session that is gone stays gone *)

\* Only login() inserts a session row, under a key never drawn before; the
\* save at the end of a request updates a row that exists.
LEMMA GoneNext ==
    ASSUME TypeOK, [Next]_vars, NEW k \in Key, Gone(k)
    PROVE  Gone(k)'
<1> USE DEF Gone
<1>1. ASSUME NEW w \in Worker, CycleKey(w) PROVE Gone(k)'
  <2> PICK fresh \in Key \ issued : CycleKey(w)!2!(fresh)
    BY <1>1 DEF CycleKey
  <2> QED
    OBVIOUS
<1>2. ASSUME NEW w \in Worker, SaveSession(w) PROVE Gone(k)'
  BY <1>2 DEF SaveSession, TypeOK
<1>3. ASSUME NEW w \in Worker, DeleteSessions(w) PROVE Gone(k)'
  BY <1>3 DEF DeleteSessions, history
<1>4. ASSUME NEW w \in Worker, NEW l \in handed, StartLocalLogout(w, l)
      PROVE  Gone(k)'
  BY <1>4 DEF StartLocalLogout, Flush, TypeOK
<1>5. ASSUME NEW l \in handed, GlobalLogout(l) PROVE Gone(k)'
  BY <1>5 DEF GlobalLogout, Flush, TypeOK, history
<1>6. CASE UNCHANGED <<django_session, issued>>
  BY <1>6
<1> QED
  BY <1>1, <1>2, <1>3, <1>4, <1>5, <1>6, WritingSteps
     DEF Quiet, history, RecordPortalSession, DeletePortalSessions,
         DeletePortalSession, StartConnect, Tick

\* NoResurrection for every number of concurrent requests: whatever logout
\* deletes a session row, no login, connect or save brings that row back.
THEOREM DeletedSessionsStayDeleted == Spec => NoResurrection
<1>1. TypeOK /\ [Next]_vars => [\A k \in Key : Gone(k) => Gone(k)']_vars
  BY GoneNext
<1> QED
  BY <1>1, TypeCorrect, PTL DEF Spec, NoResurrection

-----------------------------------------------------------------------------
(* The inductive invariant: one lemma per action, one step per conjunct.     *)

\* A request that starts holds no key of its own yet.
LEMMA StartPortalLoginInv ==
    ASSUME IInv, NEW w \in Worker, NEW k \in handed \union {None},
           NEW s \in Sid, NEW hasSid \in BOOLEAN,
           StartPortalLogin(w, k, s, hasSid)
    PROVE  IInv'
<1> USE DEF Holding, Writing, Tracked, accounts
<1>1. TypeOK /\ TypeOK'
  BY TypeNext DEF IInv, Next, StartRequest, RequestStep, LoginStep, LogoutStep
<1>2. /\ job'[w].pc = "cycle"
      /\ job'[w].portal = TRUE
      /\ job'[w].key = k
      /\ job'[w].user = social_account[SidSub[s]]
      /\ job'[w].sid = IF hasSid THEN s ELSE None
      /\ job'[w].keys = {}
      /\ job'[w].victims = {}
      /\ \A v \in Worker : v # w => job'[v] = job[v]
  BY <1>1 DEF StartPortalLogin, Idle, TypeOK, JobFields
<1>3. UNCHANGED <<django_session, portal_session, social_account,
                 oldest_account, handed, origin, lost, issued>>
  BY DEF StartPortalLogin, outside, history
<1>4. FreshKeysUnused'
  BY <1>1, <1>2, <1>3
     DEF IInv, FreshKeysUnused, TypeOK
<1>5. HandedKeysSignedIn'
  BY <1>1, <1>2, <1>3
     DEF IInv, HandedKeysSignedIn, TypeOK
<1>6. AccountsAgree'
  BY <1>1, <1>2, <1>3
     DEF IInv, AccountsAgree, OldestAccounts, TypeOK
<1>7. OneUserPerKey'
  BY <1>1, <1>2, <1>3
     DEF IInv, OneUserPerKey, TypeOK
<1>8. RecordedUserIsSessionUser'
  BY <1>1, <1>2, <1>3
     DEF IInv, RecordedUserIsSessionUser, TypeOK
<1>9. SavesAreTracked'
  BY <1>1, <1>2, <1>3
     DEF IInv, SavesAreTracked, TypeOK
<1>10. RowsAreTracked'
  BY <1>1, <1>2, <1>3
     DEF IInv, RowsAreTracked, TypeOK
<1>11. LogoutProgress'
  BY <1>1, <1>2, <1>3
     DEF IInv, LogoutProgress, TypeOK
<1>12. LogoutKillsEstablished'
  BY <1>1, <1>2, <1>3
     DEF IInv, LogoutKillsEstablished, TypeOK
<1> QED
  BY <1>1, <1>4, <1>5, <1>6, <1>7, <1>8, <1>9, <1>10, <1>11, <1>12 DEF IInv

\* Nor does one that does not come from the portal.
LEMMA StartLocalLoginInv ==
    ASSUME IInv, NEW w \in Worker, NEW k \in handed \union {None},
           NEW u \in LocalUser,
           StartLocalLogin(w, k, u)
    PROVE  IInv'
<1> USE DEF Holding, Writing, Tracked, accounts
<1>1. TypeOK /\ TypeOK'
  BY TypeNext DEF IInv, Next, StartRequest, RequestStep, LoginStep, LogoutStep
<1>2. /\ job'[w].pc = "cycle"
      /\ job'[w].portal = FALSE
      /\ job'[w].key = k
      /\ job'[w].user = u
      /\ job'[w].sid = None
      /\ job'[w].keys = {}
      /\ job'[w].victims = {}
      /\ \A v \in Worker : v # w => job'[v] = job[v]
  BY <1>1 DEF StartLocalLogin, Idle, TypeOK, JobFields
<1>3. UNCHANGED <<django_session, portal_session, social_account,
                 oldest_account, handed, origin, lost, issued>>
  BY DEF StartLocalLogin, outside, history
<1>4. FreshKeysUnused'
  BY <1>1, <1>2, <1>3
     DEF IInv, FreshKeysUnused, TypeOK
<1>5. HandedKeysSignedIn'
  BY <1>1, <1>2, <1>3
     DEF IInv, HandedKeysSignedIn, TypeOK
<1>6. AccountsAgree'
  BY <1>1, <1>2, <1>3
     DEF IInv, AccountsAgree, OldestAccounts, TypeOK
<1>7. OneUserPerKey'
  BY <1>1, <1>2, <1>3
     DEF IInv, OneUserPerKey, TypeOK
<1>8. RecordedUserIsSessionUser'
  BY <1>1, <1>2, <1>3
     DEF IInv, RecordedUserIsSessionUser, TypeOK
<1>9. SavesAreTracked'
  BY <1>1, <1>2, <1>3
     DEF IInv, SavesAreTracked, TypeOK
<1>10. RowsAreTracked'
  BY <1>1, <1>2, <1>3
     DEF IInv, RowsAreTracked, TypeOK
<1>11. LogoutProgress'
  BY <1>1, <1>2, <1>3
     DEF IInv, LogoutProgress, TypeOK
<1>12. LogoutKillsEstablished'
  BY <1>1, <1>2, <1>3
     DEF IInv, LogoutKillsEstablished, TypeOK
<1> QED
  BY <1>1, <1>4, <1>5, <1>6, <1>7, <1>8, <1>9, <1>10, <1>11, <1>12 DEF IInv

\* The account is nobody's, so it joins no pair of an account and its user; the
\* session is signed in, so whoever else writes under its key has the same user.
LEMMA StartConnectInv ==
    ASSUME IInv, NEW w \in Worker, NEW k \in handed, NEW s \in Sid,
           NEW hasSid \in BOOLEAN,
           StartConnect(w, k, s, hasSid)
    PROVE  IInv'
<1> USE DEF Holding, Writing, Tracked, accounts
<1>1. TypeOK /\ TypeOK'
  BY TypeNext DEF IInv, Next, StartRequest, RequestStep, LoginStep, LogoutStep
<1>2. /\ job'[w].pc = "record"
      /\ job'[w].portal = TRUE
      /\ job'[w].key = k
      /\ job'[w].user = django_session[k].user
      /\ job'[w].sid = IF hasSid THEN s ELSE None
      /\ job'[w].keys = {}
      /\ job'[w].victims = {}
      /\ \A v \in Worker : v # w => job'[v] = job[v]
  BY <1>1 DEF StartConnect, Idle, TypeOK, JobFields
<1>3. UNCHANGED <<django_session, portal_session, handed, origin, lost, issued>>
  BY DEF StartConnect, outside, history
<1>4. FreshKeysUnused'
  BY <1>1, <1>2, <1>3
     DEF IInv, FreshKeysUnused, TypeOK
<1>5. HandedKeysSignedIn'
  BY <1>1, <1>2, <1>3
     DEF IInv, HandedKeysSignedIn, TypeOK
<1>6. AccountsAgree'
  <2>1. /\ k \in Key /\ SidSub[s] \in Sub /\ social_account[SidSub[s]] = None
        /\ django_session[k].user \in User
        /\ social_account' = [social_account EXCEPT ![SidSub[s]] =
                                django_session[k].user]
    BY <1>1, UserAssumption
       DEF StartConnect, AddAccount, Authenticated, Live, TypeOK, SessionRow
  <2>2. \A p \in Sub : social_account[p] # None => social_account'[p] = social_account[p]
    BY <1>1, <2>1 DEF TypeOK
  <2>3. \A u \in User : social_account'[SidSub[s]] = django_session[k].user
    BY <1>1, <2>1 DEF TypeOK
  <2>4. OldestAccounts'
    <3> SUFFICES ASSUME NEW u \in User
                 PROVE  IF oldest_account'[u] = None
                        THEN \A p \in Sub : social_account'[p] # u
                        ELSE social_account'[oldest_account'[u]] = u
      BY DEF OldestAccounts
    <3>1. IF oldest_account[u] = None THEN \A p \in Sub : social_account[p] # u
                                      ELSE social_account[oldest_account[u]] = u
      BY DEF IInv, AccountsAgree, OldestAccounts
    <3>2. CASE u = django_session[k].user
      BY <1>1, <2>1, <2>2, <3>1, <3>2, NoneAssumption
         DEF StartConnect, AddAccount, TypeOK
    <3>3. CASE u # django_session[k].user
      <4>1. oldest_account'[u] = oldest_account[u]
        BY <1>1, <3>3 DEF StartConnect, AddAccount, TypeOK
      <4> QED
        BY <1>1, <2>1, <2>2, <3>1, <3>3, <4>1, NoneAssumption DEF TypeOK
    <3> QED
      BY <3>2, <3>3
  <2>5. \A l \in Key : portal_session'[l] # None =>
          social_account'[SidSub[portal_session'[l].sid]] = portal_session'[l].user
    <3> SUFFICES ASSUME NEW l \in Key, portal_session[l] # None
                 PROVE  social_account'[SidSub[portal_session[l].sid]]
                          = portal_session[l].user
      BY <1>3
    <3>1. portal_session[l].sid \in Sid /\ portal_session[l].user \in User
      BY <1>1 DEF TypeOK, PortalRow
    <3>2. SidSub[portal_session[l].sid] \in Sub
      BY <3>1, UserAssumption
    <3> QED
      BY <2>2, <3>1, <3>2, NoneAssumption DEF IInv, AccountsAgree
  <2>6. \A l \in Key : origin'[l] # None /\ django_session'[l] # None =>
          social_account'[SidSub[origin'[l]]] = django_session'[l].user
    <3> SUFFICES ASSUME NEW l \in Key, origin[l] # None, django_session[l] # None
                 PROVE  social_account'[SidSub[origin[l]]] = django_session[l].user
      BY <1>3
    <3>1. SidSub[origin[l]] \in Sub
      BY <1>1, UserAssumption DEF TypeOK
    <3>2. django_session[l].user # None
      BY DEF IInv, HandedKeysSignedIn
    <3> QED
      BY <2>2, <3>1, <3>2 DEF IInv, AccountsAgree
  <2>7. ASSUME NEW v \in Worker, job'[v].sid # None,
               job'[v].pc \in {"cycle", "account"} \/ Writing(v)'
        PROVE  social_account'[SidSub[job'[v].sid]] = job'[v].user
    <3>1. CASE v = w
      BY <1>2, <2>3, <2>7, <2>1, <3>1
    <3>2. CASE v # w
      <4>1. job'[v] = job[v] /\ job[v].sid \in Sid /\ job[v].user \in User
        BY <1>1, <1>2, <2>7, <3>2 DEF TypeOK, JobFields, WellFormed
      <4>2. SidSub[job[v].sid] \in Sub
        BY <4>1, UserAssumption
      <4> QED
        BY <2>2, <2>7, <4>1, <4>2, NoneAssumption DEF IInv, AccountsAgree
    <3> QED
      BY <3>1, <3>2
  <2> QED
    BY <2>4, <2>5, <2>6, <2>7 DEF AccountsAgree
<1>7. OneUserPerKey'
  BY <1>1, <1>2, <1>3
     DEF IInv, OneUserPerKey, RecordedUserIsSessionUser, StartConnect,
         Authenticated, Live, TypeOK
<1>8. RecordedUserIsSessionUser'
  BY <1>1, <1>2, <1>3
     DEF IInv, RecordedUserIsSessionUser, TypeOK
<1>9. SavesAreTracked'
  BY <1>1, <1>2, <1>3
     DEF IInv, SavesAreTracked, TypeOK
<1>10. RowsAreTracked'
  BY <1>1, <1>2, <1>3
     DEF IInv, RowsAreTracked, TypeOK
<1>11. LogoutProgress'
  BY <1>1, <1>2, <1>3
     DEF IInv, LogoutProgress, TypeOK
<1>12. LogoutKillsEstablished'
  BY <1>1, <1>2, <1>3
     DEF IInv, LogoutKillsEstablished, TypeOK
<1> QED
  BY <1>1, <1>4, <1>5, <1>6, <1>7, <1>8, <1>9, <1>10, <1>11, <1>12 DEF IInv

\* The fresh key is used nowhere.
LEMMA CycleKeyInv ==
    ASSUME IInv, NEW w \in Worker,
           CycleKey(w)
    PROVE  IInv'
<1> USE DEF Holding, Writing, Tracked, accounts
<1>1. TypeOK /\ TypeOK'
  BY TypeNext DEF IInv, Next, StartRequest, RequestStep, LoginStep, LogoutStep
<1>2. UNCHANGED <<portal_session, social_account, oldest_account, handed,
                 origin, lost>>
  BY DEF CycleKey, outside, history
<1>3. FreshKeysUnused'
  BY <1>1, <1>2
     DEF IInv, FreshKeysUnused, CycleKey, WellFormed, TypeOK
<1>4. HandedKeysSignedIn'
  BY <1>1, <1>2
     DEF IInv, HandedKeysSignedIn, FreshKeysUnused, CycleKey, WellFormed, TypeOK
<1>5. AccountsAgree'
  BY <1>1, <1>2
     DEF IInv, AccountsAgree, OldestAccounts, FreshKeysUnused, CycleKey, WellFormed,
         TypeOK
<1>6. OneUserPerKey'
  BY <1>1, <1>2
     DEF IInv, OneUserPerKey, FreshKeysUnused, CycleKey, WellFormed,
         RecordedUserIsSessionUser, TypeOK
<1>7. RecordedUserIsSessionUser'
  BY <1>1, <1>2
     DEF IInv, RecordedUserIsSessionUser, FreshKeysUnused, CycleKey, WellFormed,
         TypeOK
<1>8. SavesAreTracked'
  BY <1>1, <1>2
     DEF IInv, SavesAreTracked, FreshKeysUnused, CycleKey, WellFormed, TypeOK
<1>9. RowsAreTracked'
  BY <1>1, <1>2
     DEF IInv, RowsAreTracked, FreshKeysUnused, CycleKey, WellFormed, TypeOK
<1>10. LogoutProgress'
  BY <1>1, <1>2
     DEF IInv, LogoutProgress, FreshKeysUnused, CycleKey, WellFormed, TypeOK
<1>11. LogoutKillsEstablished'
  BY <1>1, <1>2
     DEF IInv, LogoutKillsEstablished, FreshKeysUnused, CycleKey, WellFormed, TypeOK
<1> QED
  BY <1>1, <1>3, <1>4, <1>5, <1>6, <1>7, <1>8, <1>9, <1>10, <1>11 DEF IInv

\* Recording tracks the key under the sid of the request, and is noted for any
\* sid that it was tracked under before.
LEMMA RecordTracks ==
    ASSUME TypeOK, NEW w \in Worker, RecordPortalSession(w)
    PROVE  /\ lost \subseteq lost'
           /\ job[w].sid # None => Tracked(job[w].key, job[w].sid)'
           /\ \A k \in Key, s \in Sid :
                Tracked(k, s) => Tracked(k, s)' \/ <<k, s>> \in lost'
<1>1. CASE job[w].sid = None
  BY <1>1 DEF RecordPortalSession, Tracked
<1>2. CASE job[w].sid # None
  <2> DEFINE row == [sid |-> job[w].sid, user |-> job[w].user]
  <2>1. job[w].key \in Key /\ row \in PortalRow
    BY <1>2 DEF RecordPortalSession, TypeOK, JobFields, WellFormed, PortalRow
  <2>2. row # None /\ row.sid = job[w].sid
    BY <2>1, NoneAssumption
  <2>3. /\ portal_session' = [portal_session EXCEPT ![job[w].key] = row]
        /\ lost' = lost \union ({job[w].key} \X
                     {s \in Sid \ {job[w].sid} : Tracked(job[w].key, s)})
    BY <1>2 DEF RecordPortalSession
  <2> HIDE DEF row
  <2>4. /\ portal_session'[job[w].key] = row
        /\ \A k \in Key \ {job[w].key} : portal_session'[k] = portal_session[k]
    BY <2>1, <2>3 DEF TypeOK
  <2>5. Tracked(job[w].key, job[w].sid)'
    BY <2>2, <2>4 DEF Tracked, RecordPortalSession
  <2>6. ASSUME NEW k \in Key, NEW s \in Sid, Tracked(k, s)
        PROVE  Tracked(k, s)' \/ <<k, s>> \in lost'
    BY <2>2, <2>3, <2>4, <2>6 DEF Tracked
  <2> QED
    BY <2>3, <2>5, <2>6
<1> QED
  BY <1>1, <1>2

\* A row that is moved is lost for the sid it had.
LEMMA RecordPortalSessionInv ==
    ASSUME IInv, NEW w \in Worker,
           RecordPortalSession(w)
    PROVE  IInv'
<1> USE DEF Holding, Writing, Tracked, accounts
<1>1. TypeOK /\ TypeOK'
  BY TypeNext DEF IInv, Next, StartRequest, RequestStep, LoginStep, LogoutStep
<1>2. /\ job'[w].pc = "bound"
      /\ job'[w].portal = job[w].portal
      /\ job'[w].key = job[w].key
      /\ job'[w].user = job[w].user
      /\ job'[w].sid = job[w].sid
      /\ job'[w].keys = job[w].keys
      /\ job'[w].victims = job[w].victims
      /\ \A v \in Worker : v # w => job'[v] = job[v]
  BY <1>1 DEF RecordPortalSession, Idle, TypeOK, JobFields
<1>3. UNCHANGED <<django_session, social_account, oldest_account, handed,
                 origin, issued>>
  BY DEF RecordPortalSession, outside, history
<1>4. FreshKeysUnused'
  BY <1>1, <1>2, <1>3
     DEF IInv, FreshKeysUnused, RecordPortalSession, WellFormed, TypeOK
<1>5. HandedKeysSignedIn'
  BY <1>1, <1>2, <1>3
     DEF IInv, HandedKeysSignedIn, RecordPortalSession, WellFormed, TypeOK
<1>6. AccountsAgree'
  <2>1. \A k \in Key :
          \/ portal_session'[k] = portal_session[k]
          \/ /\ job[w].sid # None
             /\ portal_session'[k] = [sid |-> job[w].sid, user |-> job[w].user]
    BY <1>1 DEF RecordPortalSession, TypeOK
  <2> QED
    BY <1>1, <1>2, <1>3, <2>1
       DEF IInv, AccountsAgree, OldestAccounts, RecordPortalSession
<1>7. OneUserPerKey'
  <2>1. \A k \in Key :
          \/ portal_session'[k] = portal_session[k]
          \/ /\ k = job[w].key
             /\ portal_session'[k] = [sid |-> job[w].sid, user |-> job[w].user]
    BY <1>1 DEF RecordPortalSession, TypeOK
  <2>2. \A v \in Worker : Holding(v) => job[v].key \in Key
    BY <1>1 DEF IInv, FreshKeysUnused, TypeOK
  <2> QED
    BY <1>1, <1>2, <1>3, <2>1, <2>2, NoneAssumption
       DEF IInv, OneUserPerKey, RecordPortalSession
<1>8. RecordedUserIsSessionUser'
  BY <1>1, <1>2, <1>3
     DEF IInv, RecordedUserIsSessionUser, FreshKeysUnused, OneUserPerKey,
         RecordPortalSession, WellFormed, TypeOK
<1>9. SavesAreTracked'
  <2> SUFFICES ASSUME NEW v \in Worker, job'[v].pc \in {"bound", "save"},
                      job'[v].sid # None
               PROVE  \/ django_session'[job'[v].key] = None
                      \/ <<job'[v].key, job'[v].sid>> \in lost'
                      \/ Tracked(job[v].key, job[v].sid)'
    BY DEF SavesAreTracked
  <2>1. job[w].key \in Key /\ job[w].pc = "record"
    BY <1>1 DEF RecordPortalSession, TypeOK, WellFormed
  <2>2. CASE v = w
    BY <1>1, <1>2, <2>1, <2>2, RecordTracks
  <2>3. CASE v # w
    <3>1. /\ job[v].pc \in {"bound", "save"} /\ job'[v] = job[v]
          /\ job[v].sid \in Sid /\ job[v].key \in Key
      BY <1>1, <1>2, <2>3 DEF TypeOK, JobFields, WellFormed
    <3>2. \/ django_session[job[v].key] = None
          \/ <<job[v].key, job[v].sid>> \in lost
          \/ Tracked(job[v].key, job[v].sid)
      BY <3>1, NoneAssumption DEF IInv, SavesAreTracked
    <3> QED
      BY <1>1, <1>3, <3>1, <3>2, RecordTracks
  <2> QED
    BY <2>2, <2>3
<1>10. RowsAreTracked'
  <2> SUFFICES ASSUME NEW k \in Key, django_session[k] # None,
                      origin[k] # None, <<k, origin[k]>> \notin lost'
               PROVE  Tracked(k, origin[k])'
    BY <1>3 DEF RowsAreTracked
  <2>1. origin[k] \in Sid
    BY <1>1 DEF TypeOK
  <2> QED
    BY <1>1, <1>3, <2>1, RecordTracks DEF IInv, RowsAreTracked
<1>11. LogoutProgress'
  BY <1>1, <1>2, <1>3
     DEF IInv, LogoutProgress, RecordPortalSession, WellFormed, TypeOK
<1>12. LogoutKillsEstablished'
  BY <1>1, <1>2, <1>3
     DEF IInv, LogoutKillsEstablished, RecordPortalSession, WellFormed, TypeOK
<1> QED
  BY <1>1, <1>4, <1>5, <1>6, <1>7, <1>8, <1>9, <1>10, <1>11, <1>12 DEF IInv

\* The cutoff is computed in memory.
LEMMA BoundSessionToCutoffInv ==
    ASSUME IInv, NEW w \in Worker,
           BoundSessionToCutoff(w)
    PROVE  IInv'
<1> USE DEF Holding, Writing, Tracked, accounts
<1>1. TypeOK /\ TypeOK'
  BY TypeNext DEF IInv, Next, StartRequest, RequestStep, LoginStep, LogoutStep
<1>2. /\ job'[w].pc = "save"
      /\ job'[w].portal = job[w].portal
      /\ job'[w].key = job[w].key
      /\ job'[w].user = job[w].user
      /\ job'[w].sid = job[w].sid
      /\ job'[w].keys = job[w].keys
      /\ job'[w].victims = job[w].victims
      /\ \A v \in Worker : v # w => job'[v] = job[v]
  BY <1>1 DEF BoundSessionToCutoff, Idle, TypeOK, JobFields
<1>3. UNCHANGED <<django_session, portal_session, social_account,
                 oldest_account, handed, origin, lost, issued>>
  BY DEF BoundSessionToCutoff, outside, history
<1>4. FreshKeysUnused'
  BY <1>1, <1>2, <1>3
     DEF IInv, FreshKeysUnused, BoundSessionToCutoff, TypeOK
<1>5. HandedKeysSignedIn'
  BY <1>1, <1>2, <1>3
     DEF IInv, HandedKeysSignedIn, BoundSessionToCutoff, TypeOK
<1>6. AccountsAgree'
  BY <1>1, <1>2, <1>3
     DEF IInv, AccountsAgree, OldestAccounts, BoundSessionToCutoff, TypeOK
<1>7. OneUserPerKey'
  BY <1>1, <1>2, <1>3
     DEF IInv, OneUserPerKey, BoundSessionToCutoff, TypeOK
<1>8. RecordedUserIsSessionUser'
  BY <1>1, <1>2, <1>3
     DEF IInv, RecordedUserIsSessionUser, TypeOK
<1>9. SavesAreTracked'
  BY <1>1, <1>2, <1>3
     DEF IInv, SavesAreTracked, BoundSessionToCutoff, TypeOK
<1>10. RowsAreTracked'
  BY <1>1, <1>2, <1>3
     DEF IInv, RowsAreTracked, TypeOK
<1>11. LogoutProgress'
  BY <1>1, <1>2, <1>3
     DEF IInv, LogoutProgress, TypeOK
<1>12. LogoutKillsEstablished'
  BY <1>1, <1>2, <1>3
     DEF IInv, LogoutKillsEstablished, TypeOK
<1> QED
  BY <1>1, <1>4, <1>5, <1>6, <1>7, <1>8, <1>9, <1>10, <1>11, <1>12 DEF IInv

\* What is saved was recorded before, or killed, or lost.
LEMMA SaveSessionInv ==
    ASSUME IInv, NEW w \in Worker,
           SaveSession(w)
    PROVE  IInv'
<1> USE DEF Holding, Writing, Tracked, accounts
<1>1. TypeOK /\ TypeOK'
  BY TypeNext DEF IInv, Next, StartRequest, RequestStep, LoginStep, LogoutStep
<1>2. /\ job'[w].pc = "idle"
      /\ job'[w].portal = FALSE
      /\ job'[w].key = None
      /\ job'[w].user = None
      /\ job'[w].sid = None
      /\ job'[w].keys = {}
      /\ job'[w].victims = {}
      /\ \A v \in Worker : v # w => job'[v] = job[v]
  BY <1>1 DEF SaveSession, Idle, TypeOK, JobFields
<1>3. UNCHANGED <<portal_session, social_account, oldest_account, issued>>
  BY DEF SaveSession, outside, history
<1>4. FreshKeysUnused'
  BY <1>1, <1>2, <1>3
     DEF IInv, FreshKeysUnused, SaveSession, JobFields, WellFormed, TypeOK
<1>5. HandedKeysSignedIn'
  <2>1. job[w].key \in Key /\ job[w].user # None /\ Writing(w)
    BY <1>1, NoneAssumption DEF SaveSession, TypeOK, WellFormed
  <2>2. CASE django_session[job[w].key] = None
    BY <1>2, <1>3, <2>2 DEF IInv, HandedKeysSignedIn, SaveSession
  <2>3. CASE django_session[job[w].key] # None
    <3>1. /\ django_session'[job[w].key] # None
          /\ django_session'[job[w].key].user = job[w].user
          /\ \A k \in Key : k # job[w].key =>
                /\ django_session'[k] = django_session[k]
                /\ origin'[k] = origin[k]
          /\ handed' = handed \union {job[w].key}
      <4> DEFINE row == [user |-> job[w].user,
                         expires |-> IF job[w].expiry = None
                                     THEN now + SessionAge ELSE job[w].expiry]
      <4>1. row \in SessionRow /\ row.user = job[w].user
        BY <1>1, <2>1, NoneAssumption, TimeAssumption
           DEF TypeOK, JobFields, SessionRow, WellFormed
      <4>2. /\ django_session' = [django_session EXCEPT ![job[w].key] = row]
            /\ handed' = handed \union {job[w].key}
            /\ origin' \in {origin, [origin EXCEPT ![job[w].key] = job[w].sid]}
        BY <2>3 DEF SaveSession
      <4> HIDE DEF row
      <4> QED
        BY <1>1, <2>1, <4>1, <4>2, NoneAssumption DEF TypeOK
    <3>2. \A k \in Key :
            /\ django_session'[k] # None
                 => (k \in handed' <=> django_session'[k].user # None)
            /\ origin'[k] # None => k \in handed'
      BY <2>1, <3>1 DEF IInv, HandedKeysSignedIn
    <3>3. ASSUME NEW v \in Worker, Writing(v)'
          PROVE  /\ ~job'[v].portal => job'[v].key \notin handed'
                 /\ \A u \in Worker : Writing(u)' /\ job'[u].key = job'[v].key
                                      /\ job'[v].key \notin handed' => u = v
      <4>1. v # w /\ job'[v] = job[v] /\ Writing(v)
        BY <1>2, <3>3
      <4>2. ~job[v].portal => job[v].key \notin handed /\ job[v].key # job[w].key
        BY <2>1, <4>1 DEF IInv, HandedKeysSignedIn
      <4>3. \A u \in Worker : Writing(u)' => job'[u] = job[u] /\ Writing(u)
        BY <1>2
      <4> QED
        BY <3>1, <4>1, <4>2, <4>3 DEF IInv, HandedKeysSignedIn
    <3> QED
      BY <3>2, <3>3 DEF HandedKeysSignedIn
  <2> QED
    BY <2>2, <2>3
<1>6. AccountsAgree'
  BY <1>1, <1>2, <1>3
     DEF IInv, AccountsAgree, OldestAccounts, SaveSession, FreshKeysUnused,
         JobFields, WellFormed, HandedKeysSignedIn, OneUserPerKey, TypeOK
<1>7. OneUserPerKey'
  BY <1>1, <1>2, <1>3
     DEF IInv, OneUserPerKey, SaveSession, FreshKeysUnused, JobFields, WellFormed,
         TypeOK
<1>8. RecordedUserIsSessionUser'
  BY <1>1, <1>2, <1>3
     DEF IInv, RecordedUserIsSessionUser, SaveSession, FreshKeysUnused, JobFields,
         WellFormed, OneUserPerKey, TypeOK
<1>9. SavesAreTracked'
  BY <1>1, <1>2, <1>3
     DEF IInv, SavesAreTracked, SaveSession, FreshKeysUnused, JobFields, WellFormed,
         TypeOK
<1>10. RowsAreTracked'
  BY <1>1, <1>2, <1>3
     DEF IInv, RowsAreTracked, SaveSession, FreshKeysUnused, JobFields, WellFormed,
         SavesAreTracked, TypeOK
<1>11. LogoutProgress'
  BY <1>1, <1>2, <1>3, NoneAssumption
     DEF IInv, LogoutProgress, SaveSession, FreshKeysUnused, JobFields, WellFormed,
         TypeOK
<1>12. LogoutKillsEstablished'
  BY <1>1, <1>2, <1>3
     DEF IInv, LogoutKillsEstablished, SaveSession, FreshKeysUnused, JobFields,
         WellFormed, FreshKeysUnused, TypeOK
<1> QED
  BY <1>1, <1>4, <1>5, <1>6, <1>7, <1>8, <1>9, <1>10, <1>11, <1>12 DEF IInv

\* A logout starts with no victims and no keys.
LEMMA StartBackchannelLogoutInv ==
    ASSUME IInv, NEW w \in Worker, NEW s \in Sid,
           StartBackchannelLogout(w, s)
    PROVE  IInv'
<1> USE DEF Holding, Writing, Tracked, accounts
<1>1. TypeOK /\ TypeOK'
  BY TypeNext DEF IInv, Next, StartRequest, RequestStep, LoginStep, LogoutStep
<1>2. /\ job'[w].pc = "verify"
      /\ job'[w].portal = FALSE
      /\ job'[w].key = None
      /\ job'[w].user = None
      /\ job'[w].sid = s
      /\ job'[w].keys = {}
      /\ job'[w].victims = {}
      /\ \A v \in Worker : v # w => job'[v] = job[v]
  BY <1>1 DEF StartBackchannelLogout, Idle, TypeOK, JobFields
<1>3. UNCHANGED <<django_session, portal_session, social_account,
                 oldest_account, handed, origin, lost, issued>>
  BY DEF StartBackchannelLogout, outside, history
<1>4. FreshKeysUnused'
  BY <1>1, <1>2, <1>3
     DEF IInv, FreshKeysUnused, TypeOK
<1>5. HandedKeysSignedIn'
  BY <1>1, <1>2, <1>3
     DEF IInv, HandedKeysSignedIn, TypeOK
<1>6. AccountsAgree'
  BY <1>1, <1>2, <1>3
     DEF IInv, AccountsAgree, OldestAccounts, TypeOK
<1>7. OneUserPerKey'
  BY <1>1, <1>2, <1>3
     DEF IInv, OneUserPerKey, TypeOK
<1>8. RecordedUserIsSessionUser'
  BY <1>1, <1>2, <1>3
     DEF IInv, RecordedUserIsSessionUser, TypeOK
<1>9. SavesAreTracked'
  BY <1>1, <1>2, <1>3
     DEF IInv, SavesAreTracked, TypeOK
<1>10. RowsAreTracked'
  BY <1>1, <1>2, <1>3
     DEF IInv, RowsAreTracked, TypeOK
<1>11. LogoutProgress'
  BY <1>1, <1>2, <1>3
     DEF IInv, LogoutProgress, TypeOK
<1>12. LogoutKillsEstablished'
  BY <1>1, <1>2, <1>3
     DEF IInv, LogoutKillsEstablished, TypeOK
<1> QED
  BY <1>1, <1>4, <1>5, <1>6, <1>7, <1>8, <1>9, <1>10, <1>11, <1>12 DEF IInv

\* The victims are the sessions in place.
LEMMA VerifyLogoutTokenInv ==
    ASSUME IInv, NEW w \in Worker,
           VerifyLogoutToken(w)
    PROVE  IInv'
<1> USE DEF Holding, Writing, Tracked, accounts
<1>1. TypeOK /\ TypeOK'
  BY TypeNext DEF IInv, Next, StartRequest, RequestStep, LoginStep, LogoutStep
<1>2. /\ job'[w].pc = "select"
      /\ job'[w].portal = job[w].portal
      /\ job'[w].key = job[w].key
      /\ job'[w].user = job[w].user
      /\ job'[w].sid = job[w].sid
      /\ job'[w].keys = job[w].keys
      /\ job'[w].victims = {k \in Key : /\ django_session[k] # None
                                        /\ origin[k] = job[w].sid
                                        /\ <<k, job[w].sid>> \notin lost}
      /\ \A v \in Worker : v # w => job'[v] = job[v]
  BY <1>1 DEF VerifyLogoutToken, Idle, TypeOK, JobFields
<1>3. UNCHANGED <<django_session, portal_session, social_account,
                 oldest_account, handed, origin, lost, issued>>
  BY DEF VerifyLogoutToken, outside, history
<1>4. FreshKeysUnused'
  BY <1>1, <1>2, <1>3
     DEF IInv, FreshKeysUnused, TypeOK
<1>5. HandedKeysSignedIn'
  BY <1>1, <1>2, <1>3
     DEF IInv, HandedKeysSignedIn, TypeOK
<1>6. AccountsAgree'
  BY <1>1, <1>2, <1>3
     DEF IInv, AccountsAgree, OldestAccounts, TypeOK
<1>7. OneUserPerKey'
  BY <1>1, <1>2, <1>3
     DEF IInv, OneUserPerKey, TypeOK
<1>8. RecordedUserIsSessionUser'
  BY <1>1, <1>2, <1>3
     DEF IInv, RecordedUserIsSessionUser, TypeOK
<1>9. SavesAreTracked'
  BY <1>1, <1>2, <1>3
     DEF IInv, SavesAreTracked, TypeOK
<1>10. RowsAreTracked'
  BY <1>1, <1>2, <1>3
     DEF IInv, RowsAreTracked, TypeOK
<1>11. LogoutProgress'
  BY <1>1, <1>2, <1>3
     DEF IInv, LogoutProgress, TypeOK
<1>12. LogoutKillsEstablished'
  BY <1>1, <1>2, <1>3
     DEF IInv, LogoutKillsEstablished, TypeOK
<1> QED
  BY <1>1, <1>4, <1>5, <1>6, <1>7, <1>8, <1>9, <1>10, <1>11, <1>12 DEF IInv

\* Each victim still in place is on record, so it is selected.
LEMMA SelectSessionKeysInv ==
    ASSUME IInv, NEW w \in Worker,
           SelectSessionKeys(w)
    PROVE  IInv'
<1> USE DEF Holding, Writing, Tracked, accounts
<1>1. TypeOK /\ TypeOK'
  BY TypeNext DEF IInv, Next, StartRequest, RequestStep, LoginStep, LogoutStep
<1>2. /\ job'[w].pc = "delete"
      /\ job'[w].portal = job[w].portal
      /\ job'[w].key = job[w].key
      /\ job'[w].user = job[w].user
      /\ job'[w].sid = job[w].sid
      /\ job'[w].keys = KeysOf(job[w].sid)
      /\ job'[w].victims = job[w].victims
      /\ \A v \in Worker : v # w => job'[v] = job[v]
  BY <1>1 DEF SelectSessionKeys, Idle, TypeOK, JobFields
<1>3. UNCHANGED <<django_session, portal_session, social_account,
                 oldest_account, handed, origin, lost, issued>>
  BY DEF SelectSessionKeys, outside, history
<1>4. FreshKeysUnused'
  BY <1>1, <1>2, <1>3
     DEF IInv, FreshKeysUnused, KeysOf, TypeOK
<1>5. HandedKeysSignedIn'
  BY <1>1, <1>2, <1>3
     DEF IInv, HandedKeysSignedIn, TypeOK
<1>6. AccountsAgree'
  BY <1>1, <1>2, <1>3
     DEF IInv, AccountsAgree, OldestAccounts, TypeOK
<1>7. OneUserPerKey'
  BY <1>1, <1>2, <1>3
     DEF IInv, OneUserPerKey, TypeOK
<1>8. RecordedUserIsSessionUser'
  BY <1>1, <1>2, <1>3
     DEF IInv, RecordedUserIsSessionUser, TypeOK
<1>9. SavesAreTracked'
  BY <1>1, <1>2, <1>3
     DEF IInv, SavesAreTracked, TypeOK
<1>10. RowsAreTracked'
  BY <1>1, <1>2, <1>3
     DEF IInv, RowsAreTracked, TypeOK
<1>11. LogoutProgress'
  <2>1. /\ job[w].pc = "select" /\ job[w].sid \in Sid /\ job[w].sid # None
        /\ job[w].victims \subseteq Key
    BY <1>1, NoneAssumption DEF SelectSessionKeys, TypeOK, JobFields, WellFormed
  <2>2. \A k \in job[w].victims : \/ django_session[k] = None
                                  \/ <<k, job[w].sid>> \in lost
                                  \/ k \in KeysOf(job[w].sid)
    BY <2>1 DEF IInv, LogoutProgress, RowsAreTracked, KeysOf
  <2> QED
    BY <1>2, <1>3, <2>2 DEF IInv, LogoutProgress
<1>12. LogoutKillsEstablished'
  BY <1>1, <1>2, <1>3
     DEF IInv, LogoutKillsEstablished, TypeOK
<1> QED
  BY <1>1, <1>4, <1>5, <1>6, <1>7, <1>8, <1>9, <1>10, <1>11, <1>12 DEF IInv

\* What is selected dies.
LEMMA DeleteSessionsInv ==
    ASSUME IInv, NEW w \in Worker,
           DeleteSessions(w)
    PROVE  IInv'
<1> USE DEF Holding, Writing, Tracked, accounts
<1>1. TypeOK /\ TypeOK'
  BY TypeNext DEF IInv, Next, StartRequest, RequestStep, LoginStep, LogoutStep
<1>2. /\ job'[w].pc = "forget"
      /\ job'[w].portal = job[w].portal
      /\ job'[w].key = job[w].key
      /\ job'[w].user = job[w].user
      /\ job'[w].sid = job[w].sid
      /\ job'[w].keys = job[w].keys
      /\ job'[w].victims = job[w].victims
      /\ \A v \in Worker : v # w => job'[v] = job[v]
  BY <1>1 DEF DeleteSessions, Idle, TypeOK, JobFields
<1>3. UNCHANGED <<portal_session, social_account, oldest_account, handed,
                 origin, lost, issued>>
  BY DEF DeleteSessions, outside, history
<1>4. FreshKeysUnused'
  BY <1>1, <1>2, <1>3
     DEF IInv, FreshKeysUnused, DeleteSessions, JobFields, WellFormed, TypeOK
<1>5. HandedKeysSignedIn'
  BY <1>1, <1>2, <1>3
     DEF IInv, HandedKeysSignedIn, DeleteSessions, FreshKeysUnused, JobFields,
         WellFormed, TypeOK
<1>6. AccountsAgree'
  BY <1>1, <1>2, <1>3
     DEF IInv, AccountsAgree, OldestAccounts, DeleteSessions, FreshKeysUnused,
         JobFields, WellFormed, TypeOK
<1>7. OneUserPerKey'
  BY <1>1, <1>2, <1>3
     DEF IInv, OneUserPerKey, DeleteSessions, FreshKeysUnused, JobFields,
         WellFormed, TypeOK
<1>8. RecordedUserIsSessionUser'
  BY <1>1, <1>2, <1>3
     DEF IInv, RecordedUserIsSessionUser, DeleteSessions, FreshKeysUnused,
         JobFields, WellFormed, TypeOK
<1>9. SavesAreTracked'
  BY <1>1, <1>2, <1>3
     DEF IInv, SavesAreTracked, DeleteSessions, FreshKeysUnused, JobFields,
         WellFormed, TypeOK
<1>10. RowsAreTracked'
  BY <1>1, <1>2, <1>3
     DEF IInv, RowsAreTracked, DeleteSessions, FreshKeysUnused, JobFields,
         WellFormed, TypeOK
<1>11. LogoutProgress'
  BY <1>1, <1>2, <1>3
     DEF IInv, LogoutProgress, DeleteSessions, FreshKeysUnused, JobFields,
         WellFormed, TypeOK
<1>12. LogoutKillsEstablished'
  BY <1>1, <1>2, <1>3
     DEF IInv, LogoutKillsEstablished, DeleteSessions, FreshKeysUnused, JobFields,
         WellFormed, LogoutProgress, TypeOK
<1> QED
  BY <1>1, <1>4, <1>5, <1>6, <1>7, <1>8, <1>9, <1>10, <1>11, <1>12 DEF IInv

\* A row not selected but deleted is lost.
LEMMA DeletePortalSessionsInv ==
    ASSUME IInv, NEW w \in Worker,
           DeletePortalSessions(w)
    PROVE  IInv'
<1> USE DEF Holding, Writing, Tracked, accounts
<1>1. TypeOK /\ TypeOK'
  BY TypeNext DEF IInv, Next, StartRequest, RequestStep, LoginStep, LogoutStep
<1>2. /\ job'[w].pc = "idle"
      /\ job'[w].portal = FALSE
      /\ job'[w].key = None
      /\ job'[w].user = None
      /\ job'[w].sid = None
      /\ job'[w].keys = {}
      /\ job'[w].victims = {}
      /\ \A v \in Worker : v # w => job'[v] = job[v]
  BY <1>1 DEF DeletePortalSessions, Idle, TypeOK, JobFields
<1>3. UNCHANGED <<django_session, social_account, oldest_account, handed,
                 origin, issued>>
  BY DEF DeletePortalSessions, outside, history
<1>4. FreshKeysUnused'
  BY <1>1, <1>2, <1>3
     DEF IInv, FreshKeysUnused, DeletePortalSessions, KeysOf, JobFields, WellFormed,
         TypeOK
<1>5. HandedKeysSignedIn'
  BY <1>1, <1>2, <1>3
     DEF IInv, HandedKeysSignedIn, DeletePortalSessions, KeysOf, FreshKeysUnused,
         JobFields, WellFormed, TypeOK
<1>6. AccountsAgree'
  BY <1>1, <1>2, <1>3
     DEF IInv, AccountsAgree, OldestAccounts, DeletePortalSessions, KeysOf,
         FreshKeysUnused, JobFields, WellFormed, TypeOK
<1>7. OneUserPerKey'
  BY <1>1, <1>2, <1>3
     DEF IInv, OneUserPerKey, DeletePortalSessions, KeysOf, FreshKeysUnused,
         JobFields, WellFormed, TypeOK
<1>8. RecordedUserIsSessionUser'
  BY <1>1, <1>2, <1>3
     DEF IInv, RecordedUserIsSessionUser, DeletePortalSessions, KeysOf,
         FreshKeysUnused, JobFields, WellFormed, TypeOK
<1>9. SavesAreTracked'
  BY <1>1, <1>2, <1>3, NoneAssumption
     DEF IInv, SavesAreTracked, DeletePortalSessions, KeysOf, FreshKeysUnused,
         JobFields, WellFormed, LogoutProgress, TypeOK
<1>10. RowsAreTracked'
  BY <1>1, <1>2, <1>3, NoneAssumption
     DEF IInv, RowsAreTracked, DeletePortalSessions, KeysOf, FreshKeysUnused,
         JobFields, WellFormed, LogoutProgress, TypeOK
<1>11. LogoutProgress'
  BY <1>1, <1>2, <1>3
     DEF IInv, LogoutProgress, DeletePortalSessions, KeysOf, FreshKeysUnused,
         JobFields, WellFormed, TypeOK
<1>12. LogoutKillsEstablished'
  BY <1>1, <1>2, <1>3
     DEF IInv, LogoutKillsEstablished, DeletePortalSessions, KeysOf,
         FreshKeysUnused, JobFields, WellFormed, TypeOK
<1> QED
  BY <1>1, <1>4, <1>5, <1>6, <1>7, <1>8, <1>9, <1>10, <1>11, <1>12 DEF IInv

\* The session goes, or had expired and is lost.
LEMMA StartLocalLogoutInv ==
    ASSUME IInv, NEW w \in Worker, NEW k \in handed,
           StartLocalLogout(w, k)
    PROVE  IInv'
<1> USE DEF Holding, Writing, Tracked, accounts
<1>1. TypeOK /\ TypeOK'
  BY TypeNext DEF IInv, Next, StartRequest, RequestStep, LoginStep, LogoutStep
<1>2. /\ job'[w].pc = "unrecord"
      /\ job'[w].portal = FALSE
      /\ job'[w].key = k
      /\ job'[w].user = None
      /\ job'[w].sid = None
      /\ job'[w].keys = {}
      /\ job'[w].victims = {}
      /\ \A v \in Worker : v # w => job'[v] = job[v]
  BY <1>1 DEF StartLocalLogout, Idle, TypeOK, JobFields
<1>3. UNCHANGED <<portal_session, social_account, oldest_account, handed,
                 origin, issued>>
  BY DEF StartLocalLogout, outside, history
<1>4. FreshKeysUnused'
  BY <1>1, <1>2, <1>3
     DEF IInv, FreshKeysUnused, StartLocalLogout, Flush, Live, TypeOK
<1>5. HandedKeysSignedIn'
  BY <1>1, <1>2, <1>3
     DEF IInv, HandedKeysSignedIn, StartLocalLogout, Flush, Live, TypeOK
<1>6. AccountsAgree'
  BY <1>1, <1>2, <1>3
     DEF IInv, AccountsAgree, OldestAccounts, StartLocalLogout, Flush, Live, TypeOK
<1>7. OneUserPerKey'
  BY <1>1, <1>2, <1>3
     DEF IInv, OneUserPerKey, StartLocalLogout, Flush, Live, TypeOK
<1>8. RecordedUserIsSessionUser'
  BY <1>1, <1>2, <1>3
     DEF IInv, RecordedUserIsSessionUser, StartLocalLogout, Flush, Live, TypeOK
<1>9. SavesAreTracked'
  BY <1>1, <1>2, <1>3
     DEF IInv, SavesAreTracked, StartLocalLogout, Flush, Live, TypeOK
<1>10. RowsAreTracked'
  BY <1>1, <1>2, <1>3
     DEF IInv, RowsAreTracked, StartLocalLogout, Flush, Live, TypeOK
<1>11. LogoutProgress'
  BY <1>1, <1>2, <1>3
     DEF IInv, LogoutProgress, StartLocalLogout, Flush, Live, TypeOK
<1>12. LogoutKillsEstablished'
  BY <1>1, <1>2, <1>3
     DEF IInv, LogoutKillsEstablished, StartLocalLogout, Flush, Live, TypeOK
<1> QED
  BY <1>1, <1>4, <1>5, <1>6, <1>7, <1>8, <1>9, <1>10, <1>11, <1>12 DEF IInv

\* Its session was flushed before, or is lost.
LEMMA DeletePortalSessionInv ==
    ASSUME IInv, NEW w \in Worker,
           DeletePortalSession(w)
    PROVE  IInv'
<1> USE DEF Holding, Writing, Tracked, accounts
<1>1. TypeOK /\ TypeOK'
  BY TypeNext DEF IInv, Next, StartRequest, RequestStep, LoginStep, LogoutStep
<1>2. /\ job'[w].pc = "idle"
      /\ job'[w].portal = FALSE
      /\ job'[w].key = None
      /\ job'[w].user = None
      /\ job'[w].sid = None
      /\ job'[w].keys = {}
      /\ job'[w].victims = {}
      /\ \A v \in Worker : v # w => job'[v] = job[v]
  BY <1>1 DEF DeletePortalSession, Idle, TypeOK, JobFields
<1>3. UNCHANGED <<django_session, social_account, oldest_account, handed,
                 origin, lost, issued>>
  BY DEF DeletePortalSession, outside, history
<1>4. FreshKeysUnused'
  BY <1>1, <1>2, <1>3
     DEF IInv, FreshKeysUnused, DeletePortalSession, TypeOK
<1>5. HandedKeysSignedIn'
  BY <1>1, <1>2, <1>3
     DEF IInv, HandedKeysSignedIn, DeletePortalSession, TypeOK
<1>6. AccountsAgree'
  BY <1>1, <1>2, <1>3
     DEF IInv, AccountsAgree, OldestAccounts, DeletePortalSession, TypeOK
<1>7. OneUserPerKey'
  BY <1>1, <1>2, <1>3
     DEF IInv, OneUserPerKey, DeletePortalSession, TypeOK
<1>8. RecordedUserIsSessionUser'
  BY <1>1, <1>2, <1>3
     DEF IInv, RecordedUserIsSessionUser, DeletePortalSession, TypeOK
<1>9. SavesAreTracked'
  BY <1>1, <1>2, <1>3, NoneAssumption
     DEF IInv, SavesAreTracked, DeletePortalSession, LogoutProgress, JobFields,
         WellFormed, TypeOK
<1>10. RowsAreTracked'
  BY <1>1, <1>2, <1>3, NoneAssumption
     DEF IInv, RowsAreTracked, DeletePortalSession, LogoutProgress, JobFields,
         WellFormed, TypeOK
<1>11. LogoutProgress'
  BY <1>1, <1>2, <1>3
     DEF IInv, LogoutProgress, DeletePortalSession, TypeOK
<1>12. LogoutKillsEstablished'
  BY <1>1, <1>2, <1>3
     DEF IInv, LogoutKillsEstablished, DeletePortalSession, TypeOK
<1> QED
  BY <1>1, <1>4, <1>5, <1>6, <1>7, <1>8, <1>9, <1>10, <1>11, <1>12 DEF IInv

\* A session goes and its PortalSession row stays.
LEMMA GlobalLogoutInv ==
    ASSUME IInv, NEW k \in handed,
           GlobalLogout(k)
    PROVE  IInv'
<1> USE DEF Holding, Writing, Tracked, accounts
<1>1. TypeOK /\ TypeOK'
  BY TypeNext DEF IInv, Next, StartRequest, RequestStep, LoginStep, LogoutStep
<1>2. UNCHANGED <<portal_session, social_account, oldest_account, handed,
                 origin, lost, issued>>
  BY DEF GlobalLogout, outside, history
<1>3. FreshKeysUnused'
  BY <1>1, <1>2
     DEF IInv, FreshKeysUnused, GlobalLogout, Flush, history, TypeOK
<1>4. HandedKeysSignedIn'
  BY <1>1, <1>2
     DEF IInv, HandedKeysSignedIn, GlobalLogout, Flush, history, TypeOK
<1>5. AccountsAgree'
  BY <1>1, <1>2
     DEF IInv, AccountsAgree, OldestAccounts, GlobalLogout, Flush, history, TypeOK
<1>6. OneUserPerKey'
  BY <1>1, <1>2
     DEF IInv, OneUserPerKey, GlobalLogout, Flush, history, TypeOK
<1>7. RecordedUserIsSessionUser'
  BY <1>1, <1>2
     DEF IInv, RecordedUserIsSessionUser, GlobalLogout, Flush, history, TypeOK
<1>8. SavesAreTracked'
  BY <1>1, <1>2
     DEF IInv, SavesAreTracked, GlobalLogout, Flush, history, TypeOK
<1>9. RowsAreTracked'
  BY <1>1, <1>2
     DEF IInv, RowsAreTracked, GlobalLogout, Flush, history, TypeOK
<1>10. LogoutProgress'
  BY <1>1, <1>2
     DEF IInv, LogoutProgress, GlobalLogout, Flush, history, TypeOK
<1>11. LogoutKillsEstablished'
  BY <1>1, <1>2
     DEF IInv, LogoutKillsEstablished, GlobalLogout, Flush, history, TypeOK
<1> QED
  BY <1>1, <1>3, <1>4, <1>5, <1>6, <1>7, <1>8, <1>9, <1>10, <1>11 DEF IInv

\* The key it reads under is signed in as one user.
LEMMA StartPingInv ==
    ASSUME IInv, NEW w \in Worker, NEW k \in handed,
           StartPing(w, k)
    PROVE  IInv'
<1> USE DEF Holding, Writing, Tracked, accounts
<1>1. TypeOK /\ TypeOK'
  BY TypeNext DEF IInv, Next, StartRequest, RequestStep, LoginStep, LogoutStep
<1>2. /\ job'[w].pc = "ping"
      /\ job'[w].portal = FALSE
      /\ job'[w].key = k
      /\ job'[w].user = django_session[k].user
      /\ job'[w].sid = None
      /\ job'[w].keys = {}
      /\ job'[w].victims = {}
      /\ \A v \in Worker : v # w => job'[v] = job[v]
  BY <1>1 DEF StartPing, Idle, TypeOK, JobFields
<1>3. UNCHANGED <<django_session, portal_session, social_account,
                 oldest_account, handed, origin, lost, issued>>
  BY DEF StartPing, outside, history
<1>4. FreshKeysUnused'
  BY <1>1, <1>2, <1>3
     DEF IInv, FreshKeysUnused, TypeOK
<1>5. HandedKeysSignedIn'
  BY <1>1, <1>2, <1>3
     DEF IInv, HandedKeysSignedIn, TypeOK
<1>6. AccountsAgree'
  BY <1>1, <1>2, <1>3
     DEF IInv, AccountsAgree, OldestAccounts, TypeOK
<1>7. OneUserPerKey'
  BY <1>1, <1>2, <1>3
     DEF IInv, OneUserPerKey, FreshKeysUnused, RecordedUserIsSessionUser, StartPing,
         Authenticated, Live, TypeOK
<1>8. RecordedUserIsSessionUser'
  BY <1>1, <1>2, <1>3
     DEF IInv, RecordedUserIsSessionUser, TypeOK
<1>9. SavesAreTracked'
  BY <1>1, <1>2, <1>3
     DEF IInv, SavesAreTracked, TypeOK
<1>10. RowsAreTracked'
  BY <1>1, <1>2, <1>3
     DEF IInv, RowsAreTracked, TypeOK
<1>11. LogoutProgress'
  BY <1>1, <1>2, <1>3
     DEF IInv, LogoutProgress, TypeOK
<1>12. LogoutKillsEstablished'
  BY <1>1, <1>2, <1>3
     DEF IInv, LogoutKillsEstablished, TypeOK
<1> QED
  BY <1>1, <1>4, <1>5, <1>6, <1>7, <1>8, <1>9, <1>10, <1>11, <1>12 DEF IInv

\* The row is of that user, and so is the account of its sid.
LEMMA PingSessionInv ==
    ASSUME IInv, NEW w \in Worker,
           PingSession(w)
    PROVE  IInv'
<1> USE DEF Holding, Writing, Tracked, accounts
<1>1. TypeOK /\ TypeOK'
  BY TypeNext DEF IInv, Next, StartRequest, RequestStep, LoginStep, LogoutStep
<1>2. /\ job'[w].pc = "account"
      /\ job'[w].portal = job[w].portal
      /\ job'[w].key = job[w].key
      /\ job'[w].user = job[w].user
      /\ job'[w].sid = IF portal_session[job[w].key] = None THEN None
                       ELSE portal_session[job[w].key].sid
      /\ job'[w].keys = job[w].keys
      /\ job'[w].victims = job[w].victims
      /\ \A v \in Worker : v # w => job'[v] = job[v]
  BY <1>1 DEF PingSession, Idle, TypeOK, JobFields
<1>3. UNCHANGED <<django_session, portal_session, social_account,
                 oldest_account, handed, origin, lost, issued>>
  BY DEF PingSession, outside, history
<1>4. FreshKeysUnused'
  BY <1>1, <1>2, <1>3
     DEF IInv, FreshKeysUnused, PingSession, TypeOK
<1>5. HandedKeysSignedIn'
  BY <1>1, <1>2, <1>3
     DEF IInv, HandedKeysSignedIn, PingSession, TypeOK
<1>6. AccountsAgree'
  <2>1. job'[w].sid # None => social_account[SidSub[job'[w].sid]] = job'[w].user
    <3>1. job[w].pc = "ping" /\ job[w].key \in Key
      BY <1>1 DEF PingSession, TypeOK, WellFormed
    <3>2. portal_session[job[w].key] # None
            => /\ portal_session[job[w].key].user = job[w].user
               /\ social_account[SidSub[portal_session[job[w].key].sid]]
                    = portal_session[job[w].key].user
      BY <3>1 DEF IInv, AccountsAgree, OneUserPerKey
    <3> QED
      BY <1>2, <3>2
  <2>2. ASSUME NEW v \in Worker, job'[v].sid # None,
               job'[v].pc \in {"cycle", "account"} \/ Writing(v)'
        PROVE  social_account'[SidSub[job'[v].sid]] = job'[v].user
    BY <1>2, <1>3, <2>1, <2>2 DEF IInv, AccountsAgree
  <2>3. OldestAccounts'
    BY <1>3 DEF IInv, AccountsAgree, OldestAccounts
  <2>4. /\ \A k \in Key : portal_session'[k] # None =>
              social_account'[SidSub[portal_session'[k].sid]]
                = portal_session'[k].user
        /\ \A k \in Key : origin'[k] # None /\ django_session'[k] # None =>
              social_account'[SidSub[origin'[k]]] = django_session'[k].user
    BY <1>3 DEF IInv, AccountsAgree
  <2> QED
    BY <2>2, <2>3, <2>4 DEF AccountsAgree
<1>7. OneUserPerKey'
  BY <1>1, <1>2, <1>3
     DEF IInv, OneUserPerKey, PingSession, TypeOK
<1>8. RecordedUserIsSessionUser'
  BY <1>1, <1>2, <1>3
     DEF IInv, RecordedUserIsSessionUser, TypeOK
<1>9. SavesAreTracked'
  BY <1>1, <1>2, <1>3
     DEF IInv, SavesAreTracked, TypeOK
<1>10. RowsAreTracked'
  BY <1>1, <1>2, <1>3
     DEF IInv, RowsAreTracked, TypeOK
<1>11. LogoutProgress'
  BY <1>1, <1>2, <1>3
     DEF IInv, LogoutProgress, TypeOK
<1>12. LogoutKillsEstablished'
  BY <1>1, <1>2, <1>3
     DEF IInv, LogoutKillsEstablished, TypeOK
<1> QED
  BY <1>1, <1>4, <1>5, <1>6, <1>7, <1>8, <1>9, <1>10, <1>11, <1>12 DEF IInv

\* A request that ends gives up what it held.
LEMMA AnswerPingInv ==
    ASSUME IInv, NEW w \in Worker,
           AnswerPing(w)
    PROVE  IInv'
<1> USE DEF Holding, Writing, Tracked, accounts
<1>1. TypeOK /\ TypeOK'
  BY TypeNext DEF IInv, Next, StartRequest, RequestStep, LoginStep, LogoutStep
<1>2. /\ job'[w].pc = "idle"
      /\ job'[w].portal = FALSE
      /\ job'[w].key = None
      /\ job'[w].user = None
      /\ job'[w].sid = None
      /\ job'[w].keys = {}
      /\ job'[w].victims = {}
      /\ \A v \in Worker : v # w => job'[v] = job[v]
  BY <1>1 DEF AnswerPing, Idle, TypeOK, JobFields
<1>3. UNCHANGED <<django_session, portal_session, social_account,
                 oldest_account, handed, origin, lost, issued>>
  BY DEF AnswerPing, outside, history
<1>4. FreshKeysUnused'
  BY <1>1, <1>2, <1>3
     DEF IInv, FreshKeysUnused, TypeOK
<1>5. HandedKeysSignedIn'
  BY <1>1, <1>2, <1>3
     DEF IInv, HandedKeysSignedIn, TypeOK
<1>6. AccountsAgree'
  BY <1>1, <1>2, <1>3
     DEF IInv, AccountsAgree, OldestAccounts, TypeOK
<1>7. OneUserPerKey'
  BY <1>1, <1>2, <1>3
     DEF IInv, OneUserPerKey, TypeOK
<1>8. RecordedUserIsSessionUser'
  BY <1>1, <1>2, <1>3
     DEF IInv, RecordedUserIsSessionUser, TypeOK
<1>9. SavesAreTracked'
  BY <1>1, <1>2, <1>3
     DEF IInv, SavesAreTracked, TypeOK
<1>10. RowsAreTracked'
  BY <1>1, <1>2, <1>3
     DEF IInv, RowsAreTracked, TypeOK
<1>11. LogoutProgress'
  BY <1>1, <1>2, <1>3
     DEF IInv, LogoutProgress, TypeOK
<1>12. LogoutKillsEstablished'
  BY <1>1, <1>2, <1>3
     DEF IInv, LogoutKillsEstablished, TypeOK
<1> QED
  BY <1>1, <1>4, <1>5, <1>6, <1>7, <1>8, <1>9, <1>10, <1>11, <1>12 DEF IInv

\* The same at any other point.
LEMMA RequestEndsInv ==
    ASSUME IInv, NEW w \in Worker,
           RequestEnds(w)
    PROVE  IInv'
<1> USE DEF Holding, Writing, Tracked, accounts
<1>1. TypeOK /\ TypeOK'
  BY TypeNext DEF IInv, Next, StartRequest, RequestStep, LoginStep, LogoutStep
<1>2. /\ job'[w].pc = "idle"
      /\ job'[w].portal = FALSE
      /\ job'[w].key = None
      /\ job'[w].user = None
      /\ job'[w].sid = None
      /\ job'[w].keys = {}
      /\ job'[w].victims = {}
      /\ \A v \in Worker : v # w => job'[v] = job[v]
  BY <1>1 DEF RequestEnds, Idle, TypeOK, JobFields
<1>3. UNCHANGED <<django_session, portal_session, social_account,
                 oldest_account, handed, origin, lost, issued>>
  BY DEF RequestEnds, outside, history
<1>4. FreshKeysUnused'
  BY <1>1, <1>2, <1>3
     DEF IInv, FreshKeysUnused, TypeOK
<1>5. HandedKeysSignedIn'
  BY <1>1, <1>2, <1>3
     DEF IInv, HandedKeysSignedIn, TypeOK
<1>6. AccountsAgree'
  BY <1>1, <1>2, <1>3
     DEF IInv, AccountsAgree, OldestAccounts, TypeOK
<1>7. OneUserPerKey'
  BY <1>1, <1>2, <1>3
     DEF IInv, OneUserPerKey, TypeOK
<1>8. RecordedUserIsSessionUser'
  BY <1>1, <1>2, <1>3
     DEF IInv, RecordedUserIsSessionUser, TypeOK
<1>9. SavesAreTracked'
  BY <1>1, <1>2, <1>3
     DEF IInv, SavesAreTracked, TypeOK
<1>10. RowsAreTracked'
  BY <1>1, <1>2, <1>3
     DEF IInv, RowsAreTracked, TypeOK
<1>11. LogoutProgress'
  BY <1>1, <1>2, <1>3
     DEF IInv, LogoutProgress, TypeOK
<1>12. LogoutKillsEstablished'
  BY <1>1, <1>2, <1>3
     DEF IInv, LogoutKillsEstablished, TypeOK
<1> QED
  BY <1>1, <1>4, <1>5, <1>6, <1>7, <1>8, <1>9, <1>10, <1>11, <1>12 DEF IInv

\* Only the portal and the clock move.
LEMMA QuietInv ==
    ASSUME IInv, TypeOK',
           UNCHANGED <<django_session, portal_session, social_account,
                       oldest_account, handed, job, origin, lost, issued>>
    PROVE  IInv'
<1>1. /\ FreshKeysUnused' /\ HandedKeysSignedIn' /\ AccountsAgree'
      /\ OneUserPerKey' /\ RecordedUserIsSessionUser'
  BY DEF IInv, FreshKeysUnused, HandedKeysSignedIn, AccountsAgree,
         OldestAccounts, OneUserPerKey, RecordedUserIsSessionUser, Holding,
         Writing
<1>2. /\ SavesAreTracked' /\ RowsAreTracked' /\ LogoutProgress'
      /\ LogoutKillsEstablished'
  BY DEF IInv, SavesAreTracked, RowsAreTracked, LogoutProgress,
         LogoutKillsEstablished, Tracked
<1> QED
  BY <1>1, <1>2 DEF IInv

LEMMA InvInit == Init => IInv
<1> SUFFICES ASSUME Init PROVE IInv
  OBVIOUS
<1>1. TypeOK
  BY TypeInit
<1>2. \A w \in Worker : job[w] = Idle
  BY DEF Init
<1> QED
  BY <1>1, <1>2
     DEF Init, IInv, FreshKeysUnused, HandedKeysSignedIn, AccountsAgree,
         OneUserPerKey, RecordedUserIsSessionUser, SavesAreTracked,
         RowsAreTracked, LogoutProgress, LogoutKillsEstablished, Holding,
         Writing, Tracked, Idle

LEMMA InvNext == IInv /\ [Next]_vars => IInv'
<1> SUFFICES ASSUME IInv, [Next]_vars PROVE IInv'
  OBVIOUS
<1>1. TypeOK'
  BY TypeNext DEF IInv
<1>2. ASSUME NEW w \in Worker, StartRequest(w) PROVE IInv'
  BY <1>2, StartPortalLoginInv, StartLocalLoginInv, StartConnectInv,
     StartLocalLogoutInv, StartPingInv, StartBackchannelLogoutInv
     DEF StartRequest
<1>3. ASSUME NEW w \in Worker, RequestStep(w) PROVE IInv'
  <2>1. CASE LoginStep(w)
    BY <2>1, CycleKeyInv, RecordPortalSessionInv, BoundSessionToCutoffInv,
       SaveSessionInv DEF LoginStep
  <2>2. CASE LogoutStep(w)
    BY <2>2, VerifyLogoutTokenInv, SelectSessionKeysInv, DeleteSessionsInv,
       DeletePortalSessionsInv DEF LogoutStep
  <2> QED
    BY <1>3, <2>1, <2>2, DeletePortalSessionInv, PingSessionInv, AnswerPingInv,
       RequestEndsInv DEF RequestStep
<1>4. CASE \E k \in handed : GlobalLogout(k)
  BY <1>4, GlobalLogoutInv
<1>5. CASE \E s \in Sid : PortalEnds(s)
  BY <1>1, <1>5, QuietInv DEF PortalEnds, history, accounts
<1>6. CASE Tick
  BY <1>1, <1>6, QuietInv DEF Tick, history, accounts
<1>7. CASE UNCHANGED vars
  BY <1>1, <1>7, QuietInv DEF vars
<1> QED
  BY <1>2, <1>3, <1>4, <1>5, <1>6, <1>7 DEF Next

\* Every reachable state satisfies the inductive invariant: the requests under
\* way, the session rows, the PortalSession rows and the accounts fit together,
\* the connects of further accounts included.
THEOREM InvariantHolds == Spec => []IInv
<1> QED
  BY InvInit, InvNext, PTL DEF Spec

-----------------------------------------------------------------------------
(* What follows from it.                                                     *)

\* A PortalSession row never names a user other than the one its session is
\* signed in as, with any number of logins and connects in flight.
THEOREM RecordsNameTheSessionUser == Spec => []RecordedUserIsSessionUser
<1>1. IInv => RecordedUserIsSessionUser
  BY DEF IInv
<1> QED
  BY <1>1, InvariantHolds, PTL

\* The sid that session_ping answers is of a portal account of the user whose
\* sub it answers, although the session, its row and the accounts are read one
\* after the other. (With several accounts it need not be the same one.)
THEOREM PingsAnswerForOneUser == Spec => []PingAnswersForOneUser
<1>1. IInv => PingAnswersForOneUser
  <2> SUFFICES ASSUME IInv, NEW w \in Worker, job[w].pc = "account",
                      job[w].sid # None
               PROVE  /\ social_account[SidSub[job[w].sid]] = job[w].user
                      /\ PingSub(w) # None
                      /\ social_account[PingSub(w)] = job[w].user
    BY DEF PingAnswersForOneUser
  <2>1. job[w].user \in User /\ SidSub[job[w].sid] \in Sub
    BY UserAssumption DEF IInv, TypeOK, JobFields, WellFormed
  <2>2. social_account[SidSub[job[w].sid]] = job[w].user
    BY DEF IInv, AccountsAgree
  <2> QED
    BY <2>1, <2>2 DEF IInv, AccountsAgree, OldestAccounts, PingSub
<1> QED
  BY <1>1, InvariantHolds, PTL

\* A live session of a sid is on record under it, but for the three ways in
\* which another request lost track of it: whatever fails or interleaves, the
\* login itself always records before it signs in.
THEOREM SessionsTrackedUnlessLost == Spec => []TrackedUnlessLost
<1>1. IInv => TrackedUnlessLost
  BY DEF IInv, RowsAreTracked, TrackedUnlessLost, Live
<1> QED
  BY <1>1, InvariantHolds, PTL

\* backchannel_logout kills every session of its sid that was in place when
\* it began and that no other request lost.
THEOREM LogoutsKillEstablished == Spec => []LogoutKillsEstablished
<1>1. IInv => LogoutKillsEstablished
  BY DEF IInv
<1> QED
  BY <1>1, InvariantHolds, PTL

-----------------------------------------------------------------------------
(* Portal sessions end at the first cutoff *)

\* Two ticks at the same point of the day are a whole number of days apart,
\* so less than a day apart they are equal.
LEMMA SamePointOfDay ==
    ASSUME NEW a \in Nat, NEW b \in Nat, a <= b, b < a + Day,
           a % Day = b % Day
    PROVE  a = b
<1> DEFINE p == a \div Day
           q == b \div Day
           r == a % Day
<1>1. Day \in Nat /\ Day > 0
  BY TimeAssumption
<1>2. p \in Int /\ q \in Int /\ r \in Int /\ a = Day * p + r /\ b = Day * q + r
  BY <1>1, SMTT(30)
<1> HIDE DEF p, q, r
<1>3. CASE q >= p + 1
  <2>1. Day * q >= Day * (p + 1)
    BY <1>1, <1>2, <1>3, SMTT(30)
  <2>2. Day * (p + 1) = Day * p + Day
    BY <1>1, <1>2, SMTT(30)
  <2>3. Day * p \in Int /\ Day * q \in Int /\ Day * (p + 1) \in Int
    BY <1>1, <1>2
  <2> QED
    BY <1>1, <1>2, <2>1, <2>2, <2>3
<1>4. CASE q <= p
  <2>1. Day * q <= Day * p
    BY <1>1, <1>2, <1>4, SMTT(30)
  <2>2. Day * p \in Int /\ Day * q \in Int
    BY <1>1, <1>2
  <2> QED
    BY <1>2, <2>1, <2>2
<1> QED
  BY <1>2, <1>3, <1>4

\* The tick c of the day that t is in is at point c of its day.
LEMMA PointOfDay ==
    ASSUME NEW t \in Nat, NEW c \in Nat, c < Day
    PROVE  /\ ((t - (t % Day)) + c) % Day = c
           /\ ((t - (t % Day)) + c + Day) % Day = c
<1> DEFINE p == t \div Day
<1>1. Day \in Nat /\ Day > 0
  BY TimeAssumption
<1>2. p \in Int /\ t - (t % Day) = Day * p
  BY <1>1, SMTT(30)
<1> HIDE DEF p
<1>3. \A m \in Int : (Day * m + c) % Day = c
  BY <1>1, SMTT(60)
<1>4. Day * p + c + Day = Day * (p + 1) + c
  BY <1>1, <1>2, SMTT(30)
<1> QED
  BY <1>2, <1>3, <1>4

\* NextCutoff is the first tick after t at which a day is cut off.
LEMMA NextCutoffEndsDay ==
    ASSUME NEW t \in Nat, SessionCutoffTime # None
    PROVE  EndsDay(NextCutoff(t), t)
<1>1. SessionCutoffTime \in Nat /\ SessionCutoffTime < Day /\ Day \in Nat
  BY TimeAssumption
<1>2. NextCutoff(t) % Day = SessionCutoffTime
  BY <1>1, PointOfDay DEF NextCutoff
<1>3. ASSUME NEW u \in t + 1 .. NextCutoff(t) - 1
      PROVE  u % Day # SessionCutoffTime
  <2>1. /\ NextCutoff(t) \in Nat /\ u \in Nat
        /\ u < NextCutoff(t) /\ NextCutoff(t) < u + Day
    BY <1>1, NextCutoffAhead
  <2> QED
    BY <1>2, <2>1, SamePointOfDay
<1> QED
  BY <1>2, <1>3 DEF EndsDay

\* As time passes, fewer ticks lie ahead of an expiry.
LEMMA EndsDayStable ==
    ASSUME NEW e \in Nat, NEW t \in Nat, NEW u \in {t, t + 1}, EndsDay(e, t)
    PROVE  EndsDay(e, u)
BY DEF EndsDay

LEMMA CutoffNext ==
    ASSUME IInv, SavesEndAtCutoff, [Next]_vars
    PROVE  SavesEndAtCutoff'
<1> SUFFICES ASSUME SessionCutoffTime # None PROVE SavesEndAtCutoff'
  BY DEF SavesEndAtCutoff
<1> USE DEF outside, history
<1>1. TypeOK /\ TypeOK'
  BY TypeNext DEF IInv
<1>2. ASSUME ~Tick PROVE now' = now
  BY <1>2, WritingSteps
     DEF Quiet, CycleKey, RecordPortalSession, SaveSession, DeleteSessions,
         DeletePortalSessions, DeletePortalSession, StartLocalLogout,
         StartConnect, GlobalLogout
<1>3. now \in Nat /\ now' \in {now, now + 1}
  BY <1>1, <1>2 DEF Tick, TypeOK
\* A row keeps its expiry unless a save writes the one of its request.
<1>4. ASSUME NEW k \in Key, django_session'[k] # None, origin'[k] # None
      PROVE  EndsDay(django_session'[k].expires, now')
  <2>1. CASE django_session'[k] = django_session[k] /\ origin'[k] = origin[k]
    <3>1. EndsDay(django_session[k].expires, now)
      BY <1>4, <2>1 DEF SavesEndAtCutoff
    <3>2. django_session[k].expires \in Nat
      BY <1>1, <1>4, <2>1 DEF TypeOK, SessionRow
    <3> QED
      BY <1>3, <2>1, <3>1, <3>2, EndsDayStable
  <2>2. ASSUME NEW w \in Worker, SaveSession(w), k = job[w].key
        PROVE  EndsDay(django_session'[k].expires, now')
    <3>1. /\ job[w].pc = "save" /\ django_session[k] # None
          /\ origin'[k] \in {origin[k], job[w].sid}
      BY <1>1, <1>4, <2>2 DEF SaveSession, TypeOK
    <3>2. job[w].portal
      BY <1>1, <1>4, <2>2, <3>1
         DEF IInv, HandedKeysSignedIn, Writing, TypeOK, WellFormed
    <3>3. job[w].expiry # None /\ EndsDay(job[w].expiry, now)
      BY <3>1, <3>2 DEF SavesEndAtCutoff
    <3>4. django_session'[k].expires = job[w].expiry /\ now' = now
      BY <1>1, <2>2, <3>1, <3>3 DEF SaveSession, TypeOK
    <3> QED
      BY <3>3, <3>4
  <2>3. ASSUME NEW w \in Worker, CycleKey(w)
        PROVE  django_session'[k] = django_session[k] /\ origin'[k] = origin[k]
    <3> PICK fresh \in Key \ issued : CycleKey(w)!2!(fresh)
      BY <2>3 DEF CycleKey
    <3>1. origin'[k] = origin[k] /\ k # fresh
      BY <1>4, <2>3 DEF CycleKey, IInv, FreshKeysUnused
    <3> QED
      BY <1>4, <3>1
  <2>4. ASSUME NEW w \in Worker, SaveSession(w), k # job[w].key
        PROVE  django_session'[k] = django_session[k] /\ origin'[k] = origin[k]
    BY <1>1, <2>4 DEF SaveSession, TypeOK
  <2>5. ASSUME NEW w \in Worker, DeleteSessions(w)
        PROVE  django_session'[k] = django_session[k] /\ origin'[k] = origin[k]
    BY <1>4, <2>5 DEF DeleteSessions
  <2>6. ASSUME NEW l \in handed, django_session' = Flush(l), UNCHANGED origin
        PROVE  django_session'[k] = django_session[k] /\ origin'[k] = origin[k]
    BY <1>1, <1>4, <2>6 DEF Flush, TypeOK
  <2>7. ASSUME UNCHANGED <<django_session, origin>>
        PROVE  django_session'[k] = django_session[k] /\ origin'[k] = origin[k]
    BY <2>7
  <2> QED
    BY <2>1, <2>2, <2>3, <2>4, <2>5, <2>6, <2>7, WritingSteps
       DEF Quiet, RecordPortalSession, DeletePortalSessions,
           DeletePortalSession, StartLocalLogout, StartConnect, GlobalLogout,
           Tick
\* A portal login gets to its save through the cutoff.
<1>5. ASSUME NEW w \in Worker, job'[w].pc = "save", job'[w].portal
      PROVE  job'[w].expiry # None /\ EndsDay(job'[w].expiry, now')
  <2>1. CASE job'[w] = job[w]
    <3>1. job[w].expiry # None /\ EndsDay(job[w].expiry, now)
      BY <1>5, <2>1 DEF SavesEndAtCutoff
    <3>2. job[w].expiry \in Nat
      BY <1>1, <3>1 DEF TypeOK, JobFields
    <3> QED
      BY <1>3, <2>1, <3>1, <3>2, EndsDayStable
  <2>2. CASE BoundSessionToCutoff(w)
    <3>1. now' = now /\ job'[w].expiry = NextCutoff(now)
      BY <1>1, <2>2 DEF BoundSessionToCutoff, TypeOK, JobFields
    <3>2. NextCutoff(now) \in Nat /\ EndsDay(NextCutoff(now), now)
      BY <1>3, NextCutoffAhead, NextCutoffEndsDay
    <3> QED
      BY <3>1, <3>2, NoneAssumption
  <2>3. CASE CycleKey(w)
    BY <1>1, <1>5, <2>3 DEF CycleKey, TypeOK, JobFields, WellFormed
  <2>4. ASSUME NEW v \in Worker, StartRequest(v) PROVE job'[w] = job[w]
    <3> DEFINE Elsewhere == /\ job'[v].pc # "save"
                            /\ \A x \in Worker : x # v => job'[x] = job[x]
    <3>1. ASSUME NEW k \in handed \union {None}, NEW s \in Sid,
                 NEW hasSid \in BOOLEAN, StartPortalLogin(v, k, s, hasSid)
          PROVE  Elsewhere
      BY <1>1, <3>1 DEF StartPortalLogin, Idle, TypeOK
    <3>2. ASSUME NEW k \in handed \union {None}, NEW u \in LocalUser,
                 StartLocalLogin(v, k, u)
          PROVE  Elsewhere
      BY <1>1, <3>2 DEF StartLocalLogin, Idle, TypeOK
    <3>3. ASSUME NEW k \in handed, NEW s \in Sid,
                 NEW hasSid \in BOOLEAN, StartConnect(v, k, s, hasSid)
          PROVE  Elsewhere
      BY <1>1, <3>3 DEF StartConnect, Idle, TypeOK
    <3>4. ASSUME NEW s \in Sid, StartBackchannelLogout(v, s)
          PROVE  Elsewhere
      BY <1>1, <3>4 DEF StartBackchannelLogout, Idle, TypeOK
    <3>5. ASSUME NEW k \in handed, StartLocalLogout(v, k)
          PROVE  Elsewhere
      BY <1>1, <3>5 DEF StartLocalLogout, Idle, TypeOK
    <3>6. ASSUME NEW k \in handed, StartPing(v, k)
          PROVE  Elsewhere
      BY <1>1, <3>6 DEF StartPing, Idle, TypeOK
    <3>7. Elsewhere
      BY <2>4, <3>1, <3>2, <3>3, <3>4, <3>5, <3>6 DEF StartRequest
    <3> QED
      BY <1>5, <3>7
  <2>5. ASSUME NEW v \in Worker, RequestStep(v),
               ~BoundSessionToCutoff(w), ~CycleKey(w)
        PROVE  job'[w] = job[w]
    <3>1. CASE v = w
      BY <1>1, <1>5, <2>5, <3>1
         DEF RequestStep, LoginStep, LogoutStep, RecordPortalSession,
             SaveSession, VerifyLogoutToken, SelectSessionKeys, DeleteSessions,
             DeletePortalSessions, DeletePortalSession, PingSession,
             AnswerPing, RequestEnds, Idle, TypeOK, JobFields
    <3>2. CASE v # w
      BY <1>1, <2>5, <3>2
         DEF RequestStep, LoginStep, LogoutStep, CycleKey, RecordPortalSession,
             BoundSessionToCutoff, SaveSession, VerifyLogoutToken,
             SelectSessionKeys, DeleteSessions, DeletePortalSessions,
             DeletePortalSession, PingSession, AnswerPing, RequestEnds, TypeOK
    <3> QED
      BY <3>1, <3>2
  <2> QED
    BY <2>1, <2>2, <2>3, <2>4, <2>5
       DEF Next, vars, GlobalLogout, PortalEnds, Tick
<1> QED
  BY <1>4, <1>5 DEF SavesEndAtCutoff

LEMMA SavesEndAtCutoffHolds == Spec => []SavesEndAtCutoff
<1>1. Init => SavesEndAtCutoff
  BY DEF Init, SavesEndAtCutoff, Idle
<1>2. IInv /\ SavesEndAtCutoff /\ [Next]_vars => SavesEndAtCutoff'
  BY CutoffNext
<1> QED
  BY <1>1, <1>2, InvariantHolds, PTL DEF Spec

\* A live session of a portal login expires at a cutoff, the next one: it
\* never reaches into another business day, wherever within the login, and
\* however long before its save, the receiver read the clock.
THEOREM SessionsDieAtCutoff == Spec => []PortalSessionsDieAtCutoff
<1>1. SavesEndAtCutoff => PortalSessionsDieAtCutoff
  BY DEF SavesEndAtCutoff, PortalSessionsDieAtCutoff, Live
<1> QED
  BY <1>1, SavesEndAtCutoffHolds, PTL

\* The expiry of a portal session grows only when a connect in it is saved.
LEMMA ProlongedByConnect ==
    ASSUME IInv, [Next]_vars, NEW k \in Key, Prolonged(k)
    PROVE  \E w \in Worker : Reconnects(w, k)
<1>1. TypeOK /\ k \in issued /\ k \in handed
  BY DEF IInv, FreshKeysUnused, HandedKeysSignedIn, Prolonged
<1>2. django_session[k].expires \in Nat /\ django_session'[k] # django_session[k]
  BY <1>1 DEF Prolonged, TypeOK, SessionRow
<1>3. ASSUME NEW w \in Worker, CycleKey(w) PROVE FALSE
  <2> PICK fresh \in Key \ issued : CycleKey(w)!2!(fresh)
    BY <1>3 DEF CycleKey
  <2> QED
    BY <1>1, <1>2 DEF Prolonged
<1>4. ASSUME NEW w \in Worker, SaveSession(w) PROVE Reconnects(w, k)
  <2>1. k = job[w].key /\ Writing(w)
    BY <1>1, <1>2, <1>4 DEF SaveSession, TypeOK, Writing
  <2> QED
    BY <1>1, <1>4, <2>1 DEF IInv, HandedKeysSignedIn, Reconnects
<1>5. ASSUME NEW w \in Worker, DeleteSessions(w) PROVE FALSE
  BY <1>1, <1>2, <1>5 DEF DeleteSessions, Prolonged
<1>6. ASSUME NEW l \in handed, django_session' = Flush(l) PROVE FALSE
  BY <1>1, <1>2, <1>6 DEF Flush, TypeOK, Prolonged
<1>7. ~UNCHANGED django_session
  BY <1>2
<1> QED
  BY <1>3, <1>4, <1>5, <1>6, <1>7, WritingSteps
     DEF Quiet, RecordPortalSession, DeletePortalSessions, DeletePortalSession,
         StartLocalLogout, StartConnect, GlobalLogout, Tick

\* Two cutoffs ahead are the same one: a live portal session gains nothing.
LEMMA LiveNotProlonged ==
    ASSUME IInv, SavesEndAtCutoff, [Next]_vars, NEW k \in Key, Prolonged(k),
           SessionCutoffTime # None
    PROVE  ~Live(k)
<1> PICK w \in Worker : Reconnects(w, k)
  BY ProlongedByConnect
<1> SUFFICES ASSUME Live(k) PROVE FALSE
  OBVIOUS
<1>1. TypeOK
  BY DEF IInv
<1>2. /\ job[w].pc = "save" /\ job[w].portal /\ job[w].key = k
      /\ job[w].expiry # None /\ EndsDay(job[w].expiry, now)
  BY DEF Reconnects, SaveSession, SavesEndAtCutoff
<1>3. django_session'[k].expires = job[w].expiry
  BY <1>1, <1>2 DEF Reconnects, SaveSession, Prolonged, TypeOK
<1>4. EndsDay(django_session[k].expires, now)
  BY DEF SavesEndAtCutoff, Prolonged
<1>5. /\ now \in Nat /\ django_session[k].expires \in Nat
      /\ job[w].expiry \in Nat
  BY <1>1, <1>2 DEF TypeOK, SessionRow, JobFields, Prolonged
<1>6. django_session[k].expires \in now + 1 .. job[w].expiry - 1
  BY <1>3, <1>5 DEF Prolonged, Live
<1> QED
  BY <1>2, <1>4, <1>6 DEF EndsDay

\* No ping and no other request prolongs a session that came from the portal;
\* the connect of a further account does, and where there is a cutoff only once
\* the session has reached the cutoff that it had.
THEOREM PortalSessionsNotProlonged == Spec => OnlyConnectsProlong
<1>1. IInv /\ SavesEndAtCutoff /\ [Next]_vars
        => [\A k \in Key : Prolonged(k) =>
              /\ SessionCutoffTime # None => ~Live(k)
              /\ \E w \in Worker : Reconnects(w, k)]_vars
  BY ProlongedByConnect, LiveNotProlonged
<1> QED
  BY <1>1, InvariantHolds, SavesEndAtCutoffHolds, PTL
     DEF Spec, OnlyConnectsProlong

-----------------------------------------------------------------------------
(* What the documentation promises of a logout holds unless a logout         *)
(* overtakes a login, which breaks it (the run untracked shows it).          *)

\* v has yet to write the row of its login when w, which logs out the same sid,
\* has selected the keys: w does not delete the session, but may its row.
Overtakes(w, v) ==
    /\ job[w].pc \in {"delete", "forget"}
    /\ job[v].pc \in {"cycle", "record"}
    /\ job[v].sid = job[w].sid

Orderly == \A v, w \in Worker : ~Overtakes(w, v)

\* Requests one at a time are a special case.
LEMMA OneAtATimeIsOrderly ==
    ASSUME \A v, w \in Worker : v = w
    PROVE  Orderly
BY DEF Orderly, Overtakes

\* A logout deletes the rows of no sessions but those it has selected;
SelectedAreAll ==
    \A w \in Worker :
        job[w].pc \in {"delete", "forget"}
            => KeysOf(job[w].sid) \subseteq job[w].keys

\* a login that is under way when it is answered has no session left to save,
\* or one that was lost;
AckedAreOver ==
    /\ acked \subseteq ended
    /\ \A w \in Worker :
        /\ job[w].pc \in {"verify", "select", "delete", "forget"}
            => job[w].sid \in ended
        /\ job[w].sid \in acked =>
            /\ job[w].pc \notin {"cycle", "record"}
            /\ job[w].pc \in {"bound", "save"}
                 => \/ django_session[job[w].key] = None
                    \/ <<job[w].key, job[w].sid>> \in lost

\* and a session left in the table, loaded or not, is a lost one.
AckedAreClosed ==
    \A k \in Key : django_session[k] # None /\ origin[k] \in acked
                     => <<k, origin[k]>> \in lost

OrderlyInv == SelectedAreAll /\ AckedAreOver /\ AckedAreClosed

\* What the steps of a request may do that neither record, save nor forget.
KeepsOrder(v) ==
    \/ job'[v] = job[v]
    \/ job'[v].pc \in {"idle", "unrecord", "ping", "account"}
    \/ job'[v].pc \in {"cycle", "record", "save"} /\ job'[v].sid \notin acked
    \/ job'[v].pc \in {"verify", "select"} /\ job'[v].sid \in ended
    \/ /\ job[v].pc = "bound" /\ job'[v].pc = "save"
       /\ job'[v].key = job[v].key /\ job'[v].sid = job[v].sid
    \/ /\ job[v].pc = "select" /\ job'[v].pc = "delete"
       /\ job'[v].keys = KeysOf(job[v].sid) /\ job'[v].sid = job[v].sid
    \/ /\ job[v].pc = "delete" /\ job'[v].pc = "forget"
       /\ job'[v].keys = job[v].keys /\ job'[v].sid = job[v].sid

LEMMA OrderKept ==
    ASSUME IInv, OrderlyInv, TypeOK',
           UNCHANGED <<acked, origin>>, lost \subseteq lost',
           ended \subseteq ended',
           \A k \in Key : /\ django_session'[k] \in {django_session[k], None}
                          /\ portal_session'[k] \in {portal_session[k], None},
           \A v \in Worker : KeepsOrder(v)
    PROVE  OrderlyInv'
<1>1. \A s : KeysOf(s)' \subseteq KeysOf(s)
  BY DEF KeysOf, Tracked
<1>2. SelectedAreAll'
  <2> SUFFICES ASSUME NEW v \in Worker, job'[v].pc \in {"delete", "forget"}
               PROVE  KeysOf(job[v].sid) \subseteq job'[v].keys
                      /\ job'[v].sid = job[v].sid
    BY <1>1 DEF SelectedAreAll, KeysOf, Tracked
  <2>1. CASE job[v].pc = "select" /\ job'[v].keys = KeysOf(job[v].sid)
             /\ job'[v].sid = job[v].sid
    BY <2>1
  <2>2. CASE job[v].pc \in {"delete", "forget"} /\ job'[v].keys = job[v].keys
             /\ job'[v].sid = job[v].sid
    BY <2>2 DEF OrderlyInv, SelectedAreAll
  <2> QED
    BY <2>1, <2>2 DEF KeepsOrder
<1>3. AckedAreOver'
  <2> SUFFICES ASSUME NEW v \in Worker
               PROVE  /\ job'[v].pc \in {"verify", "select", "delete", "forget"}
                          => job'[v].sid \in ended
                      /\ job'[v].sid \in acked =>
                          /\ job'[v].pc \notin {"cycle", "record"}
                          /\ job'[v].pc \in {"bound", "save"}
                               => \/ django_session'[job'[v].key] = None
                                  \/ <<job'[v].key, job'[v].sid>> \in lost
    BY DEF AckedAreOver, OrderlyInv
  <2>1. job'[v].pc \in {"bound", "save"} => job'[v].key \in Key
    BY DEF TypeOK, WellFormed
  <2> QED
    BY <2>1 DEF KeepsOrder, OrderlyInv, AckedAreOver
<1>4. AckedAreClosed'
  BY DEF OrderlyInv, AckedAreClosed
<1> QED
  BY <1>2, <1>3, <1>4 DEF OrderlyInv

\* Nobody has been answered for a portal session that has not ended.
LEMMA StartOrderly ==
    ASSUME IInv, OrderlyInv, TypeOK', NEW w \in Worker, StartRequest(w)
    PROVE  OrderlyInv'
<1> USE DEF IInv, TypeOK, Idle, KeepsOrder, history
<1>1. acked \subseteq ended /\ None \notin acked
  BY NoneAssumption DEF OrderlyInv, AckedAreOver
<1>2. ASSUME NEW k \in handed \union {None}, NEW s \in Sid,
             NEW hasSid \in BOOLEAN, StartPortalLogin(w, k, s, hasSid)
      PROVE  OrderlyInv'
  <2>1. \A v \in Worker : KeepsOrder(v)
    BY <1>1, <1>2 DEF StartPortalLogin
  <2> QED
    BY <1>2, <2>1, OrderKept DEF StartPortalLogin, outside
<1>3. ASSUME NEW k \in handed \union {None}, NEW u \in LocalUser,
             StartLocalLogin(w, k, u)
      PROVE  OrderlyInv'
  <2>1. \A v \in Worker : KeepsOrder(v)
    BY <1>1, <1>3 DEF StartLocalLogin
  <2> QED
    BY <1>3, <2>1, OrderKept DEF StartLocalLogin, outside
<1>4. ASSUME NEW k \in handed, NEW s \in Sid, NEW hasSid \in BOOLEAN,
             StartConnect(w, k, s, hasSid)
      PROVE  OrderlyInv'
  <2>1. \A v \in Worker : KeepsOrder(v)
    BY <1>1, <1>4 DEF StartConnect
  <2> QED
    BY <1>4, <2>1, OrderKept DEF StartConnect
<1>5. ASSUME NEW k \in handed, StartLocalLogout(w, k)
      PROVE  OrderlyInv'
  <2>1. \A v \in Worker : KeepsOrder(v)
    BY <1>5 DEF StartLocalLogout
  <2> QED
    BY <1>5, <2>1, OrderKept DEF StartLocalLogout, Flush, outside
<1>6. ASSUME NEW k \in handed, StartPing(w, k)
      PROVE  OrderlyInv'
  <2>1. \A v \in Worker : KeepsOrder(v)
    BY <1>6 DEF StartPing
  <2> QED
    BY <1>6, <2>1, OrderKept DEF StartPing, outside
<1>7. ASSUME NEW s \in Sid, StartBackchannelLogout(w, s)
      PROVE  OrderlyInv'
  <2>1. \A v \in Worker : KeepsOrder(v)
    BY <1>7 DEF StartBackchannelLogout
  <2> QED
    BY <1>7, <2>1, OrderKept DEF StartBackchannelLogout, outside
<1> QED
  BY <1>2, <1>3, <1>4, <1>5, <1>6, <1>7 DEF StartRequest

\* Only an orderly login records, and only what was recorded is saved.
LEMMA LoginOrderly ==
    ASSUME Orderly, IInv, OrderlyInv, TypeOK', NEW w \in Worker, LoginStep(w)
    PROVE  OrderlyInv'
<1> USE DEF IInv, TypeOK, OrderlyInv
<1>1. CASE CycleKey(w)
  <2>1. PICK fresh \in Key \ issued :
          /\ job'[w].pc \in {"record", "save"} /\ job'[w].sid = job[w].sid
          /\ job[w].pc = "cycle"
          /\ \A k \in Key : k # fresh
                => django_session'[k] \in {django_session[k], None}
          /\ \A v \in Worker \ {w} : job'[v] = job[v]
          /\ UNCHANGED <<portal_session, ended, origin, lost, acked>>
    BY <1>1 DEF CycleKey, outside
  <2>2. origin[fresh] \notin acked
    BY <2>1, NoneAssumption DEF FreshKeysUnused
  <2>3. \A v \in Worker : job[v].pc \in {"bound", "save"}
                            => job[v].key \in Key \ {fresh}
    BY <2>1 DEF FreshKeysUnused, Holding, Writing, WellFormed
  <2>4. job[w].sid \notin acked
    BY <2>1 DEF AckedAreOver
  <2>5. SelectedAreAll'
    BY <2>1 DEF SelectedAreAll, KeysOf, Tracked
  <2>6. AckedAreOver'
    BY <2>1, <2>3, <2>4 DEF AckedAreOver
  <2>7. AckedAreClosed'
    BY <2>1, <2>2 DEF AckedAreClosed
  <2> QED
    BY <2>5, <2>6, <2>7
<1>2. CASE RecordPortalSession(w)
  <2>1. /\ job[w].pc = "record" /\ job'[w].pc = "bound"
        /\ job'[w].sid = job[w].sid
        /\ \A v \in Worker \ {w} : job'[v] = job[v]
        /\ UNCHANGED <<django_session, ended, origin, acked>>
    BY <1>2 DEF RecordPortalSession, outside
  <2>2. lost \subseteq lost'
    BY <1>2, RecordTracks
  <2>3. job[w].sid \notin acked
    BY <2>1 DEF AckedAreOver
  <2>4. SelectedAreAll'
    <3> SUFFICES ASSUME NEW v \in Worker, v # w,
                        job[v].pc \in {"delete", "forget"}
                 PROVE  KeysOf(job[v].sid)' \subseteq KeysOf(job[v].sid)
      BY <2>1 DEF SelectedAreAll, KeysOf, Tracked
    <3>1. job[v].sid # job[w].sid /\ job'[v] = job[v]
      BY <2>1 DEF Orderly, Overtakes
    <3>2. \A k \in Key : \/ portal_session'[k] = portal_session[k]
                         \/ portal_session'[k].sid = job[w].sid
      BY <1>2 DEF RecordPortalSession
    <3> QED
      BY <3>1, <3>2 DEF KeysOf, Tracked
  <2>5. AckedAreOver'
    BY <2>1, <2>2, <2>3 DEF AckedAreOver
  <2>6. AckedAreClosed'
    BY <2>1, <2>2 DEF AckedAreClosed
  <2> QED
    BY <2>4, <2>5, <2>6
<1>3. CASE BoundSessionToCutoff(w)
  <2>1. \A v \in Worker : KeepsOrder(v)
    BY <1>3 DEF BoundSessionToCutoff, KeepsOrder, JobFields
  <2> QED
    BY <1>3, <2>1, OrderKept DEF BoundSessionToCutoff, outside, history
<1>4. CASE SaveSession(w)
  <2>1. /\ job[w].pc = "save" /\ job[w].key \in Key /\ job'[w].pc = "idle"
        /\ job'[w].sid = None
        /\ \A v \in Worker \ {w} : job'[v] = job[v]
        /\ UNCHANGED <<portal_session, ended, acked>> /\ lost \subseteq lost'
    BY <1>4 DEF SaveSession, outside, WellFormed, Idle
  <2>2. \A k \in Key :
          \/ django_session'[k] = django_session[k] /\ origin'[k] = origin[k]
          \/ /\ k = job[w].key /\ django_session[k] # None
             /\ origin'[k] = IF job[w].sid = None THEN origin[k]
                             ELSE job[w].sid
    BY <1>4, <2>1 DEF SaveSession
  <2>3. SelectedAreAll'
    BY <2>1 DEF SelectedAreAll, KeysOf, Tracked
  <2>4. AckedAreOver'
    <3>1. ASSUME NEW v \in Worker, v # w, job[v].pc \in {"bound", "save"},
                 django_session[job[v].key] = None
          PROVE  django_session'[job'[v].key] = None
      BY <2>1, <2>2, <3>1 DEF WellFormed
    <3> QED
      BY <2>1, <3>1, NoneAssumption DEF AckedAreOver
  <2>5. AckedAreClosed'
    BY <2>1, <2>2 DEF AckedAreClosed, AckedAreOver
  <2> QED
    BY <2>3, <2>4, <2>5
<1> QED
  BY <1>1, <1>2, <1>3, <1>4 DEF LoginStep

LEMMA LogoutOrderly ==
    ASSUME Orderly, IInv, OrderlyInv, TypeOK', NEW w \in Worker, LogoutStep(w)
    PROVE  OrderlyInv'
<1> USE DEF IInv, TypeOK, OrderlyInv, history
<1>1. CASE VerifyLogoutToken(w)
  <2>1. job[w].sid \in ended
    BY <1>1 DEF VerifyLogoutToken, AckedAreOver
  <2>3. /\ job'[w].pc = "select" /\ job'[w].sid = job[w].sid
        /\ \A v \in Worker \ {w} : job'[v] = job[v]
    BY <1>1 DEF VerifyLogoutToken, JobFields
  <2>2. \A v \in Worker : KeepsOrder(v)
    BY <2>1, <2>3 DEF KeepsOrder
  <2> QED
    BY <1>1, <2>2, OrderKept DEF VerifyLogoutToken, outside
<1>2. CASE SelectSessionKeys(w)
  <2>1. \A v \in Worker : KeepsOrder(v)
    BY <1>2 DEF SelectSessionKeys, KeepsOrder, JobFields
  <2> QED
    BY <1>2, <2>1, OrderKept DEF SelectSessionKeys, outside
<1>3. CASE DeleteSessions(w)
  <2>1. \A v \in Worker : KeepsOrder(v)
    BY <1>3 DEF DeleteSessions, KeepsOrder, JobFields
  <2> QED
    BY <1>3, <2>1, OrderKept DEF DeleteSessions, outside
<1>4. CASE DeletePortalSessions(w)
  <2>1. /\ job[w].pc = "forget" /\ job[w].sid \in ended /\ job[w].sid \in Sid
        /\ KeysOf(job[w].sid) \subseteq job[w].keys
        /\ \A k \in job[w].keys : django_session[k] = None
    BY <1>4 DEF DeletePortalSessions, SelectedAreAll, AckedAreOver,
                LogoutProgress, WellFormed
  <2>2. /\ UNCHANGED <<django_session, ended, origin>> /\ lost \subseteq lost'
        /\ acked' = acked \union {job[w].sid} /\ job'[w] = Idle
        /\ \A v \in Worker \ {w} : job'[v] = job[v]
        /\ \A k \in Key : portal_session'[k] \in {portal_session[k], None}
    BY <1>4 DEF DeletePortalSessions, outside
  <2>3. \A k \in Key : Tracked(k, job[w].sid) => django_session[k] = None
    BY <2>1 DEF KeysOf
  <2>4. \A k \in Key : django_session[k] # None /\ origin[k] = job[w].sid
                         => <<k, origin[k]>> \in lost
    BY <2>1, <2>3, NoneAssumption DEF RowsAreTracked
  <2>5. ASSUME NEW v \in Worker, v # w, job[v].sid = job[w].sid
        PROVE  /\ job[v].pc \notin {"cycle", "record"}
               /\ job[v].pc \in {"bound", "save"}
                    => \/ django_session[job[v].key] = None
                       \/ <<job[v].key, job[v].sid>> \in lost
    <3>1. job[v].pc \notin {"cycle", "record"}
      BY <2>1, <2>5 DEF Orderly, Overtakes
    <3>2. job[v].pc \in {"bound", "save"} => job[v].key \in Key
      BY DEF WellFormed
    <3> QED
      BY <2>1, <2>3, <2>5, <3>1, <3>2, NoneAssumption DEF SavesAreTracked
  <2>6. SelectedAreAll'
    BY <2>2 DEF SelectedAreAll, KeysOf, Tracked, Idle
  <2>7. AckedAreOver'
    BY <2>1, <2>2, <2>5, NoneAssumption DEF AckedAreOver, Idle
  <2>8. AckedAreClosed'
    BY <2>2, <2>4 DEF AckedAreClosed
  <2> QED
    BY <2>6, <2>7, <2>8
<1> QED
  BY <1>1, <1>2, <1>3, <1>4 DEF LogoutStep

LEMMA OrderlyNext ==
    ASSUME Orderly, IInv, OrderlyInv, [Next]_vars
    PROVE  OrderlyInv'
<1>1. TypeOK'
  BY TypeNext DEF IInv
<1>2. ASSUME NEW w \in Worker, \/ DeletePortalSession(w) \/ PingSession(w)
                               \/ AnswerPing(w) \/ RequestEnds(w)
      PROVE  OrderlyInv'
  <2>1. \A v \in Worker : KeepsOrder(v)
    BY <1>2 DEF DeletePortalSession, PingSession, AnswerPing, RequestEnds,
                KeepsOrder, Idle, IInv, TypeOK, JobFields
  <2>2. \A k \in Key : portal_session'[k] \in {portal_session[k], None}
    BY <1>2 DEF DeletePortalSession, PingSession, AnswerPing, RequestEnds,
                IInv, TypeOK
  <2>3. UNCHANGED <<django_session, ended, history>>
    BY <1>2 DEF DeletePortalSession, PingSession, AnswerPing, RequestEnds,
                outside
  <2> QED
    BY <1>1, <2>1, <2>2, <2>3, OrderKept DEF history
<1>3. CASE (\E k \in handed : GlobalLogout(k)) \/ Tick
           \/ (\E s \in Sid : PortalEnds(s)) \/ UNCHANGED vars
  <2>1. UNCHANGED <<portal_session, job, history>> /\ ended \subseteq ended'
    BY <1>3 DEF GlobalLogout, Tick, PortalEnds, vars, history, outside
  <2>2. \A k \in Key : django_session'[k] \in {django_session[k], None}
    BY <1>3 DEF GlobalLogout, Tick, PortalEnds, vars, Flush, IInv, TypeOK
  <2> QED
    BY <1>1, <2>1, <2>2, OrderKept DEF KeepsOrder, history
<1> QED
  BY <1>1, <1>2, <1>3, StartOrderly, LoginOrderly, LogoutOrderly
     DEF Next, RequestStep

LEMMA OrderlyHolds == Spec /\ []Orderly => []OrderlyInv
<1>1. Init => OrderlyInv
  BY NoneAssumption DEF Init, Idle, OrderlyInv, SelectedAreAll, AckedAreOver,
     AckedAreClosed
<1>2. Orderly /\ IInv /\ OrderlyInv /\ [Next]_vars => OrderlyInv'
  BY OrderlyNext
<1> QED
  BY <1>1, <1>2, InvariantHolds, PTL DEF Spec

\* README, Back-channel logout: a logout answered with 200 has ended the
\* sessions of its sid, but for the lost ones, and no login brings another, if
\* no logout overtakes a login.
THEOREM OrderlyLogoutsEnd == Spec /\ []Orderly => []LogoutEndsSessions
<1>1. OrderlyInv => LogoutEndsSessions
  BY DEF OrderlyInv, AckedAreClosed, LogoutEndsSessions, Live
<1> QED
  BY <1>1, OrderlyHolds, PTL

\* Rows appear only under the sid of a login, and none is under way for a sid
\* that has been answered.
LEMMA RowsNext ==
    ASSUME IInv, OrderlyInv, AckedLeaveNoRows, [Next]_vars
    PROVE  AckedLeaveNoRows'
<1> USE DEF IInv, TypeOK, AckedLeaveNoRows, KeysOf, Tracked
<1>1. ASSUME NEW w \in Worker, RecordPortalSession(w)
      PROVE  AckedLeaveNoRows'
  <2>1. job[w].sid \notin acked
    BY <1>1 DEF RecordPortalSession, OrderlyInv, AckedAreOver
  <2>2. acked' = acked /\ \A k \in Key :
          \/ portal_session'[k] = portal_session[k]
          \/ portal_session'[k] # None => portal_session'[k].sid = job[w].sid
    BY <1>1 DEF RecordPortalSession
  <2> QED
    BY <2>1, <2>2
<1>2. ASSUME NEW w \in Worker, DeletePortalSessions(w)
      PROVE  AckedLeaveNoRows'
  BY <1>2, NoneAssumption DEF DeletePortalSessions
<1>3. ASSUME NEW w \in Worker, DeletePortalSession(w)
      PROVE  AckedLeaveNoRows'
  BY <1>3 DEF DeletePortalSession, history
<1>4. CASE UNCHANGED <<portal_session, acked>>
  BY <1>4
<1> QED
  BY <1>1, <1>2, <1>3, <1>4, WritingSteps
     DEF Quiet, history, CycleKey, SaveSession, DeleteSessions,
         StartLocalLogout, StartConnect, GlobalLogout, Tick

\* The rows that global logouts and expired sessions leave behind are gone when
\* the portal is answered, and stay gone, for the same requests.
THEOREM AnsweredLogoutsLeaveNoRows == Spec /\ []Orderly => []AckedLeaveNoRows
<1>1. Init => AckedLeaveNoRows
  BY DEF Init, AckedLeaveNoRows
<1>2. IInv /\ OrderlyInv /\ AckedLeaveNoRows /\ [Next]_vars => AckedLeaveNoRows'
  BY RowsNext
<1> QED
  BY <1>1, <1>2, InvariantHolds, OrderlyHolds, PTL DEF Spec

-----------------------------------------------------------------------------
(* Liveness, from fairness whose guards are written out.                     *)

\* A worker that is free holds no request: a new one can start on it.
FreeIsIdle == \A w \in Worker : job[w].pc = "idle" => job[w] = Idle

\* A request is moved on by its own worker only.
LEMMA OwnRequest ==
    ASSUME TypeOK, [Next]_vars, NEW w \in Worker
    PROVE  job'[w] = job[w] \/ StartRequest(w) \/ RequestStep(w)
<1> USE DEF TypeOK
<1>1. ASSUME NEW v \in Worker, StartRequest(v), v # w
      PROVE  job'[w] = job[w]
  BY <1>1 DEF StartRequest, StartPortalLogin, StartLocalLogin, StartConnect,
              StartLocalLogout, StartPing, StartBackchannelLogout
<1>2. ASSUME NEW v \in Worker, RequestStep(v), v # w
      PROVE  job'[w] = job[w]
  BY <1>2 DEF RequestStep, LoginStep, LogoutStep, CycleKey, RecordPortalSession,
     BoundSessionToCutoff, SaveSession, VerifyLogoutToken, SelectSessionKeys,
     DeleteSessions, DeletePortalSessions, DeletePortalSession, PingSession,
     AnswerPing, RequestEnds
<1>3. CASE UNCHANGED job
  BY <1>3
<1> QED
  BY <1>1, <1>2, <1>3 DEF Next, GlobalLogout, PortalEnds, Tick, vars

\* Where each step of a request leads.
LEMMA RequestAdvances ==
    ASSUME TypeOK, NEW w \in Worker, RequestStep(w)
    PROVE  /\ job'[w] # Idle => job'[w].pc # "idle"
           /\ \/ job'[w] = Idle
              \/ job[w].pc = "cycle" /\ job'[w].pc \in {"record", "save"}
              \/ job[w].pc = "record" /\ job'[w].pc = "bound"
              \/ job[w].pc = "bound" /\ job'[w].pc = "save"
              \/ job[w].pc = "verify" /\ job'[w].pc = "select"
              \/ job[w].pc = "select" /\ job'[w].pc = "delete"
              \/ job[w].pc = "delete" /\ job'[w].pc = "forget"
              \/ job[w].pc = "ping" /\ job'[w].pc = "account"
<1> USE DEF TypeOK
<1>1. CycleKey(w) => job[w].pc = "cycle" /\ job'[w].pc \in {"record", "save"}
  BY DEF CycleKey, JobFields
<1>4. RecordPortalSession(w) => job[w].pc = "record" /\ job'[w].pc = "bound"
  BY DEF RecordPortalSession, JobFields
<1>5. BoundSessionToCutoff(w) => job[w].pc = "bound" /\ job'[w].pc = "save"
  BY DEF BoundSessionToCutoff, JobFields
<1>6. PingSession(w) => job[w].pc = "ping" /\ job'[w].pc = "account"
  BY DEF PingSession, JobFields
<1>3. SaveSession(w) \/ DeletePortalSession(w) \/ AnswerPing(w) \/ RequestEnds(w)
        => job'[w] = Idle
  BY DEF SaveSession, DeletePortalSession, AnswerPing, RequestEnds
<1>2. ASSUME LogoutStep(w)
      PROVE  \/ job'[w] = Idle
             \/ job[w].pc = "verify" /\ job'[w].pc = "select"
             \/ job[w].pc = "select" /\ job'[w].pc = "delete"
             \/ job[w].pc = "delete" /\ job'[w].pc = "forget"
  BY <1>2 DEF LogoutStep, VerifyLogoutToken, SelectSessionKeys, DeleteSessions,
     DeletePortalSessions, JobFields
<1> QED
  BY <1>1, <1>2, <1>3, <1>4, <1>5, <1>6 DEF RequestStep, LoginStep, Idle

LEMMA StartsBusy ==
    ASSUME TypeOK, NEW w \in Worker, StartRequest(w)
    PROVE  /\ job[w] = Idle
           /\ job'[w].pc \in {"cycle", "record", "verify", "unrecord", "ping"}
<1> USE DEF TypeOK, Idle, JobFields
<1>1. ASSUME NEW k \in handed \union {None}, NEW s \in Sid, NEW hasSid \in BOOLEAN,
             StartPortalLogin(w, k, s, hasSid)
      PROVE  job[w] = Idle /\ job'[w].pc = "cycle"
  BY <1>1 DEF StartPortalLogin
<1>2. ASSUME NEW k \in handed \union {None}, NEW u \in LocalUser,
             StartLocalLogin(w, k, u)
      PROVE  job[w] = Idle /\ job'[w].pc = "cycle"
  BY <1>2 DEF StartLocalLogin
<1>3. ASSUME NEW k \in handed, NEW s \in Sid, NEW hasSid \in BOOLEAN,
             StartConnect(w, k, s, hasSid)
      PROVE  job[w] = Idle /\ job'[w].pc = "record"
  BY <1>3 DEF StartConnect
<1>4. ASSUME NEW k \in handed, StartLocalLogout(w, k)
      PROVE  job[w] = Idle /\ job'[w].pc = "unrecord"
  BY <1>4 DEF StartLocalLogout
<1>5. ASSUME NEW k \in handed, StartPing(w, k)
      PROVE  job[w] = Idle /\ job'[w].pc = "ping"
  BY <1>5 DEF StartPing
<1>6. ASSUME NEW s \in Sid, StartBackchannelLogout(w, s)
      PROVE  job[w] = Idle /\ job'[w].pc = "verify"
  BY <1>6 DEF StartBackchannelLogout
<1> QED
  BY <1>1, <1>2, <1>3, <1>4, <1>5, <1>6 DEF StartRequest

LEMMA FreeIsIdleHolds == Spec => []FreeIsIdle
<1>1. Init => FreeIsIdle
  BY DEF Init, FreeIsIdle
<1>2. TypeOK /\ FreeIsIdle /\ [Next]_vars => FreeIsIdle'
  BY OwnRequest, RequestAdvances, StartsBusy DEF FreeIsIdle
<1> QED
  BY <1>1, <1>2, TypeCorrect, PTL DEF Spec

\* The points of a request, by how far they are from its end.
LastPoint(w) == job[w].pc \in {"save", "forget", "unrecord", "account"}
ThirdPoint(w) == job[w].pc \in {"bound", "delete", "ping"}
SecondPoint(w) == job[w].pc \in {"record", "select"}
FirstPoint(w) == job[w].pc \in {"cycle", "verify"}

\* Every request comes to its end, so a worker is free again and again.
LEMMA WorkerIsFreed ==
    ASSUME NEW w \in Worker
    PROVE  Spec /\ FairRequest(w) => []<>(job[w] = Idle)
<1> DEFINE Free == job[w] = Idle
<1> USE DEF LastPoint, ThirdPoint, SecondPoint, FirstPoint
<1>1. TypeOK /\ FreeIsIdle /\ [Next]_vars =>
        /\ FirstPoint(w) =>
             (FirstPoint(w) \/ SecondPoint(w) \/ LastPoint(w) \/ Free)'
        /\ SecondPoint(w) => (SecondPoint(w) \/ ThirdPoint(w) \/ Free)'
        /\ ThirdPoint(w) => (ThirdPoint(w) \/ LastPoint(w) \/ Free)'
        /\ LastPoint(w) => (LastPoint(w) \/ Free)'
  <2> SUFFICES ASSUME TypeOK, FreeIsIdle, [Next]_vars
               PROVE  <1>1!2
    OBVIOUS
  <2>1. CASE job'[w] = job[w]
    BY <2>1
  <2>2. CASE StartRequest(w)
    BY <2>2, StartsBusy DEF Idle
  <2>3. CASE RequestStep(w)
    BY <2>3, RequestAdvances
  <2> QED
    BY <2>1, <2>2, <2>3, OwnRequest
<1>2. TypeOK /\ <<RequestStep(w)>>_vars =>
        /\ FirstPoint(w) => ~FirstPoint(w)'
        /\ SecondPoint(w) => ~SecondPoint(w)'
        /\ ThirdPoint(w) => ~ThirdPoint(w)'
        /\ LastPoint(w) => ~LastPoint(w)'
  <2> SUFFICES ASSUME TypeOK, RequestStep(w) PROVE <1>2!2
    OBVIOUS
  <2> QED
    BY RequestAdvances DEF Idle
<1>3. FreeIsIdle => (job[w].pc = "idle" => Free)
  BY DEF FreeIsIdle
<1>4. TypeOK /\ FreeIsIdle =>
        FirstPoint(w) \/ SecondPoint(w) \/ ThirdPoint(w) \/ LastPoint(w) \/ Free
  BY DEF TypeOK, JobFields, PC, FreeIsIdle
<1> HIDE DEF LastPoint, ThirdPoint, SecondPoint, FirstPoint
<1> DEFINE Moves == Spec /\ []<><<RequestStep(w)>>_vars
<1>5. Moves => (LastPoint(w) ~> Free)
  BY <1>1, <1>2, TypeCorrect, FreeIsIdleHolds, PTL DEF Spec
<1>6. Moves => (ThirdPoint(w) ~> Free)
  BY <1>1, <1>2, <1>5, TypeCorrect, FreeIsIdleHolds, PTL DEF Spec
<1>7. Moves => (SecondPoint(w) ~> Free)
  BY <1>1, <1>2, <1>6, TypeCorrect, FreeIsIdleHolds, PTL DEF Spec
<1>8. Moves => (FirstPoint(w) ~> Free)
  BY <1>1, <1>2, <1>5, <1>7, TypeCorrect, FreeIsIdleHolds, PTL DEF Spec
<1> QED
  BY <1>3, <1>4, <1>5, <1>6, <1>7, <1>8, TypeCorrect, FreeIsIdleHolds, PTL
     DEF FairRequest

\* The session of a key, in the table and tracked under s.
Open(k, s) == django_session[k] # None /\ origin[k] = s /\ <<k, s>> \notin lost

\* The session of a key is gone, or no logout of s need find it: for good.
Over(k, s) == Gone(k) \/ <<k, s>> \in lost

\* The attempt of w for s, if it is past its start, owes the session of k.
Owes(w, s, k) ==
    job[w].pc \in {"select", "delete", "forget"} /\ job[w].sid = s
        => k \in job[w].victims

\* What the portal has ended has ended, and what is lost is lost.
LEMMA EndedAndLostStay ==
    ASSUME [Next]_vars
    PROVE  ended \subseteq ended' /\ lost \subseteq lost'
<1> USE DEF outside, history
<1>1. lost \subseteq lost'
  BY WritingSteps
     DEF Quiet, CycleKey, RecordPortalSession, SaveSession, DeleteSessions,
         DeletePortalSessions, DeletePortalSession, StartLocalLogout,
         StartConnect, GlobalLogout, Tick
<1>2. ASSUME NEW w \in Worker, StartRequest(w) PROVE ended' = ended
  BY <1>2 DEF StartRequest, StartPortalLogin, StartLocalLogin, StartConnect,
     StartLocalLogout, StartPing, StartBackchannelLogout
<1>3. ASSUME NEW w \in Worker, LoginStep(w) \/ LogoutStep(w)
      PROVE  ended' = ended
  BY <1>3 DEF LoginStep, CycleKey, RecordPortalSession, BoundSessionToCutoff,
     SaveSession, LogoutStep, VerifyLogoutToken, SelectSessionKeys,
     DeleteSessions, DeletePortalSessions
<1> QED
  BY <1>1, <1>2, <1>3 DEF Next, vars, RequestStep, DeletePortalSession,
     PingSession, AnswerPing, RequestEnds, GlobalLogout, PortalEnds, Tick

\* A session leaves its sid by its end, or by a connect that moves it to
\* another sid, which is noted as lost for the sid it had.
LEMMA OpenNext ==
    ASSUME IInv, [Next]_vars, NEW k \in Key, NEW s \in Sid, Open(k, s)
    PROVE  Open(k, s)' \/ Over(k, s)'
<1>1. /\ TypeOK /\ s # None /\ k \in issued
      /\ TypeOK'
  BY NoneAssumption, TypeNext DEF IInv, Open, FreshKeysUnused
<1>2. CASE origin'[k] = s
  <2>1. k \in issued'
    BY <1>1, WritingSteps
       DEF Quiet, history, CycleKey, RecordPortalSession, SaveSession,
           DeleteSessions, DeletePortalSessions, DeletePortalSession,
           StartLocalLogout, StartConnect, GlobalLogout, Tick
  <2> QED
    BY <1>2, <2>1 DEF Open, Over, Gone
<1>3. ASSUME NEW w \in Worker, SaveSession(w), origin'[k] # s
      PROVE  <<k, s>> \in lost'
  <2>1. k = job[w].key /\ job[w].sid # None /\ job[w].sid # s
    BY <1>1, <1>3 DEF SaveSession, Open, TypeOK
  <2>2. /\ lost' = lost \union ({k} \X ({origin[k]} \ {None, origin'[k]}))
        /\ origin[k] = s
    BY <1>1, <1>3, <2>1 DEF SaveSession, Open
  <2> QED
    BY <1>1, <1>3, <2>2
<1>4. CASE UNCHANGED origin
  BY <1>2, <1>4 DEF Open
<1> QED
  BY <1>2, <1>3, <1>4 DEF Over, Next, StartRequest, RequestStep, LoginStep,
     LogoutStep, vars, history, StartPortalLogin, StartLocalLogin, StartConnect,
     StartLocalLogout, StartPing, StartBackchannelLogout, CycleKey,
     RecordPortalSession, BoundSessionToCutoff, VerifyLogoutToken,
     SelectSessionKeys, DeleteSessions, DeletePortalSessions,
     DeletePortalSession, PingSession, AnswerPing, RequestEnds, GlobalLogout,
     PortalEnds, Tick

\* While the session of k is open, no attempt begins that does not owe it.
LEMMA OwesNext ==
    ASSUME IInv, FreeIsIdle, [Next]_vars, NEW w \in Worker, NEW s \in Sid,
           NEW k \in Key, Open(k, s), Owes(w, s, k)
    PROVE  Owes(w, s, k)'
<1> USE DEF IInv, TypeOK, Owes
<1>1. CASE job'[w] = job[w]
  BY <1>1
<1>2. CASE StartRequest(w)
  BY <1>2, StartsBusy
<1>3. CASE VerifyLogoutToken(w)
  BY <1>3 DEF VerifyLogoutToken, Open, JobFields
<1>4. CASE SelectSessionKeys(w) \/ DeleteSessions(w)
  BY <1>4 DEF SelectSessionKeys, DeleteSessions, JobFields
<1>5. CASE LoginStep(w)
  <2>1. job[w].pc \in {"cycle", "record", "bound", "save"}
    BY <1>5 DEF LoginStep, CycleKey, RecordPortalSession, BoundSessionToCutoff,
                SaveSession
  <2> QED
    BY <1>5, <2>1, RequestAdvances DEF RequestStep, Idle
<1>6. CASE \/ DeletePortalSessions(w) \/ DeletePortalSession(w)
           \/ PingSession(w) \/ AnswerPing(w) \/ RequestEnds(w)
  BY <1>6 DEF DeletePortalSessions, DeletePortalSession, PingSession,
              AnswerPing, RequestEnds, Idle, JobFields
<1> QED
  BY <1>1, <1>2, <1>3, <1>4, <1>5, <1>6, OwnRequest DEF RequestStep, LogoutStep

LEMMA WorkerClosesSession ==
    ASSUME NEW w \in Worker, NEW s \in Sid, NEW k \in Key
    PROVE  Spec /\ FairRequest(w) /\ FairAttempts(w, s) => EndedCloses(s, k)
<1>1. [Next]_vars /\ s \in ended => (s \in ended)'
  BY EndedAndLostStay
<1>2. IInv /\ [Next]_vars /\ Open(k, s) => Open(k, s)' \/ Over(k, s)'
  BY OpenNext
<1>3. IInv /\ [Next]_vars /\ Over(k, s) => Over(k, s)'
  BY EndedAndLostStay, GoneNext DEF Over, IInv
<1>4. Over(k, s) => ~Open(k, s)
  BY DEF Over, Open, Gone
<1>5. LeftOpen(k, s) => Open(k, s)
  BY DEF LeftOpen, Open, Live
<1>6. job[w] = Idle => Owes(w, s, k)
  BY DEF Idle, Owes
<1>7. IInv /\ FreeIsIdle /\ [Next]_vars /\ Open(k, s) /\ Owes(w, s, k)
        => Owes(w, s, k)'
  BY OwesNext
<1>8. IInv /\ Owes(w, s, k) /\ <<ForgetFor(w, s)>>_vars => ~Open(k, s)
  BY DEF IInv, Owes, ForgetFor, DeletePortalSessions, LogoutKillsEstablished,
         Open
<1> DEFINE Attempts == [](s \in ended => []<><<ForgetFor(w, s)>>_vars)
           Free == job[w] = Idle
<1>9. Spec /\ FairRequest(w) /\ FairAttempts(w, s) => Attempts
  BY <1>1, WorkerIsFreed, PTL DEF Spec, FairAttempts
<1>10. Spec /\ []<>Free /\ []<><<ForgetFor(w, s)>>_vars => <>[]~Open(k, s)
  BY <1>2, <1>3, <1>4, <1>6, <1>7, <1>8, InvariantHolds, FreeIsIdleHolds, PTL
     DEF Spec
<1> QED
  BY <1>5, <1>9, <1>10, WorkerIsFreed, PTL DEF EndedCloses

\* For any number of requests at once: each session of an ended portal session
\* is in time closed for good, or lost in one of the three ways. One worker that
\* keeps taking the portal's attempts is enough, whatever the others do.
THEOREM EndedSessionsAreClosed == FairSpec => EndedSessionsClose
<1> SUFFICES ASSUME Spec, Fairness, NEW s \in Sid, NEW k \in Key
             PROVE  EndedCloses(s, k)
  BY DEF FairSpec, EndedSessionsClose
<1>1. PICK w \in Worker : FairAttempts(w, s)
  BY DEF Fairness
<1>2. FairRequest(w)
  BY DEF Fairness
<1> QED
  BY <1>1, <1>2, WorkerClosesSession
=============================================================================
