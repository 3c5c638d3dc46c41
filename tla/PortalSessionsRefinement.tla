----------------------- MODULE PortalSessionsRefinement -----------------------
(* PortalSessions implements SessionLedger, for any number of keys, users,     *)
(* subs, sids and workers.                                                     *)
EXTENDS PortalSessionsProofs

(* What the ledger needs besides IInv: whose the sessions are that a logout    *)
(* has selected, until it deletes them.                                        *)

SelectedAreOfTheSid ==
    \A w \in Worker : job[w].pc = "delete" => \A k \in job[w].keys :
        LET owner == social_account[SidSub[job[w].sid]] IN
        /\ owner # None
        /\ django_session[k] # None =>
            /\ django_session[k].user \in {None, owner}
            /\ Tracked(k, job[w].sid) \/ <<k, job[w].sid>> \in lost
        /\ \A v \in Worker : Writing(v) /\ job[v].key = k
                => job[v].user = owner

RInv == IInv /\ SelectedAreOfTheSid

-----------------------------------------------------------------------------
(* RInv is inductive: what each of its parts is made of stays or is noted.     *)

\* A portal account that is connected stays its user's.
LEMMA AccountsStay ==
    ASSUME TypeOK, [Next]_vars, NEW p \in Sub, social_account[p] # None
    PROVE  social_account'[p] = social_account[p]
<1>1. ASSUME NEW w \in Worker, NEW k \in handed, NEW s \in Sid,
             NEW hasSid \in BOOLEAN, StartConnect(w, k, s, hasSid)
      PROVE  social_account'[p] = social_account[p]
  BY <1>1 DEF StartConnect, AddAccount, TypeOK
<1>2. CASE UNCHANGED social_account
  BY <1>2
<1> QED
  BY <1>1, <1>2, WritingSteps
     DEF Quiet, outside, accounts, CycleKey, RecordPortalSession, SaveSession,
         DeleteSessions, DeletePortalSessions, DeletePortalSession,
         StartLocalLogout, GlobalLogout, Tick

\* A row leaves its sid when a connect moves it, which is noted, or when a
\* logout deletes it, of a session that is gone by then or noted.
LEMMA TracksNext ==
    ASSUME IInv, [Next]_vars, NEW k \in Key, NEW s \in Sid, Tracked(k, s)
    PROVE  \/ Tracked(k, s)'
           \/ <<k, s>> \in lost'
           \/ django_session'[k] = None
<1>1. TypeOK
  BY DEF IInv
<1>2. ASSUME NEW w \in Worker, RecordPortalSession(w)
      PROVE  Tracked(k, s)' \/ <<k, s>> \in lost'
  BY <1>1, <1>2, RecordTracks
<1>3. ASSUME NEW w \in Worker, DeletePortalSessions(w)
      PROVE  \/ Tracked(k, s)' \/ <<k, s>> \in lost'
             \/ django_session'[k] = None
  <2>1. CASE k \in KeysOf(job[w].sid)
    <3>1. s = job[w].sid
      BY <2>1 DEF KeysOf, Tracked
    <3>2. k \in job[w].keys => django_session[k] = None
      BY <1>3 DEF IInv, LogoutProgress, DeletePortalSessions
    <3>3. k \notin job[w].keys => <<k, s>> \in lost'
      BY <1>3, <2>1, <3>1 DEF DeletePortalSessions
    <3> QED
      BY <1>3, <3>2, <3>3 DEF DeletePortalSessions
  <2>2. CASE k \notin KeysOf(job[w].sid)
    <3>1. portal_session'[k] = portal_session[k]
      BY <1>3, <2>2 DEF DeletePortalSessions
    <3> QED
      BY <3>1 DEF Tracked
  <2> QED
    BY <2>1, <2>2
<1>4. ASSUME NEW w \in Worker, DeletePortalSession(w)
      PROVE  \/ Tracked(k, s)' \/ <<k, s>> \in lost'
             \/ django_session'[k] = None
  <2>1. CASE k = job[w].key
    <3>1. django_session[k] = None \/ <<k, s>> \in lost
      BY <1>4, <2>1 DEF IInv, LogoutProgress, DeletePortalSession
    <3> QED
      BY <1>4, <3>1 DEF DeletePortalSession, history
  <2>2. CASE k # job[w].key
    <3>1. portal_session'[k] = portal_session[k]
      BY <1>1, <1>4, <2>2 DEF DeletePortalSession, TypeOK
    <3> QED
      BY <3>1 DEF Tracked
  <2> QED
    BY <2>1, <2>2
<1>5. CASE UNCHANGED portal_session
  BY <1>5 DEF Tracked
<1> QED
  BY <1>2, <1>3, <1>4, <1>5, WritingSteps
     DEF Quiet, CycleKey, SaveSession, DeleteSessions, StartLocalLogout,
         StartConnect, GlobalLogout, Tick

\* A request that writes under a key drawn before wrote under it before, for
\* the same user, or connects in the session of a user signed in under it.
LEMMA WritersNext ==
    ASSUME TypeOK, [Next]_vars, NEW v \in Worker, Writing(v)',
           job'[v].key \in issued
    PROVE  \/ Writing(v) /\ job'[v].key = job[v].key /\ job'[v].user = job[v].user
           \/ /\ django_session[job'[v].key] # None
              /\ django_session[job'[v].key].user # None
              /\ job'[v].user = django_session[job'[v].key].user
<1> USE DEF Writing, TypeOK
<1>1. CASE job'[v] = job[v]
  BY <1>1
<1>2. CASE StartRequest(v)
  <2>1. ASSUME NEW k \in handed, NEW s \in Sid, NEW hasSid \in BOOLEAN,
               StartConnect(v, k, s, hasSid)
        PROVE  /\ job'[v].key = k /\ job'[v].user = django_session[k].user
               /\ django_session[k] # None /\ django_session[k].user # None
    BY <2>1 DEF StartConnect, Authenticated, Live, Idle, JobFields
  <2>2. ASSUME NEW k \in handed \union {None}, NEW s \in Sid,
               NEW hasSid \in BOOLEAN, StartPortalLogin(v, k, s, hasSid)
        PROVE  FALSE
    BY <2>2 DEF StartPortalLogin, Idle
  <2>3. ASSUME NEW k \in handed \union {None}, NEW u \in LocalUser,
               StartLocalLogin(v, k, u)
        PROVE  FALSE
    BY <2>3 DEF StartLocalLogin, Idle
  <2>4. ASSUME NEW k \in handed, StartLocalLogout(v, k) PROVE FALSE
    BY <2>4 DEF StartLocalLogout, Idle
  <2>5. ASSUME NEW k \in handed, StartPing(v, k) PROVE FALSE
    BY <2>5 DEF StartPing, Idle
  <2>6. ASSUME NEW s \in Sid, StartBackchannelLogout(v, s) PROVE FALSE
    BY <2>6 DEF StartBackchannelLogout, Idle
  <2> QED
    BY <1>2, <2>1, <2>2, <2>3, <2>4, <2>5, <2>6 DEF StartRequest
<1>3. CASE RequestStep(v)
  <2>1. CASE CycleKey(v)
    <3> PICK fresh \in Key \ issued : CycleKey(v)!2!(fresh)
      BY <2>1 DEF CycleKey
    <3>1. job'[v].key = fresh
      BY DEF JobFields
    <3> QED
      BY <3>1
  <2>2. CASE RecordPortalSession(v)
    BY <2>2 DEF RecordPortalSession, JobFields
  <2>3. CASE BoundSessionToCutoff(v)
    BY <2>3 DEF BoundSessionToCutoff, JobFields
  <2>4. CASE \/ SaveSession(v) \/ LogoutStep(v) \/ DeletePortalSession(v)
             \/ PingSession(v) \/ AnswerPing(v) \/ RequestEnds(v)
    <3>1. ~Writing(v) \/ job'[v] = Idle
      BY <2>4 DEF SaveSession, LogoutStep, VerifyLogoutToken, SelectSessionKeys,
         DeleteSessions, DeletePortalSessions, DeletePortalSession, PingSession,
         AnswerPing, RequestEnds
    <3> QED
      BY <1>3, <3>1, RequestAdvances, <2>4
         DEF Idle, LogoutStep, VerifyLogoutToken, SelectSessionKeys,
             DeleteSessions, DeletePortalSessions, DeletePortalSession,
             PingSession, AnswerPing, RequestEnds, SaveSession
  <2> QED
    BY <1>3, <2>1, <2>2, <2>3, <2>4 DEF RequestStep, LoginStep
<1> QED
  BY <1>1, <1>2, <1>3, OwnRequest

\* A session keeps its user, or gets the one for whom a request writes it.
LEMMA UsersNext ==
    ASSUME IInv, [Next]_vars, NEW k \in issued, django_session'[k] # None
    PROVE  /\ django_session[k] # None
           /\ \/ django_session'[k].user = django_session[k].user
              \/ \E v \in Worker : /\ Writing(v) /\ job[v].key = k
                                   /\ django_session'[k].user = job[v].user
<1>1. TypeOK /\ k \in Key
  BY DEF IInv, TypeOK
<1>2. django_session[k] # None
  BY <1>1, GoneNext DEF Gone
<1>3. ASSUME NEW w \in Worker, CycleKey(w)
      PROVE  django_session'[k] = django_session[k]
  <2> PICK fresh \in Key \ issued : CycleKey(w)!2!(fresh)
    BY <1>3 DEF CycleKey
  <2> QED
    BY <1>1
<1>4. ASSUME NEW w \in Worker, SaveSession(w)
      PROVE  \/ django_session'[k] = django_session[k]
             \/ /\ Writing(w) /\ job[w].key = k
                /\ django_session'[k].user = job[w].user
  <2> DEFINE row == [user |-> job[w].user,
                     expires |-> IF job[w].expiry = None THEN now + SessionAge
                                 ELSE job[w].expiry]
  <2>1. CASE k = job[w].key
    <3>1. django_session'[k] = row
      BY <1>1, <1>2, <1>4, <2>1 DEF SaveSession, TypeOK
    <3> QED
      BY <1>4, <2>1, <3>1 DEF SaveSession, Writing
  <2>2. CASE k # job[w].key
    BY <1>1, <1>4, <2>2 DEF SaveSession, TypeOK
  <2> QED
    BY <2>1, <2>2
<1>5. ASSUME NEW w \in Worker, DeleteSessions(w)
      PROVE  django_session'[k] = django_session[k]
  BY <1>1, <1>5 DEF DeleteSessions
<1>6. ASSUME NEW l \in handed, django_session' = Flush(l)
      PROVE  django_session'[k] = django_session[k]
  BY <1>1, <1>6 DEF Flush, TypeOK
<1>7. CASE UNCHANGED django_session
  BY <1>7
<1>8. \/ django_session'[k] = django_session[k]
      \/ \E v \in Worker : /\ Writing(v) /\ job[v].key = k
                           /\ django_session'[k].user = job[v].user
  BY <1>3, <1>4, <1>5, <1>6, <1>7, WritingSteps
     DEF Quiet, RecordPortalSession, DeletePortalSessions, DeletePortalSession,
         StartLocalLogout, StartConnect, GlobalLogout, Tick
<1> QED
  BY <1>2, <1>8

\* A logout comes to its deletes by selecting, and waits there unchanged.
LEMMA SelectedBefore ==
    ASSUME TypeOK, [Next]_vars, NEW w \in Worker, job'[w].pc = "delete"
    PROVE  job'[w] = job[w] \/ SelectSessionKeys(w)
<1>1. CASE StartRequest(w)
  BY <1>1, StartsBusy
<1>2. CASE RequestStep(w)
  <2>1. job[w].pc = "select"
    BY <1>2, RequestAdvances DEF Idle
  <2>2. ~LoginStep(w)
    BY <2>1 DEF LoginStep, CycleKey, RecordPortalSession, BoundSessionToCutoff,
                SaveSession
  <2>3. \/ SelectSessionKeys(w) \/ RequestEnds(w)
    BY <1>2, <2>1, <2>2
       DEF RequestStep, LogoutStep, VerifyLogoutToken, DeleteSessions,
           DeletePortalSessions, DeletePortalSession, PingSession, AnswerPing
  <2>4. ~RequestEnds(w)
    BY DEF RequestEnds, TypeOK, Idle
  <2> QED
    BY <2>3, <2>4
<1> QED
  BY <1>1, <1>2, OwnRequest

\* Whose the session under a key is that a logout of the sid has selected.
SelectedIs(k, s, owner) ==
    /\ owner # None
    /\ django_session[k] # None =>
        /\ django_session[k].user \in {None, owner}
        /\ Tracked(k, s) \/ <<k, s>> \in lost
    /\ \A v \in Worker : Writing(v) /\ job[v].key = k => job[v].user = owner

LEMMA SelectedNow ==
    ASSUME RInv, [Next]_vars, NEW w \in Worker, job'[w].pc = "delete",
           NEW k \in job'[w].keys, NEW s \in Sid, s = job'[w].sid
    PROVE  k \in issued /\ SelectedIs(k, s, social_account[SidSub[s]])
<1>1. IInv /\ TypeOK
  BY DEF RInv, IInv
<1>2. CASE job'[w] = job[w]
  <2>1. k \in issued
    BY <1>1, <1>2 DEF IInv, FreshKeysUnused
  <2> QED
    BY <1>2, <2>1 DEF RInv, SelectedAreOfTheSid, SelectedIs
<1>3. CASE SelectSessionKeys(w)
  <2>1. job'[w].sid = job[w].sid /\ job'[w].keys = KeysOf(job[w].sid)
    BY <1>1, <1>3 DEF SelectSessionKeys, TypeOK, JobFields
  <2>2. k \in Key /\ Tracked(k, s)
    BY <2>1 DEF KeysOf
  <2> DEFINE owner == social_account[SidSub[s]]
  <2>3. k \in issued
    BY <1>1, <2>2 DEF Tracked, IInv, FreshKeysUnused
  <2>4. portal_session[k].user \in User /\ owner = portal_session[k].user
    BY <1>1, <2>2 DEF Tracked, IInv, AccountsAgree, TypeOK, PortalRow
  <2>5. \A v \in Worker : Writing(v) /\ job[v].key = k => job[v].user = owner
    BY <1>1, <2>2, <2>4 DEF Tracked, IInv, OneUserPerKey, Holding
  <2>6. django_session[k] # None => django_session[k].user \in {None, owner}
    BY <1>1, <2>2, <2>4 DEF Tracked, IInv, RecordedUserIsSessionUser
  <2> QED
    BY <2>2, <2>3, <2>4, <2>5, <2>6, NoneAssumption DEF SelectedIs
<1> QED
  BY <1>1, <1>2, <1>3, SelectedBefore

LEMMA SelectedNext ==
    ASSUME RInv, [Next]_vars
    PROVE  SelectedAreOfTheSid'
<1>1. IInv /\ TypeOK /\ TypeOK'
  BY InvNext DEF RInv, IInv
<1>2. ASSUME NEW w \in Worker, job'[w].pc = "delete", NEW k \in job'[w].keys,
             NEW s \in Sid, s = job'[w].sid
      PROVE  SelectedIs(k, s, social_account[SidSub[s]])'
  <2>1. SelectedIs(k, s, social_account[SidSub[s]]) /\ k \in issued
    BY <1>2, SelectedNow
  <2>2. SidSub[s] \in Sub /\ k \in Key
    BY <1>1, <2>1, UserAssumption DEF TypeOK
  <2>3. PICK owner : owner = social_account[SidSub[s]]
    OBVIOUS
  <2>4. social_account'[SidSub[s]] = owner /\ owner # None
    BY <1>1, <2>1, <2>2, <2>3, AccountsStay DEF SelectedIs
  <2>5. ASSUME django_session'[k] # None
        PROVE  /\ django_session'[k].user \in {None, owner}
               /\ Tracked(k, s)' \/ <<k, s>> \in lost'
    <3>1. /\ django_session[k] # None
          /\ \/ django_session'[k].user = django_session[k].user
             \/ \E v \in Worker : /\ Writing(v) /\ job[v].key = k
                                  /\ django_session'[k].user = job[v].user
      BY <1>1, <2>1, <2>5, UsersNext
    <3>2. django_session'[k].user \in {None, owner}
      BY <2>1, <2>3, <3>1 DEF SelectedIs
    <3>3. CASE Tracked(k, s)
      BY <1>1, <2>2, <2>5, <3>2, <3>3, TracksNext
    <3>4. CASE <<k, s>> \in lost
      BY <3>2, <3>4, EndedAndLostStay
    <3> QED
      BY <2>1, <3>1, <3>3, <3>4 DEF SelectedIs
  <2>6. ASSUME NEW v \in Worker, Writing(v)', job'[v].key = k
        PROVE  job'[v].user = owner
    <3>1. CASE Writing(v) /\ job'[v].key = job[v].key /\ job'[v].user = job[v].user
      BY <2>1, <2>3, <2>6, <3>1 DEF SelectedIs
    <3>2. CASE /\ django_session[k] # None
               /\ django_session[k].user # None
               /\ job'[v].user = django_session[k].user
      BY <2>1, <2>3, <3>2 DEF SelectedIs
    <3> QED
      BY <1>1, <2>1, <2>6, <3>1, <3>2, WritersNext
  <2> QED
    BY <2>4, <2>5, <2>6 DEF SelectedIs
<1>3. \A w \in Worker : job'[w].pc = "delete" => job'[w].sid \in Sid
  BY <1>1 DEF TypeOK, WellFormed
<1> QED
  BY <1>2, <1>3 DEF SelectedAreOfTheSid, SelectedIs

LEMMA RInvInit == Init => RInv
BY InvInit DEF Init, Idle, RInv, SelectedAreOfTheSid

LEMMA RInvNext == RInv /\ [Next]_vars => RInv'
BY InvNext, SelectedNext DEF RInv

-----------------------------------------------------------------------------
(* The steps of the ledger, as changes of the mapped state.                    *)

LedgerStays == \A k \in Key : LedgerOf(k)' = LedgerOf(k)
LedgerStaysBut(k) == \A l \in Key \ {k} : LedgerOf(l)' = LedgerOf(l)
DuesStay == \A w \in Worker : DueOf(w)' = DueOf(w)
DuesStayBut(w) == \A v \in Worker \ {w} : DueOf(v)' = DueOf(v)

LEMMA Stutters ==
    ASSUME LedgerStays, DuesStay, UNCHANGED <<handed, social_account, lost>>
    PROVE  UNCHANGED Ledger!vars
BY DEF LedgerStays, DuesStay, Ledger!vars

LEMMA Connects ==
    ASSUME NEW p \in Sub, NEW u \in User, social_account[p] = None,
           social_account' = [social_account EXCEPT ![p] = u],
           LedgerStays, DuesStay, UNCHANGED <<handed, lost>>
    PROVE  Ledger!Next
<1>1. Ledger!Connect(p, u)
  BY DEF LedgerStays, DuesStay, Ledger!Connect
<1> QED
  BY <1>1 DEF Ledger!Next

LEMMA Opens ==
    ASSUME NEW k \in Key \ handed, NEW u \in User, NEW s \in Sid \union {None},
           s # None => social_account[SidSub[s]] = u,
           LedgerOf(k)' = [user |-> u, sid |-> s], LedgerStaysBut(k),
           handed' = handed \union {k}, DuesStay,
           UNCHANGED <<social_account, lost>>
    PROVE  Ledger!Next
<1>1. Ledger!Open(k, u, s)
  BY DEF LedgerStaysBut, DuesStay, Ledger!Open
<1> QED
  BY <1>1 DEF Ledger!Next

LEMMA Binds ==
    ASSUME NEW k \in Key, NEW s \in Sid, NEW u, NEW o,
           LedgerOf(k) = [user |-> u, sid |-> o], LedgerOf(k) # None,
           u = social_account[SidSub[s]],
           LedgerOf(k)' = [user |-> u, sid |-> s], LedgerStaysBut(k),
           lost' = lost \union ({k} \X ({o} \ {None, s})),
           DuesStay, UNCHANGED <<handed, social_account>>
    PROVE  Ledger!Next
<1> DEFINE L == [l \in Key |-> LedgerOf(l)]
<1>1. Ledger!Bind(k, s)
  <2>1. L[k] = LedgerOf(k)
    OBVIOUS
  <2>2. L' = [L EXCEPT ![k].sid = s]
    <3>1. [L[k] EXCEPT !.sid = s] = [user |-> u, sid |-> s]
      BY <2>1
    <3>2. L' = [L EXCEPT ![k] = [user |-> u, sid |-> s]]
      BY DEF LedgerStaysBut
    <3> HIDE DEF L
    <3> QED
      BY <3>1, <3>2
  <2>3. UNCHANGED [w \in Worker |-> DueOf(w)]
    BY DEF DuesStay
  <2>4. L[k].user = u /\ L[k].sid = o
    BY <2>1
  <2> HIDE DEF L
  <2> QED
    BY <2>1, <2>2, <2>3, <2>4 DEF Ledger!Bind, L
<1> QED
  BY <1>1 DEF Ledger!Next

LEMMA Closes ==
    ASSUME NEW k \in Key, LedgerOf(k)' = None, LedgerStaysBut(k),
           DuesStay, UNCHANGED <<handed, social_account, lost>>
    PROVE  [Ledger!Next]_(Ledger!vars)
<1>1. CASE LedgerOf(k) = None
  BY <1>1, Stutters DEF LedgerStays, LedgerStaysBut
<1>2. CASE LedgerOf(k) # None
  <2> DEFINE L == [l \in Key |-> LedgerOf(l)]
  <2>1. Ledger!Close(k)
    <3>1. L' = [L EXCEPT ![k] = None]
      BY DEF LedgerStaysBut
    <3>2. L[k] # None
      BY <1>2
    <3>3. UNCHANGED [w \in Worker |-> DueOf(w)]
      BY DEF DuesStay
    <3> QED
      BY <3>1, <3>2, <3>3 DEF Ledger!Close
  <2> QED
    BY <2>1 DEF Ledger!Next
<1> QED
  BY <1>1, <1>2

LEMMA LosesTrack ==
    ASSUME NEW pairs,
           \/ \E s \in Sid : pairs \subseteq Key \X {s}
           \/ \E k \in Key : pairs \subseteq {k} \X Sid,
           LedgerStays, DuesStay, UNCHANGED <<handed, social_account>>,
           lost' = lost \union pairs
    PROVE  Ledger!Next
<1>1. Ledger!LoseTrack(pairs)
  BY DEF LedgerStays, DuesStay, Ledger!LoseTrack
<1>2. pairs \in SUBSET (Key \X Sid)
  OBVIOUS
<1> QED
  BY <1>1, <1>2 DEF Ledger!Next

LEMMA Begins ==
    ASSUME NEW w \in Worker, NEW s \in Sid, DueOf(w) = None,
           DueOf(w)' = [sid |-> s,
                        keys |-> {k \in Key : /\ LedgerOf(k) # None
                                              /\ LedgerOf(k).sid = s
                                              /\ <<k, s>> \notin lost}],
           DuesStayBut(w), LedgerStays,
           UNCHANGED <<handed, social_account, lost>>
    PROVE  Ledger!Next
<1>1. Ledger!BeginLogout(w, s)
  BY DEF LedgerStays, DuesStayBut, Ledger!BeginLogout
<1> QED
  BY <1>1 DEF Ledger!Next

LEMMA DueEnds ==
    ASSUME NEW w \in Worker, DueOf(w)' = None, DuesStayBut(w)
    PROVE  [v \in Worker |-> DueOf(v)]'
             = [[v \in Worker |-> DueOf(v)] EXCEPT ![w] = None]
BY DEF DuesStayBut

LEMMA Finishes ==
    ASSUME NEW w \in Worker, NEW closed \in SUBSET Key,
           NEW s \in Sid, NEW keys, DueOf(w) = [sid |-> s, keys |-> keys],
           DueOf(w) # None, DueOf(w)' = None, DuesStayBut(w),
           \A k \in keys \ closed : <<k, s>> \in lost,
           \A k \in closed : LedgerOf(k) # None =>
             /\ LedgerOf(k).user = social_account[SidSub[s]]
             /\ \/ LedgerOf(k).sid \in {s, None}
                \/ \E r \in Sid : <<k, r>> \in lost,
           \A k \in Key : LedgerOf(k)' = IF k \in closed THEN None
                                         ELSE LedgerOf(k),
           UNCHANGED <<handed, social_account, lost>>
    PROVE  Ledger!Next
<1> DEFINE L == [k \in Key |-> LedgerOf(k)]
           D == [v \in Worker |-> DueOf(v)]
<1>1. Ledger!FinishLogout(w, closed)
  <2>1. D' = [D EXCEPT ![w] = None] /\ D[w] # None /\ D[w].sid = s
        /\ D[w].keys = keys
    BY DueEnds
  <2>2. \A k \in closed : L[k] # None =>
             /\ L[k].user = social_account[SidSub[s]]
             /\ \/ L[k].sid \in {s, None}
                \/ \E r \in Sid : <<k, r>> \in lost
    OBVIOUS
  <2>3. L' = [k \in Key |-> IF k \in closed THEN None ELSE L[k]]
    OBVIOUS
  <2> HIDE DEF L, D
  <2> QED
    BY <2>1, <2>2, <2>3 DEF Ledger!FinishLogout, L, D
<1> QED
  BY <1>1 DEF Ledger!Next

LEMMA Abandons ==
    ASSUME NEW w \in Worker, DueOf(w)' = None, DuesStayBut(w),
           LedgerStays, UNCHANGED <<handed, social_account, lost>>
    PROVE  Ledger!Next
<1>1. Ledger!AbandonLogouts({w})
  BY DEF LedgerStays, DuesStayBut, Ledger!AbandonLogouts
<1> QED
  BY <1>1 DEF Ledger!Next

-----------------------------------------------------------------------------
(* Every step of a handler is a step of the ledger, or a stutter.              *)

Owing(w) == job[w].pc \in {"select", "delete"}

OwesTheSame(w) ==
    /\ \A v \in Worker : v # w => job'[v] = job[v]
    /\ \/ ~Owing(w) /\ ~Owing(w)'
       \/ /\ job[w].pc = "select" /\ job'[w].pc = "delete"
          /\ job'[w].sid = job[w].sid
          /\ job'[w].victims = job[w].victims

LEMMA OwesTheSameDues ==
    ASSUME NEW w \in Worker, OwesTheSame(w)
    PROVE  DuesStay
BY DEF DuesStay, DueOf, Owing, OwesTheSame

LEMMA StartsOweNothing ==
    ASSUME job \in [Worker -> JobFields], NEW w \in Worker, NEW j,
           job[w] = Idle, job' = [job EXCEPT ![w] = j],
           j.pc \in {"cycle", "record", "ping", "verify"}
    PROVE  OwesTheSame(w)
<1>1. ~Owing(w)
  BY DEF Owing, Idle
<1>2. job'[w] = j /\ \A v \in Worker : v # w => job'[v] = job[v]
  OBVIOUS
<1> QED
  BY <1>1, <1>2 DEF Owing, OwesTheSame

LEMMA SameLedger == UNCHANGED <<django_session, origin>> => LedgerStays
BY DEF LedgerStays, LedgerOf

\* Steps that move only requests on, and none of them into or out of a logout
\* that owes anything.
LEMMA RequestsStutter ==
    ASSUME RInv, NEW w \in Worker,
           \/ \E k \in handed \union {None} :
                \/ \E s \in Sid, hasSid \in BOOLEAN :
                     StartPortalLogin(w, k, s, hasSid)
                \/ \E u \in LocalUser : StartLocalLogin(w, k, u)
           \/ \E k \in handed : StartPing(w, k)
           \/ \E s \in Sid : StartBackchannelLogout(w, s)
           \/ BoundSessionToCutoff(w)
           \/ SelectSessionKeys(w)
           \/ DeletePortalSession(w)
           \/ PingSession(w)
           \/ AnswerPing(w)
    PROVE  UNCHANGED Ledger!vars
<1>1. UNCHANGED <<django_session, origin, handed, social_account, lost>>
  BY DEF StartPortalLogin, StartLocalLogin, StartPing, StartBackchannelLogout,
         BoundSessionToCutoff, SelectSessionKeys, DeletePortalSession,
         PingSession, AnswerPing, outside, accounts, history
<1>2. job \in [Worker -> JobFields]
  BY DEF RInv, IInv, TypeOK
<1>3. OwesTheSame(w)
  <2>1. ASSUME NEW k \in handed \union {None}, NEW s \in Sid,
               NEW hasSid \in BOOLEAN, StartPortalLogin(w, k, s, hasSid)
        PROVE  OwesTheSame(w)
    BY <1>2, <2>1, StartsOweNothing DEF StartPortalLogin, Idle
  <2>2. ASSUME NEW k \in handed \union {None}, NEW u \in LocalUser,
               StartLocalLogin(w, k, u)
        PROVE  OwesTheSame(w)
    BY <1>2, <2>2, StartsOweNothing DEF StartLocalLogin, Idle
  <2>3. ASSUME NEW k \in handed, StartPing(w, k)
        PROVE  OwesTheSame(w)
    BY <1>2, <2>3, StartsOweNothing DEF StartPing, Idle
  <2>4. ASSUME NEW s \in Sid, StartBackchannelLogout(w, s)
        PROVE  OwesTheSame(w)
    BY <1>2, <2>4, StartsOweNothing DEF StartBackchannelLogout, Idle
  <2>5. CASE DeletePortalSession(w) \/ AnswerPing(w)
    BY <1>2, <2>5 DEF DeletePortalSession, AnswerPing, Idle, Owing, OwesTheSame
  <2>6. CASE BoundSessionToCutoff(w) \/ PingSession(w)
    BY <1>2, <2>6 DEF BoundSessionToCutoff, PingSession, Owing, OwesTheSame,
                      JobFields
  <2>7. CASE SelectSessionKeys(w)
    BY <1>2, <2>7 DEF SelectSessionKeys, OwesTheSame, JobFields
  <2> QED
    BY <2>1, <2>2, <2>3, <2>4, <2>5, <2>6, <2>7
<1> QED
  BY <1>1, <1>3, OwesTheSameDues, SameLedger, Stutters

LEMMA EnvironmentStutters ==
    ASSUME (\E s \in Sid : PortalEnds(s)) \/ Tick \/ UNCHANGED vars
    PROVE  UNCHANGED Ledger!vars
<1>1. UNCHANGED <<django_session, origin, handed, social_account, lost, job>>
  BY DEF PortalEnds, Tick, vars, accounts, history
<1>2. DuesStay
  BY <1>1 DEF DuesStay, DueOf
<1> QED
  BY <1>1, <1>2, SameLedger, Stutters

\* A connect gives the account its user; its session comes later.
LEMMA StartConnectConnects ==
    ASSUME RInv, NEW w \in Worker, NEW k \in handed, NEW s \in Sid,
           NEW hasSid \in BOOLEAN, StartConnect(w, k, s, hasSid)
    PROVE  Ledger!Next
<1>1. /\ UNCHANGED <<django_session, origin, handed, lost>>
      /\ k \in Key /\ SidSub[s] \in Sub
      /\ django_session \in [Key -> SessionRow \union {None}]
      /\ job \in [Worker -> JobFields]
  BY UserAssumption DEF StartConnect, history, RInv, IInv, TypeOK
<1>2. PICK u \in User : u = django_session[k].user
  BY <1>1 DEF StartConnect, Authenticated, Live, SessionRow
<1>3. /\ social_account[SidSub[s]] = None
      /\ social_account' = [social_account EXCEPT ![SidSub[s]] = u]
  BY <1>2 DEF StartConnect, AddAccount
<1>4. DuesStay
  BY <1>1, StartsOweNothing, OwesTheSameDues DEF StartConnect, Idle
<1> QED
  BY <1>1, <1>3, <1>4, SameLedger, Connects

\* The record step of a connect may lose track of the session under its key.
LEMMA RecordLosesTrack ==
    ASSUME RInv, NEW w \in Worker, RecordPortalSession(w)
    PROVE  [Ledger!Next]_(Ledger!vars)
<1>1. /\ UNCHANGED <<django_session, origin, handed, social_account>>
      /\ job[w].pc = "record" /\ job[w].key \in Key
      /\ job \in [Worker -> JobFields]
  BY DEF RecordPortalSession, RInv, IInv, TypeOK, WellFormed, outside, accounts
<1>2. OwesTheSame(w)
  BY <1>1 DEF RecordPortalSession, OwesTheSame, Owing, JobFields
<1>3. CASE job[w].sid = None
  BY <1>1, <1>2, <1>3, OwesTheSameDues, SameLedger, Stutters
     DEF RecordPortalSession
<1>4. CASE job[w].sid # None
  <2> DEFINE left == {s \in Sid \ {job[w].sid} : Tracked(job[w].key, s)}
  <2>1. lost' = lost \union ({job[w].key} \X left)
    BY <1>4 DEF RecordPortalSession
  <2>2. {job[w].key} \X left \subseteq {job[w].key} \X Sid
    OBVIOUS
  <2> HIDE DEF left
  <2> QED
    BY <1>1, <1>2, <2>1, <2>2, OwesTheSameDues, SameLedger, LosesTrack
<1> QED
  BY <1>3, <1>4

LEMMA VerifyBegins ==
    ASSUME RInv, NEW w \in Worker, VerifyLogoutToken(w)
    PROVE  Ledger!Next
<1>1. /\ UNCHANGED <<django_session, origin, handed, social_account, lost>>
      /\ job[w].pc = "verify" /\ job[w].sid \in Sid
      /\ job'[w].pc = "select" /\ job'[w].sid = job[w].sid
      /\ job'[w].victims = {k \in Key : /\ django_session[k] # None
                                        /\ origin[k] = job[w].sid
                                        /\ <<k, job[w].sid>> \notin lost}
      /\ \A v \in Worker \ {w} : job'[v] = job[v]
  BY DEF VerifyLogoutToken, RInv, IInv, TypeOK, WellFormed, JobFields, outside,
         accounts, history
<1>2. \A k \in Key : origin[k] = job[w].sid /\ django_session[k] # None
        <=> LedgerOf(k) # None /\ LedgerOf(k).sid = job[w].sid
  <2> TAKE k \in Key
  <2>1. origin[k] # None /\ django_session[k] # None
          => django_session[k].user # None
    BY DEF RInv, IInv, HandedKeysSignedIn
  <2>2. job[w].sid # None
    BY <1>1, NoneAssumption
  <2>3. django_session[k] # None /\ django_session[k].user # None
          => django_session[k].user \in User /\ origin[k] \in Sid \union {None}
    BY DEF RInv, IInv, TypeOK, SessionRow
  <2> QED
    BY <2>1, <2>2, <2>3, EntryAssumption DEF LedgerOf, Ledger!Entry
<1>3. job'[w].victims = {k \in Key : /\ LedgerOf(k) # None
                                     /\ LedgerOf(k).sid = job[w].sid
                                     /\ <<k, job[w].sid>> \notin lost}
  BY <1>1, <1>2
<1>4. DueOf(w) = None /\ DuesStayBut(w)
  BY <1>1 DEF DueOf, DuesStayBut
<1>5. DueOf(w)' = [sid |-> job[w].sid,
                   keys |-> {k \in Key : /\ LedgerOf(k) # None
                                         /\ LedgerOf(k).sid = job[w].sid
                                         /\ <<k, job[w].sid>> \notin lost}]
  BY <1>1, <1>3 DEF DueOf
<1> QED
  BY <1>1, <1>4, <1>5, SameLedger, Begins

\* Deleting the selected sessions finishes what the logout owes.
LEMMA DeleteFinishes ==
    ASSUME RInv, NEW w \in Worker, DeleteSessions(w)
    PROVE  Ledger!Next
<1> DEFINE closed == job[w].keys \union {k \in Key : django_session[k] = None}
<1>1. /\ UNCHANGED <<origin, handed, social_account, lost>>
      /\ job[w].pc = "delete" /\ job'[w].pc = "forget"
      /\ job[w].sid \in Sid
      /\ job[w].keys \subseteq Key /\ job[w].victims \subseteq Key
      /\ \A v \in Worker \ {w} : job'[v] = job[v]
      /\ \A k \in Key : django_session'[k] = IF k \in job[w].keys THEN None
                                             ELSE django_session[k]
  BY DEF DeleteSessions, RInv, IInv, TypeOK, WellFormed, JobFields, outside,
         accounts, history
<1>2. closed \in SUBSET Key
  BY <1>1
<1>3. DueOf(w) = [sid |-> job[w].sid, keys |-> job[w].victims]
  BY <1>1 DEF DueOf
<1>4. DueOf(w) # None
  BY <1>1, <1>3, EntryAssumption DEF Ledger!Logout
<1>5. DueOf(w)' = None /\ DuesStayBut(w)
  BY <1>1 DEF DueOf, DuesStayBut
<1>6. \A k \in job[w].victims \ closed : <<k, job[w].sid>> \in lost
  BY <1>1 DEF RInv, IInv, LogoutProgress
<1>7. ASSUME NEW k \in closed, LedgerOf(k) # None
      PROVE  /\ LedgerOf(k).user = social_account[SidSub[job[w].sid]]
             /\ \/ LedgerOf(k).sid \in {job[w].sid, None}
                \/ \E r \in Sid : <<k, r>> \in lost
  <2>1. /\ django_session[k] # None /\ django_session[k].user # None
        /\ LedgerOf(k) = [user |-> django_session[k].user, sid |-> origin[k]]
    BY <1>7 DEF LedgerOf
  <2>2. k \in job[w].keys /\ k \in Key
    BY <1>1, <2>1
  <2>3. /\ django_session[k].user = social_account[SidSub[job[w].sid]]
        /\ Tracked(k, job[w].sid) \/ <<k, job[w].sid>> \in lost
    BY <1>1, <2>1, <2>2 DEF RInv, SelectedAreOfTheSid
  <2>4. \/ origin[k] \in {job[w].sid, None}
        \/ \E r \in Sid : <<k, r>> \in lost
    <3>1. origin[k] \in Sid \union {None}
      BY <2>2 DEF RInv, IInv, TypeOK
    <3>2. CASE <<k, job[w].sid>> \in lost
      BY <1>1, <3>2
    <3>3. CASE Tracked(k, job[w].sid)
      BY <2>1, <2>2, <3>1, <3>3 DEF RInv, IInv, RowsAreTracked, Tracked
    <3> QED
      BY <2>3, <3>2, <3>3
  <2> QED
    BY <2>1, <2>3, <2>4
<1>8. \A k \in Key : LedgerOf(k)' = IF k \in closed THEN None ELSE LedgerOf(k)
  BY <1>1 DEF LedgerOf
<1> HIDE DEF closed
<1> QED
  BY <1>1, <1>2, <1>3, <1>4, <1>5, <1>6, <1>7, <1>8, Finishes

\* Deleting the rows that were not selected loses track of one sid's sessions.
LEMMA ForgetLosesTrack ==
    ASSUME RInv, NEW w \in Worker, DeletePortalSessions(w)
    PROVE  Ledger!Next
<1> DEFINE missed == KeysOf(job[w].sid) \ job[w].keys
<1>1. /\ UNCHANGED <<django_session, origin, handed, social_account>>
      /\ lost' = lost \union (missed \X {job[w].sid})
      /\ job[w].pc = "forget" /\ job'[w] = Idle
      /\ job[w].sid \in Sid
      /\ \A v \in Worker \ {w} : job'[v] = job[v]
  BY DEF DeletePortalSessions, RInv, IInv, TypeOK, WellFormed, JobFields,
         outside, accounts
<1>2. DuesStay
  BY <1>1 DEF DuesStay, DueOf, Idle
<1>3. missed \X {job[w].sid} \subseteq Key \X {job[w].sid}
  BY DEF KeysOf
<1> HIDE DEF missed
<1> QED
  BY <1>1, <1>2, <1>3, SameLedger, LosesTrack

LEMMA LocalLogoutCloses ==
    ASSUME RInv, NEW w \in Worker, NEW k \in handed, StartLocalLogout(w, k)
    PROVE  [Ledger!Next]_(Ledger!vars)
<1>1. /\ UNCHANGED <<origin, handed, social_account>>
      /\ django_session' = Flush(k)
      /\ lost' = IF django_session'[k] = None THEN lost
                 ELSE lost \union ({k} \X Sid)
      /\ k \in Key
      /\ django_session \in [Key -> SessionRow \union {None}]
  BY DEF StartLocalLogout, RInv, IInv, TypeOK, outside, accounts
<1>2. DuesStay
  <2>1. /\ job[w] = Idle /\ job'[w].pc = "unrecord"
        /\ \A v \in Worker \ {w} : job'[v] = job[v]
    BY DEF StartLocalLogout, RInv, IInv, TypeOK, Idle
  <2> QED
    BY <2>1 DEF DuesStay, DueOf, Idle
<1>3. CASE Live(k)
  <2>1. /\ django_session'[k] = None /\ lost' = lost
        /\ \A l \in Key \ {k} : django_session'[l] = django_session[l]
    BY <1>1, <1>3 DEF Flush
  <2>2. LedgerOf(k)' = None /\ LedgerStaysBut(k)
    BY <1>1, <2>1 DEF LedgerOf, LedgerStaysBut
  <2> QED
    BY <1>1, <1>2, <2>1, <2>2, Closes
<1>4. CASE ~Live(k) /\ django_session[k] = None
  <2>1. UNCHANGED <<django_session, lost>>
    BY <1>1, <1>4 DEF Flush
  <2> QED
    BY <1>1, <1>2, <2>1, SameLedger, Stutters
<1>5. CASE ~Live(k) /\ django_session[k] # None
  <2>1. django_session' = django_session /\ lost' = lost \union ({k} \X Sid)
    BY <1>1, <1>5 DEF Flush
  <2> QED
    BY <1>1, <1>2, <2>1, SameLedger, LosesTrack
<1> QED
  BY <1>3, <1>4, <1>5

LEMMA GlobalLogoutCloses ==
    ASSUME RInv, NEW k \in handed, GlobalLogout(k)
    PROVE  [Ledger!Next]_(Ledger!vars)
<1>1. /\ UNCHANGED <<origin, handed, social_account, lost, job>>
      /\ k \in Key
      /\ django_session'[k] = None
      /\ \A l \in Key \ {k} : django_session'[l] = django_session[l]
  BY DEF GlobalLogout, Flush, RInv, IInv, TypeOK, outside, accounts, history
<1>2. LedgerOf(k)' = None /\ LedgerStaysBut(k)
  BY <1>1 DEF LedgerOf, LedgerStaysBut
<1>3. DuesStay
  BY <1>1 DEF DuesStay, DueOf
<1> QED
  BY <1>1, <1>2, <1>3, Closes

LEMMA RequestEndsAbandons ==
    ASSUME RInv, NEW w \in Worker, RequestEnds(w)
    PROVE  Ledger!Next
<1>1. /\ UNCHANGED <<django_session, origin, handed, social_account, lost>>
      /\ job'[w] = Idle /\ \A v \in Worker \ {w} : job'[v] = job[v]
  BY DEF RequestEnds, RInv, IInv, TypeOK, outside, accounts, history
<1>2. DueOf(w)' = None /\ DuesStayBut(w)
  BY <1>1 DEF DueOf, DuesStayBut, Idle
<1> QED
  BY <1>1, <1>2, SameLedger, Abandons

\* A login closes the session its browser had, if it was still live; the fresh
\* row is signed in as nobody.
LEMMA CycleKeyCloses ==
    ASSUME RInv, NEW w \in Worker, CycleKey(w)
    PROVE  [Ledger!Next]_(Ledger!vars)
<1>0. PICK fresh \in Key \ issued : CycleKey(w)!2!(fresh)
  BY DEF CycleKey
<1>1. /\ UNCHANGED <<origin, handed, social_account, lost>>
      /\ django_session[fresh] = None
      /\ django_session'[fresh].user = None
      /\ \A k \in Key \ {fresh, job[w].key} :
           django_session'[k] = django_session[k]
  BY <1>0 DEF CycleKey, RInv, IInv, FreshKeysUnused, outside, accounts
<1>2. DuesStay
  <2>1. /\ job[w].pc = "cycle" /\ job'[w].pc \in {"record", "save"}
        /\ \A v \in Worker \ {w} : job'[v] = job[v]
    BY <1>0 DEF CycleKey, RInv, IInv, TypeOK, JobFields
  <2> QED
    BY <2>1 DEF DuesStay, DueOf
<1>3. LedgerOf(fresh)' = LedgerOf(fresh)
  BY <1>1 DEF LedgerOf
<1>4. \A k \in Key \ {job[w].key} : LedgerOf(k)' = LedgerOf(k)
  BY <1>1, <1>3 DEF LedgerOf
<1>5. CASE job[w].key \in Key \ {fresh} /\ Live(job[w].key)
  <2>1. PICK k \in Key : k = job[w].key
    BY <1>5
  <2>2. django_session'[k] = None
    BY <1>0, <1>5, <2>1
  <2>3. LedgerOf(k)' = None /\ LedgerStaysBut(k)
    BY <1>4, <2>1, <2>2 DEF LedgerOf, LedgerStaysBut
  <2> QED
    BY <1>1, <1>2, <2>3, Closes
<1>6. CASE ~(job[w].key \in Key \ {fresh} /\ Live(job[w].key))
  <2>1. ASSUME NEW k \in Key, k = job[w].key, k # fresh
        PROVE  LedgerOf(k)' = LedgerOf(k)
    <3>1. django_session'[k] = django_session[k]
      BY <1>0, <1>6, <2>1
    <3> QED
      BY <1>1, <3>1 DEF LedgerOf
  <2>2. LedgerStays
    BY <1>3, <1>4, <2>1 DEF LedgerStays
  <2> QED
    BY <1>1, <1>2, <2>2, Stutters
<1> QED
  BY <1>5, <1>6

\* The first save of a session opens it; that of a connect binds it.
LEMMA SaveOpensOrBinds ==
    ASSUME RInv, NEW w \in Worker, SaveSession(w)
    PROVE  [Ledger!Next]_(Ledger!vars)
<1>1. TypeOK /\ IInv
  BY DEF RInv, IInv
<1>2. PICK k \in Key, u \in User, s \in Sid \union {None} :
        k = job[w].key /\ u = job[w].user /\ s = job[w].sid
  BY <1>1 DEF SaveSession, TypeOK, WellFormed, JobFields
<1>3. DuesStay
  BY <1>1 DEF SaveSession, TypeOK, Idle, DuesStay, DueOf
<1>4. UNCHANGED social_account
  BY DEF SaveSession, outside, accounts
<1>5. CASE django_session[k] = None
  <2>1. UNCHANGED <<django_session, origin, handed, lost>>
    BY <1>2, <1>5 DEF SaveSession
  <2> QED
    BY <1>3, <1>4, <2>1, SameLedger, Stutters
<1>6. CASE django_session[k] # None
  <2>1. u # None /\ (s # None => social_account[SidSub[s]] = u)
    BY <1>1, <1>2, NoneAssumption DEF SaveSession, IInv, AccountsAgree, Writing
  <2>2. /\ django_session'[k] # None /\ django_session'[k].user = u
        /\ \A l \in Key \ {k} : django_session'[l] = django_session[l]
    <3> DEFINE row == [user |-> job[w].user,
                       expires |-> IF job[w].expiry = None THEN now + SessionAge
                                   ELSE job[w].expiry]
    <3>1. django_session' = [django_session EXCEPT ![k] = row]
      BY <1>2, <1>6 DEF SaveSession
    <3>2. row \in SessionRow
      BY <1>1, <1>2, TimeAssumption DEF SessionRow, TypeOK, JobFields
    <3>3. row.user = u
      BY <1>2
    <3> HIDE DEF row
    <3> QED
      BY <1>1, <3>1, <3>2, <3>3, NoneAssumption DEF TypeOK
  <2>3. /\ handed' = handed \union {k}
        /\ lost' = lost \union ({k} \X ({origin[k]} \ {None, origin'[k]}))
        /\ origin' = IF s = None THEN origin ELSE [origin EXCEPT ![k] = s]
    BY <1>2, <1>6 DEF SaveSession
  <2>4. /\ origin'[k] = IF s = None THEN origin[k] ELSE s
        /\ \A l \in Key \ {k} : origin'[l] = origin[l]
    BY <1>1, <2>3 DEF TypeOK
  <2>5. LedgerOf(k)' = [user |-> u, sid |-> origin'[k]]
    BY <2>1, <2>2 DEF LedgerOf
  <2>6. LedgerStaysBut(k)
    BY <2>2, <2>4 DEF LedgerOf, LedgerStaysBut
  <2>7. CASE k \notin handed
    <3>1. origin[k] = None
      BY <1>1, <2>7 DEF IInv, HandedKeysSignedIn
    <3>2. lost' = lost /\ origin'[k] = s
      BY <2>3, <2>4, <3>1
    <3> QED
      BY <1>3, <1>4, <2>1, <2>3, <2>5, <2>6, <2>7, <3>2, Opens
  <2>8. CASE k \in handed
    <3>1. django_session[k].user = u
      BY <1>1, <1>2, <1>6, <2>8
         DEF SaveSession, Writing, Holding, IInv, HandedKeysSignedIn,
             OneUserPerKey
    <3>2. LedgerOf(k) = [user |-> u, sid |-> origin[k]]
      BY <1>6, <2>1, <3>1 DEF LedgerOf
    <3>3. LedgerOf(k) # None
      BY <1>1, <3>2, EntryAssumption DEF Ledger!Entry, TypeOK
    <3>4. handed' = handed
      BY <2>3, <2>8
    <3>5. CASE s = None
      <4>1. origin' = origin /\ lost' = lost
        BY <2>3, <3>5
      <4>2. LedgerStays
        BY <2>5, <2>6, <3>2, <4>1 DEF LedgerStays, LedgerStaysBut
      <4> QED
        BY <1>3, <1>4, <3>4, <4>1, <4>2, Stutters
    <3>6. CASE s # None
      <4>1. s \in Sid /\ origin'[k] = s
        BY <2>4, <3>6
      <4>2. LedgerOf(k)' = [user |-> u, sid |-> s]
        BY <2>5, <4>1
      <4>3. lost' = lost \union ({k} \X ({origin[k]} \ {None, s}))
        BY <2>3, <4>1
      <4> QED
        BY <1>3, <1>4, <2>1, <2>6, <3>2, <3>3, <3>4, <3>6, <4>1, <4>2, <4>3,
           Binds
    <3> QED
      BY <3>5, <3>6
  <2> QED
    BY <2>7, <2>8
<1> QED
  BY <1>5, <1>6

LEMMA LedgerInit == Init => Ledger!Init
BY DEF Init, Idle, LedgerOf, DueOf, Ledger!Init

LEMMA LedgerNext == RInv /\ [Next]_vars => [Ledger!Next]_(Ledger!vars)
<1> SUFFICES ASSUME RInv, [Next]_vars PROVE [Ledger!Next]_(Ledger!vars)
  OBVIOUS
<1>1. ASSUME NEW w \in Worker, StartRequest(w)
      PROVE  [Ledger!Next]_(Ledger!vars)
  <2>1. CASE \E k \in handed : StartLocalLogout(w, k)
    BY <2>1, LocalLogoutCloses
  <2>2. CASE \E k \in handed, s \in Sid, hasSid \in BOOLEAN :
               StartConnect(w, k, s, hasSid)
    BY <2>2, StartConnectConnects
  <2> QED
    BY <1>1, <2>1, <2>2, RequestsStutter DEF StartRequest
<1>2. ASSUME NEW w \in Worker, RequestStep(w)
      PROVE  [Ledger!Next]_(Ledger!vars)
  <2>1. CASE CycleKey(w)
    BY <2>1, CycleKeyCloses
  <2>2. CASE RecordPortalSession(w)
    BY <2>2, RecordLosesTrack
  <2>3. CASE SaveSession(w)
    BY <2>3, SaveOpensOrBinds
  <2>4. CASE VerifyLogoutToken(w)
    BY <2>4, VerifyBegins
  <2>5. CASE DeleteSessions(w)
    BY <2>5, DeleteFinishes
  <2>6. CASE DeletePortalSessions(w)
    BY <2>6, ForgetLosesTrack
  <2>7. CASE RequestEnds(w)
    BY <2>7, RequestEndsAbandons
  <2>8. CASE \/ BoundSessionToCutoff(w) \/ SelectSessionKeys(w)
             \/ DeletePortalSession(w) \/ PingSession(w) \/ AnswerPing(w)
    BY <2>8, RequestsStutter
  <2> QED
    BY <1>2, <2>1, <2>2, <2>3, <2>4, <2>5, <2>6, <2>7, <2>8
       DEF RequestStep, LoginStep, LogoutStep
<1>3. CASE \E k \in handed : GlobalLogout(k)
  BY <1>3, GlobalLogoutCloses
<1>4. CASE (\E s \in Sid : PortalEnds(s)) \/ Tick \/ UNCHANGED vars
  BY <1>4, EnvironmentStutters
<1> QED
  BY <1>1, <1>2, <1>3, <1>4 DEF Next

-----------------------------------------------------------------------------

\* What the refinement rests on holds of every state: sids, accounts, records,
\* selected keys and sessions agree on whose they are, and whatever a logout
\* has selected is on its sid's record still, gone, or noted as lost.
THEOREM OwnersAgree == Spec => []RInv
<1>1. Init => RInv
  BY RInvInit
<1>2. RInv /\ [Next]_vars => RInv'
  BY RInvNext
<1> QED
  BY <1>1, <1>2, PTL DEF Spec

\* The handlers, one database statement at a time and interleaved in any way,
\* implement the ledger of sessions and what logouts owe: also where connects
\* of further portal accounts take a session from one sid to another.
THEOREM HandlersImplementLedger == Spec => ImplementsLedger
<1>1. Init => Ledger!Init
  BY LedgerInit
<1>2. RInv /\ [Next]_vars => [Ledger!Next]_(Ledger!vars)
  BY LedgerNext
<1> QED
  BY <1>1, <1>2, OwnersAgree, PTL DEF Spec, ImplementsLedger, Ledger!Spec

=============================================================================
