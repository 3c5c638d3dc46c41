--------------------------- MODULE PortalSessions ---------------------------
(***************************************************************************)
(* The sessions of one relying party: the rows of django_session, the      *)
(* PortalSession rows that map a portal session id (sid) to a session key, *)
(* and the requests of sso_portal_client that read and write both tables.  *)
(* Each request runs on a worker, one database statement per step: Django  *)
(* autocommits, so every statement is visible to the other workers at      *)
(* once and any of them may run between two steps of a request.            *)
(***************************************************************************)
EXTENDS Integers

CONSTANTS
    Key,                \* session keys; one is drawn per new session
    User,               \* rows of auth_user
    LocalUser,          \* users that may log in without the portal
    Sub,                \* users of the portal
    FirstAccounts,      \* the user each sub is connected to at the start, or None
    Sid,                \* portal session ids
    SidSub,             \* the sub each portal session is of
    Worker,             \* request slots of the WSGI server
    Day,                \* ticks per day
    SessionCutoffTime,  \* SESSION_CUTOFF_TIME as a tick of the day, or None
    SessionAge,         \* SESSION_COOKIE_AGE in ticks
    MaxTime,            \* bound of the clock
    None

ASSUME UserAssumption ==
    /\ LocalUser \subseteq User
    /\ FirstAccounts \in [Sub -> User \union {None}]
    /\ SidSub \in [Sid -> Sub]

ASSUME TimeAssumption ==
    /\ Day \in Nat \ {0}
    /\ SessionCutoffTime \in (0 .. Day - 1) \union {None}
    /\ SessionAge \in Nat
    /\ MaxTime \in Nat

\* A row of django_session: the user its data names (None before
\* authentication) and expire_date.
SessionRow == [user: User \union {None}, expires: Nat]

\* A row of PortalSession, under its unique session_key.
PortalRow == [sid: Sid, user: User]

ASSUME NoneAssumption ==
    /\ None \notin Key
    /\ None \notin User
    /\ None \notin Sub
    /\ None \notin Sid
    /\ None \notin Nat
    /\ None \notin SessionRow
    /\ None \notin PortalRow

VARIABLES
    django_session,     \* Key -> its row, or None
    portal_session,     \* session_key -> its PortalSession row, or None
    social_account,     \* uid (a sub) -> the user of its SocialAccount, or None
    oldest_account,     \* User -> uid of the account with the lowest pk, or None
    handed,             \* keys some response has set as the session cookie
    job,                \* Worker -> the request it is handling
    ended,              \* portal sessions the portal has ended
    now,                \* the clock
    \* History, read by no guard except the freshness of a new key:
    issued,             \* keys drawn so far
    origin,             \* Key -> the latest sid its session was saved with
    lost,               \* <<key, sid>>: no logout of the sid need find the session
    acked               \* sids a back-channel logout was answered 200 for

vars == <<django_session, portal_session, social_account, oldest_account,
          handed, job, ended, now, issued, origin, lost, acked>>

-----------------------------------------------------------------------------

PC == {"idle", "cycle", "record", "bound", "save",
       "verify", "select", "delete", "forget", "unrecord", "ping", "account"}

Idle == [pc |-> "idle", portal |-> FALSE, key |-> None, user |-> None,
         sid |-> None, expiry |-> None, keys |-> {}, victims |-> {}]

\* What a request must hold at each point of its handler.
WellFormed(j) ==
    /\ j.pc \in {"record", "bound", "save", "unrecord", "ping"} => j.key \in Key
    /\ j.pc \in {"cycle", "record", "bound", "save", "ping", "account"}
          => j.user \in User
    /\ j.pc \in {"verify", "select", "delete", "forget"} => j.sid \in Sid
    /\ j.pc \in {"cycle", "record", "bound", "save"} /\ ~j.portal => j.sid = None

JobFields == [pc: PC, portal: BOOLEAN, key: Key \union {None},
              user: User \union {None}, sid: Sid \union {None},
              expiry: Nat \union {None},
              keys: SUBSET Key, victims: SUBSET Key]

\* A session row that still loads: expired ones are filtered by expire_date.
Live(k) == django_session[k] # None /\ now < django_session[k].expires

\* The PortalSession row of the key names the sid.
Tracked(k, s) == portal_session[k] # None /\ portal_session[k].sid = s

Authenticated(k) == Live(k) /\ django_session[k].user # None

\* request.session.flush(): the row goes if it was loaded.
Flush(k) == IF Live(k) THEN [django_session EXCEPT ![k] = None]
                       ELSE django_session

\* Mutant: always the cutoff of the next calendar day.
NextCutoff_Tomorrow(t) == (t - (t % Day)) + SessionCutoffTime + Day

\* localtime().replace(cutoff), a day later unless strictly ahead.
NextCutoff(t) ==
    LET today == (t - (t % Day)) + SessionCutoffTime
    IN  IF today <= t THEN today + Day ELSE today

TypeOK ==
    /\ django_session \in [Key -> SessionRow \union {None}]
    /\ portal_session \in [Key -> PortalRow \union {None}]
    /\ social_account \in [Sub -> User \union {None}]
    /\ oldest_account \in [User -> Sub \union {None}]
    /\ handed \subseteq Key
    /\ job \in [Worker -> JobFields]
    /\ \A w \in Worker : WellFormed(job[w])
    /\ ended \subseteq Sid
    /\ now \in Nat
    /\ issued \subseteq Key
    /\ origin \in [Key -> Sid \union {None}]
    /\ lost \subseteq Key \X Sid
    /\ acked \subseteq Sid

\* .first() without an ordering takes the row with the lowest pk.
OldestAccounts ==
    \A u \in User :
        IF oldest_account[u] = None THEN \A p \in Sub : social_account[p] # u
                                    ELSE social_account[oldest_account[u]] = u

Init ==
    /\ django_session = [k \in Key |-> None]
    /\ portal_session = [k \in Key |-> None]
    /\ social_account = FirstAccounts
    /\ oldest_account \in [User -> Sub \union {None}]
    /\ OldestAccounts
    /\ handed = {}
    /\ job = [w \in Worker |-> Idle]
    /\ ended = {}
    /\ now = 0
    /\ issued = {}
    /\ origin = [k \in Key |-> None]
    /\ lost = {}
    /\ acked = {}

history == <<issued, origin, lost, acked>>
accounts == <<social_account, oldest_account>>
outside == <<accounts, ended, now>>

-----------------------------------------------------------------------------
(* Login. allauth has exchanged the code for claims; login() then moves the  *)
(* browser to a fresh key, the receivers run, and the session middleware     *)
(* saves the session with the response.                                      *)

\* A portal login: the claims come from a portal session that is still open,
\* and may lack a sid.
StartPortalLogin(w, k, s, hasSid) ==
    /\ job[w] = Idle
    /\ s \notin ended
    /\ social_account[SidSub[s]] # None
    /\ job' = [job EXCEPT ![w] =
                [Idle EXCEPT !.pc = "cycle", !.portal = TRUE, !.key = k,
                             !.user = social_account[SidSub[s]],
                             !.sid = IF hasSid THEN s ELSE None]]
    /\ UNCHANGED <<django_session, portal_session, handed, outside, history>>

\* A login with no sociallogin of the portal; allauth turns away a browser
\* that is already signed in.
StartLocalLogin(w, k, u) ==
    /\ job[w] = Idle
    /\ k # None => ~Authenticated(k)
    /\ job' = [job EXCEPT ![w] = [Idle EXCEPT !.pc = "cycle", !.key = k,
                                              !.user = u]]
    /\ UNCHANGED <<django_session, portal_session, handed, outside, history>>

\* login(): a row under a fresh key, without the user yet; the old row goes.
\* The receiver returns at once for a login that is not the portal's.
CycleKey(w) ==
    /\ job[w].pc = "cycle"
    /\ \E fresh \in Key \ issued :
        /\ django_session' =
             [k \in Key |->
                CASE k = fresh -> [user |-> None, expires |-> now + SessionAge]
                  [] k # fresh /\ k = job[w].key /\ Live(k) -> None
                  [] OTHER -> django_session[k]]
        /\ issued' = issued \union {fresh}
        /\ job' = [job EXCEPT
                     ![w].key = fresh,
                     ![w].pc = IF job[w].portal THEN "record" ELSE "save"]
    /\ UNCHANGED <<portal_session, handed, outside, origin, lost, acked>>

\* A SocialAccount is inserted for a sub that has none.
AddAccount(p, u) ==
    /\ social_account[p] = None
    /\ social_account' = [social_account EXCEPT ![p] = u]
    /\ oldest_account' = IF oldest_account[u] # None THEN oldest_account
                         ELSE [oldest_account EXCEPT ![u] = p]

\* Mutant: the receiver is handed a user other than the one signed in.
StartConnect_OtherUser(w, k, s, hasSid) ==
    /\ job[w] = Idle
    /\ s \notin ended
    /\ Authenticated(k)
    /\ \E u \in User :
        /\ AddAccount(SidSub[s], u)
        /\ job' = [job EXCEPT ![w] =
                    [Idle EXCEPT !.pc = "record", !.portal = TRUE, !.key = k,
                                 !.user = u, !.sid = IF hasSid THEN s ELSE None]]
    /\ UNCHANGED <<django_session, portal_session, handed, ended, now, history>>

\* Connecting a portal account that nobody has to the user who is signed in,
\* locally or through the portal: the same receiver, on the session the browser
\* already has. (allauth sends social_account_added only for a new account.)
StartConnect(w, k, s, hasSid) ==
    /\ job[w] = Idle
    /\ s \notin ended
    /\ Authenticated(k)
    /\ AddAccount(SidSub[s], django_session[k].user)
    /\ job' = [job EXCEPT ![w] =
                [Idle EXCEPT !.pc = "record", !.portal = TRUE, !.key = k,
                             !.user = django_session[k].user,
                             !.sid = IF hasSid THEN s ELSE None]]
    /\ UNCHANGED <<django_session, portal_session, handed, ended, now, history>>

\* Mutant: the early return for claims without a sid is missing.
RecordPortalSession_NoSid(w) ==
    /\ job[w].pc = "record"
    /\ portal_session' = [portal_session EXCEPT ![job[w].key] =
                            [sid |-> job[w].sid, user |-> job[w].user]]
    /\ job' = [job EXCEPT ![w].pc = "bound"]
    /\ UNCHANGED <<django_session, handed, outside, history>>

\* _record_portal_session: update_or_create by session_key, once
\* sync_user_groups has returned. A row that named another sid, in a session
\* that connects one more account, is moved to this one before the save.
RecordPortalSession(w) ==
    LET k == job[w].key IN
    /\ job[w].pc = "record"
    /\ IF job[w].sid = None THEN UNCHANGED <<portal_session, lost>>
       ELSE /\ portal_session' = [portal_session EXCEPT ![k] =
                 [sid |-> job[w].sid, user |-> job[w].user]]
            /\ lost' = lost \union
                 ({k} \X {s \in Sid \ {job[w].sid} : Tracked(k, s)})
    /\ job' = [job EXCEPT ![w].pc = "bound"]
    /\ UNCHANGED <<django_session, handed, outside, issued, origin, acked>>

\* Mutant: the expiry is written to the table at once, in a row made if missing.
BoundSessionToCutoff_Upserts(w) ==
    LET k == job[w].key
        expiry == IF SessionCutoffTime = None THEN now + SessionAge
                  ELSE NextCutoff(now)
    IN  /\ job[w].pc = "bound"
        /\ django_session' = [django_session EXCEPT ![k] =
              [user |-> IF @ = None THEN None ELSE @.user, expires |-> expiry]]
        /\ job' = [job EXCEPT ![w].pc = "save", ![w].expiry = expiry]
        /\ UNCHANGED <<portal_session, handed, outside, history>>

\* _bound_session_to_cutoff: in memory only, until the session is saved.
BoundSessionToCutoff(w) ==
    /\ job[w].pc = "bound"
    /\ job' = [job EXCEPT ![w].pc = "save",
                          ![w].expiry = IF SessionCutoffTime = None THEN None
                                        ELSE NextCutoff(now)]
    /\ UNCHANGED <<django_session, portal_session, handed, outside, history>>

\* The session middleware on the way out: an UPDATE that never inserts, so a
\* row deleted meanwhile makes the response a 400 that sets no cookie. Saved
\* with another sid, the session belongs to that portal session from now on.
SaveSession(w) ==
    LET k == job[w].key IN
    /\ job[w].pc = "save"
    /\ IF django_session[k] = None
       THEN UNCHANGED <<django_session, handed, origin, lost>>
       ELSE /\ django_session' = [django_session EXCEPT ![k] =
                 [user |-> job[w].user,
                  expires |-> IF job[w].expiry = None THEN now + SessionAge
                              ELSE job[w].expiry]]
            /\ handed' = handed \union {k}
            /\ origin' = IF job[w].sid = None THEN origin
                         ELSE [origin EXCEPT ![k] = job[w].sid]
            /\ lost' = lost \union
                         ({k} \X ({origin[k]} \ {None, origin'[k]}))
    /\ job' = [job EXCEPT ![w] = Idle]
    /\ UNCHANGED <<portal_session, outside, issued, acked>>

-----------------------------------------------------------------------------
(* Back-channel logout, a POST by the portal for a session it has ended. It  *)
(* may come late, more than once, and again after an error.                  *)

StartBackchannelLogout(w, s) ==
    /\ job[w] = Idle
    /\ s \in ended
    /\ job' = [job EXCEPT ![w] = [Idle EXCEPT !.pc = "verify", !.sid = s]]
    /\ UNCHANGED <<django_session, portal_session, handed, outside, history>>

\* The token verifies. (A 400 or 503 is RequestEnds.) victims is history: the
\* sessions of this sid that were in place before the handler touched a table.
VerifyLogoutToken(w) ==
    /\ job[w].pc = "verify"
    /\ job' = [job EXCEPT ![w].pc = "select",
                          ![w].victims = {k \in Key : /\ django_session[k] # None
                                                      /\ origin[k] = job[w].sid
                                                      /\ <<k, job[w].sid>> \notin lost}]
    /\ UNCHANGED <<django_session, portal_session, handed, outside, history>>

KeysOf(s) == {k \in Key : Tracked(k, s)}

\* For the mutants: the slice [:1] of the keys, in whatever order they come.
FirstOf(keys) == IF keys = {} THEN {{}} ELSE {{k} : k \in keys}

\* Mutant: only one of the matching rows is read.
SelectSessionKeys_First(w) ==
    /\ job[w].pc = "select"
    /\ \E keys \in FirstOf(KeysOf(job[w].sid)) :
        job' = [job EXCEPT ![w].pc = "delete", ![w].keys = keys]
    /\ UNCHANGED <<django_session, portal_session, handed, outside, history>>

SelectSessionKeys(w) ==
    /\ job[w].pc = "select"
    /\ job' = [job EXCEPT ![w].pc = "delete", ![w].keys = KeysOf(job[w].sid)]
    /\ UNCHANGED <<django_session, portal_session, handed, outside, history>>

\* Mutant: only the first of the keys is deleted.
DeleteSessions_First(w) ==
    /\ job[w].pc = "delete"
    /\ \E first \in FirstOf(job[w].keys) :
        django_session' = [k \in Key |-> IF k \in first THEN None
                                         ELSE django_session[k]]
    /\ job' = [job EXCEPT ![w].pc = "forget"]
    /\ UNCHANGED <<portal_session, handed, outside, history>>

DeleteSessions(w) ==
    /\ job[w].pc = "delete"
    /\ django_session' = [k \in Key |-> IF k \in job[w].keys THEN None
                                        ELSE django_session[k]]
    /\ job' = [job EXCEPT ![w].pc = "forget"]
    /\ UNCHANGED <<portal_session, handed, outside, history>>

\* Mutant: only one of the matching rows is deleted.
DeletePortalSessions_One(w) ==
    /\ job[w].pc = "forget"
    /\ \E found \in FirstOf(KeysOf(job[w].sid)) :
        /\ portal_session' = [k \in Key |-> IF k \in found THEN None
                                            ELSE portal_session[k]]
        /\ lost' = lost \union ((found \ job[w].keys) \X {job[w].sid})
    /\ acked' = acked \union {job[w].sid}
    /\ job' = [job EXCEPT ![w] = Idle]
    /\ UNCHANGED <<django_session, handed, outside, issued, origin>>

\* portal_sessions.delete() queries by sid again: it takes what the database
\* holds now, whether or not it was selected. The answer is 200.
DeletePortalSessions(w) ==
    LET found == KeysOf(job[w].sid) IN
    /\ job[w].pc = "forget"
    /\ portal_session' = [k \in Key |-> IF k \in found THEN None
                                        ELSE portal_session[k]]
    /\ lost' = lost \union ((found \ job[w].keys) \X {job[w].sid})
    /\ acked' = acked \union {job[w].sid}
    /\ job' = [job EXCEPT ![w] = Idle]
    /\ UNCHANGED <<django_session, handed, outside, issued, origin>>

-----------------------------------------------------------------------------
(* The browser's other requests. Any key ever set as a cookie may come back, *)
(* since a request can be under way while another one changes the cookie.    *)

\* Mutant: the session is not flushed, only its PortalSession row will go.
StartLocalLogout_NoFlush(w, k) ==
    /\ job[w] = Idle
    /\ job' = [job EXCEPT ![w] = [Idle EXCEPT !.pc = "unrecord", !.key = k]]
    /\ UNCHANGED <<django_session, portal_session, handed, outside, history>>

\* local_logout reads the key, then flushes. A session that no longer loads
\* is left in the table, though its PortalSession row will go.
StartLocalLogout(w, k) ==
    /\ job[w] = Idle
    /\ django_session' = Flush(k)
    /\ lost' = IF django_session'[k] = None THEN lost
               ELSE lost \union ({k} \X Sid)
    /\ job' = [job EXCEPT ![w] = [Idle EXCEPT !.pc = "unrecord", !.key = k]]
    /\ UNCHANGED <<portal_session, handed, outside, issued, origin, acked>>

DeletePortalSession(w) ==
    /\ job[w].pc = "unrecord"
    /\ portal_session' = [portal_session EXCEPT ![job[w].key] = None]
    /\ job' = [job EXCEPT ![w] = Idle]
    /\ UNCHANGED <<django_session, handed, outside, history>>

\* global_logout flushes first and unconditionally; the redirect that follows
\* writes nothing, and the PortalSession row stays.
GlobalLogout(k) ==
    /\ Live(k)
    /\ django_session' = Flush(k)
    /\ UNCHANGED <<portal_session, handed, job, outside, history>>

\* session_ping loads the session and its user; anonymous is a 401.
StartPing(w, k) ==
    /\ job[w] = Idle
    /\ Authenticated(k)
    /\ job' = [job EXCEPT ![w] = [Idle EXCEPT !.pc = "ping", !.key = k,
                                   !.user = django_session[k].user]]
    /\ UNCHANGED <<django_session, portal_session, handed, outside, history>>

\* It then reads the sid of the PortalSession row under the session's key,
PingSession(w) ==
    LET row == portal_session[job[w].key] IN
    /\ job[w].pc = "ping"
    /\ job' = [job EXCEPT ![w].pc = "account",
                          ![w].sid = IF row = None THEN None ELSE row.sid]
    /\ UNCHANGED <<django_session, portal_session, handed, outside, history>>

\* Mutant: the accounts are not filtered by their user.
PingSub_Unfiltered(w) == CHOOSE p \in Sub : social_account[p] # None

\* and the sub of the user's first portal account.
PingSub(w) == oldest_account[job[w].user]

\* Mutant: the ping saves the session with a new expiry.
AnswerPing_Refreshes(w) ==
    LET k == job[w].key IN
    /\ job[w].pc = "account"
    /\ django_session' =
         IF django_session[k] = None THEN django_session
         ELSE [django_session EXCEPT ![k].expires = now + SessionAge]
    /\ job' = [job EXCEPT ![w] = Idle]
    /\ UNCHANGED <<portal_session, handed, outside, history>>

\* The answer is [sub |-> PingSub(w), sid |-> job[w].sid].
AnswerPing(w) ==
    /\ job[w].pc = "account"
    /\ job' = [job EXCEPT ![w] = Idle]
    /\ UNCHANGED <<django_session, portal_session, handed, outside, history>>

-----------------------------------------------------------------------------

\* A request ends early: sync_user_groups or a claims_synced receiver raised
\* (a 500, which saves no session), the token was refused or could not be
\* verified, a statement failed, or the worker died.
RequestEnds(w) ==
    /\ job[w].pc # "idle"
    /\ job' = [job EXCEPT ![w] = Idle]
    /\ UNCHANGED <<django_session, portal_session, handed, outside, history>>

PortalEnds(s) ==
    /\ s \notin ended
    /\ ended' = ended \union {s}
    /\ UNCHANGED <<django_session, portal_session, accounts, handed, job, now,
                   history>>

Tick ==
    /\ now < MaxTime
    /\ now' = now + 1
    /\ UNCHANGED <<django_session, portal_session, accounts, handed, job, ended,
                   history>>

LoginStep(w) ==
    \/ CycleKey(w)
    \/ RecordPortalSession(w)
    \/ BoundSessionToCutoff(w)
    \/ SaveSession(w)

LogoutStep(w) ==
    \/ VerifyLogoutToken(w)
    \/ SelectSessionKeys(w)
    \/ DeleteSessions(w)
    \/ DeletePortalSessions(w)

RequestStep(w) ==
    \/ LoginStep(w)
    \/ LogoutStep(w)
    \/ DeletePortalSession(w)
    \/ PingSession(w)
    \/ AnswerPing(w)
    \/ RequestEnds(w)

StartRequest(w) ==
    \/ \E k \in handed \union {None} :
        \/ \E s \in Sid, hasSid \in BOOLEAN : StartPortalLogin(w, k, s, hasSid)
        \/ \E u \in LocalUser : StartLocalLogin(w, k, u)
    \/ \E k \in handed :
        \/ \E s \in Sid, hasSid \in BOOLEAN : StartConnect(w, k, s, hasSid)
        \/ StartLocalLogout(w, k)
        \/ StartPing(w, k)
    \/ \E s \in Sid : StartBackchannelLogout(w, s)

Next ==
    \/ \E w \in Worker :
        \/ StartRequest(w)
        \/ RequestStep(w)
    \/ \E k \in handed : GlobalLogout(k)
    \/ \E s \in Sid : PortalEnds(s)
    \/ Tick

Spec == Init /\ [][Next]_vars

-----------------------------------------------------------------------------
(* Properties *)

\* A PortalSession row names the user its session is signed in as, however
\* logins, connects and logouts of several users interleave: user and
\* session_key are written by _record_portal_session, the session by the
\* middleware after it.
RecordedUserIsSessionUser ==
    \A k \in Key :
        portal_session[k] # None /\ django_session[k] # None
            => django_session[k].user \in {None, portal_session[k].user}

\* session_ping answers from three reads, with any requests in between. The sid
\* it has found is of a portal account of the user whose sub it will answer:
\* with one account per user, sub and sid are of one portal user.
PingAnswersForOneUser ==
    \A w \in Worker :
        job[w].pc = "account" /\ job[w].sid # None
            => /\ social_account[SidSub[job[w].sid]] = job[w].user
               /\ PingSub(w) # None
               /\ social_account[PingSub(w)] = job[w].user

\* A session saved with a sid is tracked under that sid until it is gone,
\* except where another request lost track of it: a back-channel logout deleted
\* a row it had not selected, a local logout found the session expired, or the
\* connect of another portal account moved the row of the session to its own
\* sid. No failure, login or interrupted save loses a row in any other way.
TrackedUnlessLost ==
    \A k \in Key :
        Live(k) /\ origin[k] # None /\ <<k, origin[k]>> \notin lost
            => Tracked(k, origin[k])

\* Once backchannel_logout has deleted what it selected, every session of the
\* sid that was in place when it began is gone, unless another request lost
\* track of it meanwhile.
LogoutKillsEstablished ==
    \A w \in Worker :
        job[w].pc = "forget"
            => \A k \in job[w].victims :
                    django_session[k] = None \/ <<k, job[w].sid>> \in lost

\* A portal session never crosses a cutoff: its expiry is one, and none lies
\* between the present and that expiry.
EndsDay(expires, t) ==
    /\ expires % Day = SessionCutoffTime
    /\ \A u \in t + 1 .. expires - 1 : u % Day # SessionCutoffTime

PortalSessionsDieAtCutoff ==
    \A k \in Key :
        Live(k) /\ origin[k] # None /\ SessionCutoffTime # None
            => EndsDay(django_session[k].expires, now)

\* A session row that is gone stays gone: no save in flight brings back what a
\* logout has deleted.
Gone(k) == k \in issued /\ django_session[k] = None

NoResurrection == [][\A k \in Key : Gone(k) => Gone(k)']_vars

\* A live portal session is never prolonged, by the ping of an open widget least
\* of all. Only the connect of a portal account extends its row, and where
\* there is a cutoff only that of a session it found alive and that has reached
\* the cutoff since.
Prolonged(k) ==
    /\ django_session[k] # None /\ django_session'[k] # None /\ origin[k] # None
    /\ django_session'[k].expires > django_session[k].expires

Reconnects(w, k) == job[w].portal /\ job[w].key = k /\ SaveSession(w)

OnlyConnectsProlong ==
    [][\A k \in Key : Prolonged(k) =>
        /\ SessionCutoffTime # None => ~Live(k)
        /\ \E w \in Worker : Reconnects(w, k)]_vars

-----------------------------------------------------------------------------
(* The ledger these tables implement: a session is in it once its row names  *)
(* a user, under the sid it was saved with.                                  *)

LedgerOf(k) ==
    IF django_session[k] = None THEN None
    ELSE IF django_session[k].user = None THEN None
    ELSE [user |-> django_session[k].user, sid |-> origin[k]]

DueOf(w) ==
    IF job[w].pc \in {"select", "delete"}
    THEN [sid |-> job[w].sid, keys |-> job[w].victims]
    ELSE None

Ledger == INSTANCE SessionLedger
            WITH ledger <- [k \in Key |-> LedgerOf(k)],
                 used <- handed,
                 owner <- social_account,
                 untracked <- lost,
                 due <- [w \in Worker |-> DueOf(w)]

ASSUME EntryAssumption == None \notin Ledger!Entry /\ None \notin Ledger!Logout

\* The handlers, interleaved, keep the promises of SessionLedger: a key is
\* signed in once, a session never changes its user, its sid is always of a
\* portal account of that user, and a back-channel logout closes all the
\* sessions it owes and none of other portal sessions that it can tell apart.
ImplementsLedger == Ledger!Spec

-----------------------------------------------------------------------------
(* What the documentation says of them, and what follows under fairness.     *)

\* README, Back-channel logout: the package records the sid of every login and
\* deletes the matching sessions. So each live session of a sid is on record.
LiveSessionsAreTracked ==
    \A k \in Key : Live(k) /\ origin[k] # None => Tracked(k, origin[k])

\* The same passage: an answered back-channel logout has ended the sessions of
\* its sid, but for those that were taken off its record.
LogoutEndsSessions ==
    \A k \in Key :
        Live(k) /\ origin[k] \in acked => <<k, origin[k]>> \in lost

\* global_logout, and sessions that expire, leave PortalSession rows behind.
\* These are gone with the others once the portal has been answered 200 for
\* the sid; no row of it is added after that.
AckedLeaveNoRows == \A s \in acked : KeysOf(s) = {}

\* Of any number of requests at once: for each session of an ended portal
\* session there comes a time from which on it is closed for good, or lost in
\* one of the ways TrackedUnlessLost names. A login that the end of the portal
\* session, or some attempts, have overtaken is closed by a later attempt.
LeftOpen(k, s) == Live(k) /\ origin[k] = s /\ <<k, s>> \notin lost

EndedCloses(s, k) == s \in ended ~> []~LeftOpen(k, s)

EndedSessionsClose == \A s \in Sid, k \in Key : EndedCloses(s, k)

ForgetFor(w, s) == job[w].sid = s /\ DeletePortalSessions(w)

\* Fairness, with each action's guard written out. A request under way goes on
\* or ends: at every point of it some RequestStep can be taken.
FairRequest(w) == []<>(job[w].pc = "idle") \/ []<><<RequestStep(w)>>_vars

\* The portal keeps sending each logout, and some worker it comes to whenever
\* that is free does not fail every attempt from some time on.
FairAttempts(w, s) ==
    []<>(job[w] = Idle /\ s \in ended) => []<><<ForgetFor(w, s)>>_vars

Fairness ==
    /\ \A w \in Worker : FairRequest(w)
    /\ \A s \in Sid : \E w \in Worker : FairAttempts(w, s)

FairSpec == Spec /\ Fairness
=============================================================================
