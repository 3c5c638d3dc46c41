# sso_portal_client in TLA+

`sso_portal_client` is a Django package for a *relying party* (RP) of an OpenID
Connect portal: users sign in through the portal (django-allauth does the
exchange), the portal's groups become Django groups, and the portal may end a
user's session here at any time by a back-channel logout. This directory holds
TLA+ modules of the package, TLC configurations that check them on small
instances, and proofs of their main properties that TLAPS checks for every
value of the constants. Paths below are relative to `src/`; `views.py` means
`sso_portal_client/views.py`, and so on.

    PortalSessions   sessions, PortalSession rows, login, logouts, ping, cutoff
    GroupSync        groups and staff flags of one user under concurrent logins
    LogoutUpstream   verification of a logout token: discovery, JWKS, the lock
    PortalIdentity   signup, usernames, stored claims and their readers
    SwitchWidget     the pages of one browser: portal_user, CSRF, COOP header
    DaylightCutoff   the cutoff on a wall clock that changes
    SessionLedger    the promises of PortalSessions, without tables or requests
    RelyingParty     SessionLedger, LogoutUpstream and the portal's deliveries
    X / MCX / XProofs  the module, its instances for TLC, its invariant and theorems
    PortalSessionsRefinement   PortalSessions implements SessionLedger: proof

## 1. The system

| Component | Code | State | Operations |
|---|---|---|---|
| session tracking | `models.py`, `migrations/` | table `PortalSession`: `session_key` (unique), `sid`, `user` | written by the receivers, deleted by the logouts |
| login receivers | `receivers.py`, `apps.py` | none of their own | `on_user_logged_in`, `on_social_account_added`: sync groups, record the sid, bound the session to the cutoff, send `claims_synced` |
| back-channel logout | `views.py:144-186` | none of its own | `backchannel_logout`: verify the token, select session keys of the sid, delete the sessions, delete the rows |
| discovery and JWKS caches | `views.py:46-141` | `_discovery_cache`, `_jwk_clients`, `_cache_lock`, per process; the JWK set inside PyJWT's client | `_discovery`, `_jwk_client`, `_decode_logout_token` |
| session ping | `views.py:189-217` | none | reads the user of the session, then the sid of its row, then the sub of the user's account |
| local logout | `views.py:220-228` | none | flushes the session, deletes its row |
| global logout | `views.py:231-293` | none | flushes the session, redirects to the portal |
| group and flag sync | `sync.py` | `auth_group`, memberships, `is_staff`, `is_superuser` | `sync_user_groups` |
| session cutoff | `receivers.py:77-97`, `conf.py:92-110` | the session's expiry | `_bound_session_to_cutoff` |
| usernames | `adapters.py` | `auth_user.username` at signup | `populate_user` |
| claims access | `claims.py` | reads `SocialAccount.extra_data` | `get_claims`, `get_claim` |
| switch plumbing | `middleware.py`, `context_processors.py`, `templatetags/` | one lazy object per request | `request.portal_user` and its readers, the COOP header, the CSRF token |
| settings | `conf.py` | `SSO_PORTAL_CLIENT` | validation, derived URLs |
| widget markup | `templates/` | the CSRF token and URLs of its page | hands them to a script that the portal serves |
| example project | `example_project/` | none of interest | |

How they interact. allauth's login calls Django's `login()`, which writes
`django_session`, and then sends a signal; the receivers run inside that request
and write `auth_group`, the memberships, the user and `PortalSession`; the
session middleware saves the session when the response leaves. The portal calls
`backchannel_logout` from outside, which reads and deletes the same two tables.
The browser's switch widget polls the session ping and calls local logout. The
caches are shared by the threads of a process, and by back-channel and global
logout.

What makes this hard. Nothing in the package opens a transaction or takes a row
lock, and Django autocommits: each statement of a request is visible to all
others at once, and a request may stop between any two. A login and the logout
of the same portal session, two logins of one user, a ping and a login in the
same browser all meet in the middle. Sessions expire by the clock. The portal
repeats logouts, rotates keys and changes its discovery document while threads
hold copies. Pages stay open in one tab while another signs in. The cutoff is a
time on a wall clock that is moved twice a year.

What correctness means here, component by component:

- *session tracking, logout*: a row names its session's user; a session can be
  found by its sid, but for the cases that are named; a logout ends what was in
  place; what is ended stays ended; the portal's retries succeed in the end.
- *session cutoff*: a portal session lives to the next cutoff and no longer,
  and nothing but a connect prolongs it.
- *ping*: its answer never mixes two users.
- *group sync*: a login leaves of every group what its claim says, unless
  somebody who disagrees wrote meanwhile; local groups outside the prefix are
  safe; nobody loses a group meanwhile.
- *caches*: nothing stale is used for longer than configured, a new key is
  adopted, and every logout gets the lock and an answer.
- *the whole, towards the portal*: a logout answered with 200 has closed the
  sessions that were open when the portal ended theirs.
- *switch plumbing*: a page knows one identity, its own, and cannot end a
  session of somebody else.
- *usernames, claims*: a portal user keeps the username made of its sub and
  nobody else gets it; two readers of stored claims agree.

`PROJECT.json` lists the hazards, each at its line, with the properties that
would catch it.

## 2. PortalSessions

The state is the two tables and the requests under way.

| TLA+ | code |
|---|---|
| `django_session[k]` | the row under session key `k`: the user in its data, `expire_date` |
| `portal_session[k]` | the `PortalSession` row under `k` (`session_key` is unique) |
| `social_account[p]` | the user of the `SocialAccount` whose uid is the sub `p` |
| `oldest_account[u]` | the sub of the user's account with the lowest primary key |
| `handed` | keys that some response set as the session cookie |
| `job[w]` | the request worker `w` handles: its next statement and its local variables |
| `ended` | portal sessions the portal has ended |
| `now` | the clock, in ticks; `Day` ticks make a day |
| `origin[k]` | history: the sid the session under `k` was last saved with |
| `lost` | history: pairs of a key and a sid; no logout of the sid need find the session |
| `issued`, `acked` | history: keys drawn, sids that a logout was answered 200 for |

A request is a chain of steps, one database statement each:

    login      StartPortalLogin  CycleKey  RecordPortalSession
               BoundSessionToCutoff  SaveSession        (StartLocalLogin skips
               the two in the middle; StartConnect has no CycleKey)
    logout     StartBackchannelLogout  VerifyLogoutToken  SelectSessionKeys
               DeleteSessions  DeletePortalSessions
    others     StartLocalLogout  DeletePortalSession;  GlobalLogout;
               StartPing  PingSession  AnswerPing

`RequestEnds` stops a request between any two of them: an exception in group
sync or in a `claims_synced` receiver, a refused token, a failing database, a
dead worker. `PortalEnds` and `Tick` are the environment.

What Django and allauth do is modelled from how this package depends on it:
`login()` creates a row under a fresh key (`receivers.py:63-64` relies on it)
and flushes the old session; the session's data, the user and the expiry
included, reach the table only when the middleware saves the response; that save
is an update that never inserts, so a login whose row has been deleted meanwhile
ends in a 400 without a cookie; expired rows do not load. `CycleKey` takes the
flush of the old row and the insertion of the fresh one in one step: no property
relates the two rows. Group sync writes other tables and is in GroupSync.

**Connects.** `on_social_account_added` runs for every account that is added, and
allauth lets anybody connect one who is signed in, with a password or through a
portal account that he has already. `StartConnect` has no other guard than that
the account is new (allauth sends the signal for no other). A connect works in
the session the browser has. If that is a portal session of sid `s1`, then
`update_or_create` (`receivers.py:71`) moves its row to the sid `s2` of the new
account, and the save that follows gives it a new expiry;
`tests/test_receivers.py` has the re-recording
(`test_repeat_login_same_session_updates_portal_session`). From that save on the
session belongs to `s2` (`origin`). In between, and for good if group sync or a
receiver of `claims_synced` raises after the record or the worker dies, it is a
session of `s1` that is on record under `s2`: a logout of `s1` does not find it.
The model notes the pair in `lost`, and the properties name this case as one of
three in which a session may escape the logout of its sid:

1. a back-channel logout deletes a row that it had not selected (`views.py:175`);
2. a local logout finds the session expired, leaves it in the table and deletes
   its row (`views.py:226`), and a connect under way saves it with a new expiry;
3. a connect moves the row of the session to the sid of another portal account
   (`receivers.py:71`).

`lost` names the sid too: case 3 loses a session to `s1` only, and the logout of
`s2` must still find it.

A ping answers the sub of the *first* portal account of the user
(`views.py:211`), the oldest one (`.first()` of an unordered queryset is by
primary key), and the sid of the session's row. Of a user with two accounts these
may be of different accounts, in the code as in the model; what
`PingAnswersForOneUser` says is that both accounts are of that user.

**Checked.** `sessions`: two requests at a time, two users, two portal accounts,
of which one is connected at first and whoever asks first connects the other,
two portal sessions, one of each, and two session keys. The clock stands still in
this run, as time matters to its properties only through sessions that expire in
the middle of a request: that is left to the proofs. Two keys are the least with
which a login, its predecessor in the same browser and a concurrent logout can
all differ.

- `RecordedUserIsSessionUser`, `PingAnswersForOneUser`: row, session, sub and sid
  of one session are of one user.
- `TrackedUnlessLost`: which sessions can be found by sid, and the only three
  ways to lose one.
- `LogoutKillsEstablished`: what an attempt at a logout has ended by the time it
  deletes the rows.
- `NoResurrection`: nothing brings a deleted session back.

The same run checks `ImplementsLedger`, see section 3.

`sequential`: one worker, and one user with one portal account who may connect a
second one, also in a portal session, or log in without the portal. The day has
two ticks, the cutoff is on the second, and the clock runs to it: there are
logins before and at the cutoff, sessions that reach it, and connects that were
under way then.

- `PortalSessionsDieAtCutoff`: the expiry of a portal session is a cutoff, and
  the next one.
- `OnlyConnectsProlong`: nothing, the ping included, moves the expiry of a live
  portal session later. Only the connect of another account moves that of a
  session which it found alive and which has reached the cutoff before
  `receivers.py:93-97` runs. (Without a cutoff, any connect does.)
- `LogoutEndsSessions`: a logout that was answered with 200 has ended the
  sessions of its sid, lost ones aside.
- `AckedLeaveNoRows`: and it has removed all rows of its sid, those that a global
  logout or the clock left without a session included, so that they do not pile
  up for portal sessions that are over.
- `EndedSessionsClose` (liveness): once the portal has ended a sid, there comes a
  time for each key from which on its session is closed, or lost to that sid.

`LogoutEndsSessions` and `AckedLeaveNoRows` are for requests that do not overlap,
whatever fails between them. With two workers neither holds: a login that has yet
to record its row when a logout of the same sid has selected the session keys
(`views.py:173`) records it after the 200 and lives on, on record. There is no
run for that; `untracked` shows the worse outcome of the same meeting, in which
the logout deletes the row, and naming `LogoutEndsSessions` in `untracked.cfg`
in the place of its invariant shows this one, in 12 states. What is proved with
any overlap is `LogoutKillsEstablished`; their form under `Orderly` (below) is
proved as well.

`untracked`: `LiveSessionsAreTracked`, of one account and two workers. It fails;
see section 10.

The fairness of `FairSpec` is written out action by action, without ENABLED:

- `FairRequest(w)`: a request under way goes on or ends. In each of its states
  `RequestStep(w)` can be taken, as `RequestEnds(w)` can, so this is its weak
  fairness.
- `FairAttempts(w, s)`, of *some* worker for each sid: if the worker is free
  again and again once the sid has ended, then again and again an attempt for the
  sid reaches the last statement on it. It says two things of the environment.
  The portal keeps sending the logout, after a 200 as well. And a database or
  discovery that fails every attempt for ever is excluded, since it keeps every
  session alive.

The second assumes something of how attempts end; it is not derived from the steps
of one. What the code adds is that an attempt which does come through has closed
all it owed, and that no login, connect or other logout undoes that. A
portal that stops after the first 200 leaves the login described above alone:
for such a portal, `LogoutKillsEstablished` and section 8 say what a 200 means.

**Proved** (`PortalSessionsProofs`), for every set of keys, users, subs, sids and
workers, every `FirstAccounts` and `SidSub`, every length of day and every bound
of the clock: `TypeOK` and the properties of the runs `sessions` and
`sequential`, `LogoutEndsSessions` and `AckedLeaveNoRows` for orderly behaviours.
None of the invariants is inductive. `IInv` adds what the code relies on without
saying so:

- `FreshKeysUnused`: a key that `login()` draws is in no table and no request.
- `HandedKeysSignedIn`: a key reaches a browser when its session is first saved,
  and until then the login that drew it is alone in writing under it. From then
  on several connects may write under it at once.
- `AccountsAgree`: a sid in a row, in a save or in a request is of an account of
  the user it goes with.
- `OneUserPerKey`: who writes or reads under a key does it for one user. With
  `AccountsAgree` this gives both user properties.
- `SavesAreTracked`, `RowsAreTracked`: from its record step on, a login or
  connect is on record under its sid unless its session was killed or is `lost`
  to that sid; this gives `TrackedUnlessLost`.
- `LogoutProgress`: what is true of a logout's victims at each step; this gives
  `LogoutKillsEstablished`.

`Orderly` excludes one meeting and no other: `Overtakes`, in which a login or
connect has yet to write its row (`receivers.py:71`) when a logout of the same
sid has selected the session keys (`views.py:173`). Where it does not occur
(`Spec /\ []Orderly`), `LogoutEndsSessions` and `AckedLeaveNoRows` are proved for
any number of workers (`OrderlyLogoutsEnd`, `AnsweredLogoutsLeaveNoRows`), and so
requests one at a time are covered (`OneAtATimeIsOrderly`). A login whose row is
written in time may overlap a logout of its own sid at every other point.
`OrderlyInv` says why: the rows that a logout deletes are among those it selected
(`SelectedAreAll`); a login of a sid that has been answered has no session left
to save, or a lost one (`AckedAreOver`); and what is in the table of that sid is
lost (`AckedAreClosed`).

`SessionsDieAtCutoff` rests on a second invariant, `SavesEndAtCutoff`, that also
covers the expiry a login is about to save: it needs the arithmetic of
`NextCutoff`, proved in lemmas on `%`, and that time cannot pass a live
session's expiry without making it dead, hence `EndsDay` of the interval up to
the expiry and not of the login's time. `PortalSessionsNotProlonged` follows: of
two expiries that both end the day of the present, neither is later.

`EndedSessionsAreClosed` is proved of all behaviours. A worker is freed again and
again, whatever it is doing (`WorkerIsFreed`, from the chain of points of a
request), so that its attempts for an ended sid come through again and again. No
single one need close a session, as it may have been overtaken by a login, or the
session may have come to the sid by a connect after it began; the lemma behind it
(`OwesNext`) is that an attempt which begins while the session is open under the
sid has it among its victims, or the session is closed or lost before the attempt
ends, and that neither is ever undone (`OpenNext`, `GoneNext`).

## 3. SessionLedger

What the package promises of its sessions to somebody who sees neither tables
nor requests. The ledger has one entry per session key, and knows which user has
connected which portal account (`owner`, once and for all). A login opens an
entry under a key never used before; a connect binds an entry of the account's
user to the sid of that account, and from then on the session is lost to the sid
it had; a browser closes its own; and a logout *owes* the end of every session of
its sid that it can reach when it begins. It may close no session but those of
the account's user that belong to its sid, to none, or that have changed hands.
`LoseTrack` admits that sessions drop out of reach, of one portal session or one
key at a time.

PortalSessions implements it under

| ledger | tables and requests |
|---|---|
| `ledger[k]` | the user in `django_session[k]` once a save has put it there, and the sid it was saved with |
| `used` | `handed`, the keys that browsers have been given |
| `owner` | `social_account` |
| `untracked` | `lost` |
| `due[w]` | the sid and victims of a logout between its verification and its delete |

so that the start of a connect is `Connect`; a save is `Open` or, in a connect,
`Bind`; a record that moves a row is `LoseTrack`; the flush of a local or
global logout, or of a login over an older session, is `Close`; verifying the
token is `BeginLogout`; the delete of the sessions is `FinishLogout`; the delete
of the rows, which may take a row of a session that lives on, is `LoseTrack`;
and a request that stops is `AbandonLogouts`. Everything else stutters: no other
statement is visible from outside.

The run `sessions` checks the refinement (`ImplementsLedger`), and
`PortalSessionsRefinement` **proves** it for any keys, users, sids and workers
(`HandlersImplementLedger`). `IInv` is not enough for it. The ledger never lets
a session change its user and a logout never closes what is not its own,
although the code deletes by session key, having selected the keys some
statements ago, and a connect may have moved the session to another sid since.
So `RInv` adds `SelectedAreOfTheSid`: until they are deleted, the keys a logout
has selected are of sessions of the user of its account, who alone writes under
them, and each is still on record under its sid or lost to it.

## 4. GroupSync

One user, because only `auth_group` is shared with other users' syncs and only
grows. `group_prefix` is fixed in the initial state, so a run covers both modes.

| TLA+ | code |
|---|---|
| `portal_groups` | the user's groups at the portal; the claim is a copy of it |
| `auth_group`, `user_groups` | group rows, memberships |
| `flags` | `is_staff`, `is_superuser` in the database |
| `job[w].user` | the flags of the instance the receiver was handed |
| `job[w].found` | what the last query returned |
| `job[w].undisputed`, `steady` | history: groups of which all who wrote since the load made the same claim; groups that were there before and in every claim |

With a prefix: `ReadStale RemoveStale ResolveGroups AddGroups SyncFlags`;
without: `ResolveGroups ReadMemberships WriteMemberships SyncFlags`, the middle
two being `user.groups.set()`, which computes a difference in a transaction that
locks nothing (READ COMMITTED). The Django admin may edit memberships and the
configured flags at any point; `PortalChanges` makes the claims of two logins
differ. Deleting a group row is not modelled (an admin action on another table,
whose cascade the package does not handle).

`groups` uses one group inside the prefix, which also grants staff, one outside,
and two logins: a group of each kind is all the code tells apart, and the second
flag has no groups configured, so that it must not be touched.

- `UndisputedClaimsApply`: when a login is done, each group that it manages and
  each flag is as its claim says, whatever it was before and whatever an earlier
  login left half done, unless the admin changed it or a login that claims
  otherwise of it wrote in the meantime. So logins of one user that agree on a
  group never undo it for one another, although each removes and adds by what
  it has read some statements ago; and where claims differ in one group, the
  others are safe.
- `LocalGroupsUntouched`: with a prefix, none outside it changes.
- `SteadyGroupsKept`: a group in the old state and in every claim is never
  absent, not even for a moment. This is why the code removes the *stale* groups
  and not all of them.

All three and `TypeOK` (memberships have group rows) are **proved** for any
groups, prefix, flag groups and number of logins. `IInv` has, per step, what a
removal may contain (`StaleIsManaged`), that the rows to be added exist
(`RowsResolved`), that no claim lacks a steady group (`SteadyIsClaimed`) and how
far a login has come with the groups nobody disputes (`ClaimsProgress`): what it
has read of them is either still so or has been changed to what it is about to
write.

`staleflag` is a promise of the documentation without the proviso that nobody
interferes; it fails (section 10). For the same reason two logins without a
prefix may leave memberships of both claims: `user.groups.set()` reads and then
writes, and `sync.py:33-34` says that membership is overwritten wholesale.
`UndisputedClaimsApply` is the form in which that holds.

## 5. LogoutUpstream

The threads of one process verifying logout tokens, and its global logouts,
which take the same lock for the same discovery document
(`StartGlobalLogout`, `job[w].kid = None`). A token is its key id: the
other checks on it (audience, issuer, nonce, events, sid) read nothing that
changes and are one outcome, refused or not, in PortalSessions
(`VerifyLogoutToken` or `RequestEnds`).

| TLA+ | code |
|---|---|
| `discovery` | `_discovery_cache`: document and expiry (one URL per process) |
| `clients[u]` | `_jwk_clients[u]`: keys and fetch time of PyJWT's cached set |
| `cache_lock` | `_cache_lock` |
| `job[w]` | the handler's progress, the fetch it started, the answer it waits for |
| `jwks_uri`, `published` | the portal's discovery document and JWK set |
| `moved`, `changed` | history: when those last changed |

A fetch is three steps: it starts, the portal answers (a snapshot of its state
then), and the answer is stored; so a fetch begun first may be stored last.
`UpstreamFails` is any failure, including a malformed answer. `Restart` empties
the caches. The clock waits for a fetch no longer than `FetchTimeout`, since the
code passes `HTTP_TIMEOUT_SECONDS` to both fetches.

PyJWT is modelled from how the package and its tests use it
(`views.py:96-123`, `tests/test_backchannel_cache.py`): a set younger than
`Lifespan` is used if it has the key; if it does not and the set is younger than
`Cooldown`, the token is refused; otherwise the set is fetched and replaced; an
empty set is an error. Looking at the cached set and deciding to fetch is one
step.

- `RetiredKeysExpire`, `NewKeysAccepted`, `MovedJwksFollowed`: how long each
  kind of staleness lasts: lifespan, cooldown or discovery TTL, plus one fetch,
  whichever threads fetch at once.
- `LogoutsAnswered` (liveness): every logout of either kind is answered, though
  each needs the lock that another may hold over a fetch. Fairness: a thread
  goes on with its request, and its HTTP call returns or times out (weak
  fairness of its step); whoever waits for the lock is not passed over for ever
  (strong fairness of the two steps that take it). Nothing is assumed of the
  portal, which may never answer, nor of the clock.
- `NobodyStuck`: the part of it that is up to the code. A thread can always take
  its next step, or waits for the lock, and then its holder can.

`upstream` rotates two keys with two threads on four ticks of the clock (the
least in which a set expires and a cooled-down fetch happens with one tick to
spare); `discovery` moves the JWKS between two addresses, with one key, the JWK set's
times and the fetch timeout at 0, and two ticks, so that only discovery is old
and liveness can be checked on all of it. The three safety properties and
`TypeOK` are **proved** for all values of the times and any number of threads,
keys and addresses. Their invariant says that whatever is in hand or in a cache
is as old as it may be, and that if it differs from the portal's state, the
portal changed after it was asked: `RepliesCurrent`, `SetsCurrent`,
`DocumentCurrent`. `now <= MaxTime` occurs in no proof.

`LogoutsAnswered` is **proved** for any number of threads (`EveryLogoutAnswered`).
Whoever holds the lock gives it back with its next step, so it is free again and
again (`LockIsFreed`); hence who waits for it gets it, and from point to point of
the handler, the last one first, each thread ends up idle (`ThreadAnswers`).
`FairHolder`, which follows from the fairness of the threads as only the holder
itself gives the lock back, is stated apart because the prover cannot derive it
from theirs: it would have to swap quantifiers with temporal operators.

## 6. PortalIdentity

Signup, usernames and stored claims. Any number of portal users log in, sign up
or connect at once, while the portal renames them and gives names away.

| TLA+ | code |
|---|---|
| `strategy` | `USERNAME_STRATEGY` |
| `auth_user[u]` | the row's `username` (unique); `None`: no row |
| `local` | users with a password, who may sign in without the portal |
| `account[s]` | the `SocialAccount` of sub `s`: its user and `extra_data` |
| `OwnName(s)` | the candidate `f'{sub}@{issuer_host}'` (`adapters.py:105`) |
| `Containers` | `extra_data`: what `id_token`, `userinfo` and the flat layout of old say |
| `layout` | which of them logins store, and whether the id_token lacks the claim |
| `oldest_account[u]` | the sub of the first account of the user, which `get_claims` reads |
| `job[w]` | a login: what the portal answered, the candidate, the user |
| `signedUp`, `job[w].latest` | history: who signed up under `sub_at_issuer`; whose claims were stored last |

    login      StartLogin  FetchUserinfo  PopulateUser
      known    Lookup  HandlePortalLogin (a connect ends at Lookup)
      signup   LookupFails  CleanUsername  InsertUser  InsertAccount
               HandlePortalLogin
      connect  LookupFails  InsertAccount  HandlePortalLogin

allauth is modelled as the docstrings of `adapters.py` and `receivers.py`
describe it: `populate_user` runs on every login, before the account is looked
up; a signup checks the candidate against the database, clears it if it is
taken and then draws a free one; the user row and the account row are two
statements. Where a deployment wraps the request in a transaction, fewer
behaviours remain. `RequestEnds` is any failure: a candidate that is too long, a
name taken between check and insert, an account another request has just linked,
a dead worker. Nothing prevents the portal from asserting one name in the
id_token and another in userinfo, so the model does not either. Logins store one
of five layouts (`layout`): both containers with the claim, both but the id_token
lacks it (`slim`), either one alone, and the flat one; an old user with an account
in the flat layout may be there at first. A connect of an account that somebody
has, oneself included, is turned away after `lookup()` has overwritten its claims
(`receivers.py:22-23`): `Lookup` then ends the request, without a receiver. `AdoptStrategy` is the
restart with which a running project turns the default strategy on; users of
before keep their names (README, "Stable usernames").

`NameAssumption`: no person or local user is called like a sub at the issuer's
host. A project with open local signup has to see to that itself, the package
does not; without it a stranger can hold somebody's own name.

`identity`: two portal users, two names, two user rows, two requests, each of the
five layouts. Two of each is what a collision takes: of two signups of one sub, of
a signup and a local user, of two users of one name. With both rows in use a
signup can only end, which it may at any time.

- `OwnNamesNotShared`: no signup gives a user a name made of another's sub.
- `SignupsKeepOwnName`: who signs up under the default is called by its sub, but
  for one case: a signup of the same sub that stopped between its rows, or has
  not come to its second one, holds the name. Then allauth's numbered fallback
  is used, which the README says never happens (under "Collision-free"); it
  takes two first logins of one person at once, or a failed one before.
- `SyncedClaimsAreShown`: what a login hands to group sync and `claims_synced`
  (`receivers.py:40-57`) is what `get_claims` and `request.portal_user` then
  read, although the two merge the layouts in different ways, until the next
  request of that portal user stores its claims. A user with two portal accounts
  is shown the older one (`claims.py:33` takes the first), also when the login
  came through the other; the property is about logins through the oldest
  account, and nothing in the package says what the others should see.

All of these and `TypeOK` are **proved** (`PortalIdentityProofs`) for any portal
users, names, rows and workers. `IInv` adds what a signup's candidate may be at
each step (`WellNamed`), that who connects an account has a way to sign in
(`ConnectsAreSignedIn`), that a row with somebody's own name is that person's or
has no account (`OwnNameHolders`), and that the stored claims are those of the
login marked `latest` (`LatestIsStored`); that these are in one of the layouts is
part of `TypeOK`, and that the two readers agree on each of them the last step. Most steps of a login only move its
job on; the lemma `JobStep` treats them together.

## 7. SwitchWidget

The tabs of one browser, which share its cookies. A request carries the cookies
of when it was sent and its response sets cookies when it arrives, so that a
page may be rendered for a session that is gone by the time it is shown.

| TLA+ | code |
|---|---|
| `session[k]` | the user the session under key `k` is signed in as |
| `extra_data[u]` | the claims stored by the user's last login, on any device |
| `cookies` | the session and CSRF cookies of the browser |
| `tab[t]` | the request of the tab, then the page it shows |
| `tab[t].portal_user` | the `SimpleLazyObject` of the request, `Unread` at first |
| `tab[t].shown` | what templates and the widget tag were told (history) |
| `login_secret[k]` | history: the CSRF secret that the login of session `k` has set |
| `SET_COOP_HEADER`, `AfterSecurity` | the setting, and the order of the two middlewares |

    page     OpenPage  ViewReadsUser  TemplateReads  RenderWidget  ShowPage
    login    LogIn  ReceiveLogin
    logout   PostLogout  LocalLogout | RefuseLogout  ReceiveLogout
    others   StoreClaims  SessionEnds

Django's CSRF protection, its login (a fresh session key, a rotated secret) and
`SecurityMiddleware` are modelled from how the package uses them
(`views.py:220-221`, `templatetags/sso_portal_client.py`, `middleware.py:9-46`).
A session key and a secret are drawn at most once. Every page with the widget
sets the CSRF cookie to the secret of its request (`ShowPage`): `get_token`
(`templatetags/sso_portal_client.py:94`) has Django send it with each such
response, so that a page which arrives late overwrites the secret that a login in
another tab has set. Which claims an identity has,
by layout of `extra_data`, is in PortalIdentity.

`widget`: two tabs, two users of whom one has a portal account, two session keys,
three secrets: one for a first page, one for each login over it.

- `OneIdentityPerPage`, `IdentityOfItsRequest`: whatever other tabs and devices
  do while a page is rendered, all its parts are told of one identity, that of
  the request's own user.
- `LogoutEndsOwnUser`: the widget of a page left open never ends the session of
  who has signed in since, as long as the browser sends the secret of that
  login (`login_secret`). This is what `@csrf_protect` on `local_logout` does
  beyond its usual purpose, as a login rotates the secret. Where a late page has
  brought back the secret of before, the token of an old page matches again
  although the session is the new one's: nothing in the code prevents that, and
  the property names it.
- `PopupHeaderShips`: the popup header reaches the browser in the documented
  order of middlewares, and never over the view's own.

All four and `TypeOK` are **proved** (`SwitchWidgetProofs`) for any tabs, users,
keys and secrets. `LogoutEndsOwnUser` needs that the secret of a login is nowhere
else until its response arrives (`PendingLogins`), and that while the browser has
the session of a login, whatever was sent with the secret of that login was sent
with that session (`LoginSecrets`), over the browser's cookies and those of every
request and response under way; and hence that a page whose secret is that of the
login has its own user's session or none (`PageSessions`).

## 8. DaylightCutoff and RelyingParty

**DaylightCutoff** is `_bound_session_to_cutoff` on a wall clock that is moved
once. `Wall(t)` and `Fold(t)` are `timezone.localtime()`; `Instant(w, fold)` is
how an aware datetime is read back (PEP 495: a skipped time with the offset
before the change, a repeated one by its fold); `ExpiresAt` is the code, which
compares and adds on the wall clock and keeps `fold` in `replace()` but not in
the addition of a day. `daylight` tries every cutoff, every instant and size of
the change up to half a day of six ticks, and every login from a day before the
change to more than a day after it.

- `ExpiryAhead`: no login is dead on arrival, and none is longer than the
  longest local day.
- `NeverCrossesDay`: no session lasts into the next business day, with one
  exception that the property names: where the change skips the cutoff itself,
  a session lasts until the old offset would have reached it. (The README of
  the package, line 147, promises the cutoff without it.)

Both are **proved** (`DaylightCutoffProofs`) for every length of the day and
every change shorter than a day, from lemmas on `div` and `%`. `RepeatWithinDay`
is assumed: the times that come twice are of one calendar day, as in every zone
that changes its clocks today. St. John's did so at 00:01 until 2011, and there
the expiry found could lie in the past.

**RelyingParty** composes the two halves of `backchannel_logout`, each in its
own module, with the portal: INSTANCEs of LogoutUpstream and of SessionLedger
(which PortalSessions implements, so its statements need not be repeated) share
the workers. `VerifyToken` is a verification step of the one which, if the token
is accepted, is `BeginLogout` of the other; a global logout closes the session
and asks for discovery. The portal delivers a logout once or several times at
once until it gets a 200 or a 400; an answer may be lost; `Restart` empties the
caches and abandons all requests. `relyingparty`: one portal session, two
session keys, a key that is rotated, two threads, all times one tick; the JWKS
does not move.

- `AcknowledgedMeansClosed`: when the portal has its 200, all sessions that were
  open when it ended the portal session are closed or lost track of, over all
  attempts, lost answers and restarts between the halves.

Connects have no action of their own here: a session that a connect moves to
another sid, before or after its save, is one of those that `LosesTrack` takes
out of reach of every sid, and nothing more is claimed of it than of the others.

`AcknowledgedMeansClosed` and `TypeOK` are **proved** (`RelyingPartyProofs`) for any threads, keys,
sessions and times, JWKS addresses included. A 200 stands at the end of two
requests' work that share no statement, so `IInv` follows a debt through it: a
session owed to the portal stays closed once it is, as its key is never used
again (`OwedSessions`); a token only comes once the portal has ended its session
(`TokensOfEnded`); a verified logout owes at least what its portal session does,
and once it owes nothing, nor does that (`VerifiedOwe`). Two more theorems say
that the composition adds nothing to its parts: every behaviour is one of
LogoutUpstream (`RunsLogoutUpstream`), so that the bounds of section 5 hold in
it, and one of SessionLedger (`RunsSessionLedger`).

- `LogoutsDelivered` (liveness): every logout of a session that the portal has
  ended comes to its end, with a 200 and all that was open then closed or lost,
  or with the 400 that makes the portal give up.

It is **proved** for any constants (`EveryLogoutDelivered`) and in no run: its
strong fairness conditions, ten for every thread and portal session, are more
than TLC's liveness checking takes with two threads. (With one thread, one session key and
all times 0, TLC finds it to hold.) The run checks `AttemptsGoOn`, on which the
proof rests: at every stage, between the lock, the two fetches, the deletes and
the answer, an attempt has a step to take that is not a failure, unless it waits
for the lock or for the portal to publish a key. The fairness: threads as in
LogoutUpstream; the portal repeats each logout, and *some* thread it comes to
does not fail for ever at the same stage of it (the others may); the process is
not restarted for ever; the portal has a key in the end. An argument as in
section 2: while a delivery is pending, its attempts pass each stage again and
again (`AttemptsComeThrough`), the last of which ends it. A 400 cannot be left
out, as a key may rotate under an attempt, or the cooldown refuse it.

## 9. The runs

| run | result | asks |
|---|---|---|
| `sessions` | holds | do the two tables stay consistent, statement by statement, and implement the ledger? |
| `sequential` | holds | does an answered logout end its sessions without overlap, and each session with its business day? do retries succeed? |
| `untracked` | fails | is every live session on record? |
| `groups` | holds | is a claim applied faithfully? |
| `staleflag` | fails | is the flag set on every login? |
| `upstream` | holds | how long do key rotations take to be seen? |
| `discovery` | holds | how long does a move of the JWKS? is every logout answered? |
| `rotation` | fails | does an unknown kid always cause a refresh? |
| `identity` | holds | do own usernames stay own? do pages show the claims of the last login? |
| `widget` | holds | whom does a page know, and whom can it log out? |
| `daylight` | holds | where does the cutoff fall when clocks change? |
| `relyingparty` | holds | what does a 200 mean to the portal? can every attempt come to one? |

Every property of a run that holds has a mutant in `PROJECT.json`: a version of
one definition with a plausible bug (in the modules as `Action_Bug`), under which
TLC finds that property violated.

## 10. Findings

1. `untracked` (a bug). `backchannel_logout` selects session keys by sid
   (`views.py:173`), deletes those sessions, and then deletes rows *by sid* once
   more (`views.py:175`). A login of the same sid that records its row in
   between keeps its session and loses its row: later logouts cannot find it,
   and it lives to the cutoff. Deleting rows by the selected keys would avoid it.
   (Section 2 has the two other ways in which a session can escape the logout of
   its sid; no documentation speaks of them.)
2. `staleflag`. `sync.py:64` compares the flag with the user as loaded when the
   login began, so a change made since, by another login or the admin, stays.
   The README says the flag is set on every login.
3. `rotation`. Within the refetch cooldown an unknown key id is refused with a
   400 and nothing is fetched. The README says it triggers an immediate refresh.

## 11. What the checks do not cover

Only model-checked: that a step is *enabled*. ENABLED is beyond the provers, so
the liveness theorems of LogoutUpstream and RelyingParty take `NobodyStuck` and
`AttemptsGoOn` as hypotheses: they are state predicates, invariants of the runs
`discovery` and `relyingparty`, each a list of "at this point that step can be
taken". `FairSpec` of PortalSessions is written without ENABLED and needs none.
All else of those proofs is checked: the steps, the invariants, and the argument
from weak and strong fairness. Every other property of the runs that hold is
proved, two of `sequential` for orderly behaviours (section 2). The proofs rest
on the ASSUMEs of the modules (the constants' shapes, that `None` is no member of
the sets it is added to, `NameAssumption`, `RepeatWithinDay`).

Abstracted: formatting, logging, HTTP methods, the contents of tokens and claims
beyond sid, groups, key id and name. Empty group names are dropped by
`sync.py:43`; the model starts from the cleaned list. The days of PortalSessions
are of equal length; DaylightCutoff has the others. Requests outside the package
that save the session (a view that writes to `request.session`) are not
modelled; Django recomputes nothing of a fixed expiry on such a save. Nor are
disconnects of a portal account (allauth's own view, after which the rows of its
sids stay). A connect that is refused writes no table of PortalSessions;
PortalIdentity has it.
`PortalSession` rows without a session (left by global logout and by expiry) are
in the model: they go when the portal logs out their sid (`AckedLeaveNoRows`).
Of a portal session that it never ends they stay, and nothing bounds their number.

In PortalIdentity: a user who disconnects the portal account, and the admin
deleting or renaming users. Under `sub_at_issuer` such a hand could give a row
any name, and the package makes no promise about it. Of the claims only
`preferred_username` is kept, which every login has in one of its containers.

## Not modelled

- *Validation of the settings* and the URLs derived from them (`conf.py`): pure
  functions on strings, which raise `ImproperlyConfigured` or do not; raised in
  a request it is one of its early ends. Their values are constants.
- *Which URL a global logout redirects to* (`views.py:243-293`): it is put
  together from strings after the last state change, and nothing reads it.
- *The widget's page script*: the portal serves it; the repository only has the
  markup that loads it. Of the script, SwitchWidget has the post to
  `localLogoutUrl`, and PortalSessions the poll of the session ping.
- *The example project*: a demonstration store with no protocol of its own.

## 12. Plan

In order of importance: PortalSessions, GroupSync, LogoutUpstream and
PortalIdentity; then SessionLedger and its refinement, SwitchWidget,
DaylightCutoff and RelyingParty, each with its instances and proofs. All of these
are done. Left:

1. Global logout's redirect and the derived URLs of `conf.py` as operators,
   checked against a reference over bounded inputs.

Not planned: liveness of SessionLedger, that a due logout is finished or
abandoned, as a request may always be abandoned, so that it would restate
`FairSpec`; and that the groups of a user converge once claims no longer change,
as it takes induction over the finitely many logins still under way.
`UndisputedClaimsApply` is the safety half of it.
