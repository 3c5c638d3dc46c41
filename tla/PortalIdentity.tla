--------------------------- MODULE PortalIdentity ---------------------------
(***************************************************************************)
(* Who a portal user is here: the auth_user row that signup creates and    *)
(* names, the SocialAccount row that links it to the portal's sub and      *)
(* keeps the claims of the last login, and the readers of those claims.    *)
(* Signups, logins and connects run at once, one statement a step. A claim *)
(* set is reduced to its preferred_username, which the portal may change,  *)
(* and hand to another of its users, at any time: each answer of the       *)
(* portal asserts whatever the user is called then.                        *)
(***************************************************************************)
CONSTANTS
    Sub,        \* portal users
    Name,       \* what a portal or a local user may be called
    User,       \* ids of auth_user rows
    Worker,     \* request slots of the WSGI server
    Missing,    \* the claim in a claim set that lacks it
    None

Strategy == {"sub_at_issuer", "preferred_username"}

\* The username f'{sub}@{issuer_host}': no person is called that.
OwnName(s) == [sub |-> s]
Username == Name \union {OwnName(s) : s \in Sub}

\* The layouts of extra_data: id_token and userinfo, a slim id_token that lacks
\* the claim beside a userinfo that has it, either of them alone, and the flat
\* one of earlier versions.
Layout == {"both", "slim", "id_token", "userinfo", "flat"}

Claim == Name \union {Missing}

Containers == [id_token: Claim \union {None}, userinfo: Claim \union {None},
               flat: Claim \union {None}]

\* extract_common_fields: what allauth calls the user by default, the userinfo
\* before the id_token.
CommonName(data) ==
    CASE data.userinfo # None -> data.userinfo
      [] data.userinfo = None /\ data.id_token # None -> data.id_token
      [] OTHER -> data.flat

\* A login has claims in one of the layouts, and the claim in one container.
ExtraData == {data \in Containers :
                /\ data.flat = None <=> \/ data.id_token # None
                                        \/ data.userinfo # None
                /\ CommonName(data) # Missing}

SocialAccount == [user: User, extra_data: ExtraData]

ASSUME NameAssumption == \A s \in Sub : OwnName(s) \notin Name

ASSUME NoneAssumption ==
    /\ None \notin Sub
    /\ None \notin User
    /\ None \notin Username
    /\ None # Missing /\ Missing \notin Username
    /\ None \notin SocialAccount

VARIABLES
    strategy,       \* USERNAME_STRATEGY
    layout,         \* the layout in which logins store their claims
    auth_user,      \* User -> username, or None for no row
    local,          \* users with a password: they may sign in without portal
    account,        \* Sub -> its SocialAccount row, or None
    oldest_account, \* User -> the sub of the account it got first, or None
    job,            \* Worker -> the login it is handling
    signedUp        \* history: subs that signed up here under sub_at_issuer

settings == <<strategy, layout>>
rows == <<auth_user, local, account, oldest_account, signedUp>>
vars == <<settings, rows, job>>

-----------------------------------------------------------------------------

PC == {"idle", "userinfo", "populate", "lookup", "clean", "insert", "link",
       "connect", "synced"}

NoClaims == [id_token |-> None, userinfo |-> None, flat |-> None]

IdTokenOnly(n) == [NoClaims EXCEPT !.id_token = n]

\* data: what the token exchange returned; latest: no other login of this sub
\* has stored its claims since this one did.
Job == [pc: PC, sub: Sub \union {None}, data: Containers,
        username: Username \union {None}, user: User \union {None},
        latest: BOOLEAN]

Idle == [pc |-> "idle", sub |-> None, data |-> NoClaims, username |-> None,
         user |-> None, latest |-> FALSE]

Exists(u) == auth_user[u] # None
Taken(n) == \E u \in User : auth_user[u] = n
Linked(u) == {s \in Sub : account[s] # None /\ account[s].user = u}

\* Usernames are unique, and accounts belong to users that exist.
TypeOK ==
    /\ strategy \in Strategy
    /\ layout \in Layout
    /\ auth_user \in [User -> Username \union {None}]
    /\ \A u, v \in User : Exists(u) /\ auth_user[u] = auth_user[v] => u = v
    /\ local \subseteq {u \in User : Exists(u)}
    /\ account \in [Sub -> SocialAccount \union {None}]
    /\ \A s \in Sub : account[s] # None => Exists(account[s].user)
    /\ oldest_account \in [User -> Sub \union {None}]
    /\ \A u \in User :
        /\ oldest_account[u] = None => Linked(u) = {}
        /\ oldest_account[u] # None => oldest_account[u] \in Linked(u)
    /\ job \in [Worker -> Job]
    /\ \A w \in Worker :
        /\ job[w].pc # "idle" => job[w].sub \in Sub
        /\ job[w].pc = "userinfo" =>
            /\ layout # "id_token"
            /\ job[w].data = IdTokenOnly(job[w].data.id_token)
            /\ layout = "flat" => job[w].data.id_token = None
        /\ job[w].pc \notin {"idle", "userinfo"} => job[w].data \in ExtraData
        /\ job[w].pc \in {"lookup", "clean"} => job[w].username # None
        /\ job[w].pc \in {"link", "connect", "synced"} =>
            job[w].user # None /\ Exists(job[w].user)
    /\ signedUp \subseteq {s \in Sub : account[s] # None}

\* A portal user may be known already, from a login under the flat layout.
Init ==
    /\ strategy \in Strategy
    /\ layout \in Layout
    /\ \/ /\ auth_user = [u \in User |-> None]
          /\ account = [s \in Sub |-> None]
          /\ oldest_account = [u \in User |-> None]
       \/ \E u \in User, s \in Sub, n \in Name :
          /\ auth_user = [v \in User |-> IF v = u THEN n ELSE None]
          /\ oldest_account = [v \in User |-> IF v = u THEN s ELSE None]
          /\ account = [t \in Sub |->
               IF t = s THEN [user |-> u,
                              extra_data |-> [NoClaims EXCEPT !.flat = n]]
               ELSE None]
    /\ local = {}
    /\ job = [w \in Worker |-> Idle]
    /\ signedUp = {}

-----------------------------------------------------------------------------
(* The readers of stored claims. *)

\* dict.update: what a container has overwrites, what it lacks stays.
Update(claims, container) ==
    IF container \in {None, Missing} THEN claims ELSE container

\* Mutant: an id_token is taken for the whole claim set.
ExtractClaims_IdTokenAlone(data) ==
    IF data.id_token # None THEN data.id_token
    ELSE Update(data.flat, data.userinfo)

\* _extract_claims: id_token over userinfo, the flat layout if there is neither.
ExtractClaims(data) ==
    IF data.userinfo = None /\ data.id_token = None THEN data.flat
    ELSE Update(Update(Missing, data.userinfo), data.id_token)

\* get_claims merges all layers, and the last that has the claim wins.
MergeClaims(data) ==
    Update(Update(Update(Missing, data.flat), data.userinfo), data.id_token)

\* get_claims: of the first portal account. An unordered queryset is ordered by
\* primary key for first(), so it is the oldest.
GetClaims(u) == MergeClaims(account[oldest_account[u]].extra_data)

\* request.portal_user: the username it shows, None for anonymous mode.
PortalUser(u) == IF oldest_account[u] = None THEN None ELSE GetClaims(u)

\* A login stores its claims; the others of that sub are no longer the latest.
Stored(w, j) ==
    job' = [v \in Worker |->
              IF v = w THEN j
              ELSE [job[v] EXCEPT
                      !.latest = @ /\ job[v].sub # job[w].sub]]

-----------------------------------------------------------------------------
(* Login through the portal. *)

\* The code is exchanged for tokens. u # None connects the account to the user
\* who is signed in, with a password or through a portal account.
StartLogin(w, s, n, u) ==
    LET id_token == CASE layout \in {"both", "id_token"} -> n
                      [] layout = "slim" -> Missing
                      [] OTHER -> None
    IN
    /\ job[w] = Idle
    /\ u # None => u \in local \/ Linked(u) # {}
    /\ job' = [job EXCEPT ![w] = [Idle EXCEPT
                 !.pc = IF layout = "id_token" THEN "populate" ELSE "userinfo",
                 !.sub = s, !.user = u, !.data = IdTokenOnly(id_token)]]
    /\ UNCHANGED <<settings, rows>>

\* A second request to the portal, which may have renamed the user since.
FetchUserinfo(w, n) ==
    /\ job[w].pc = "userinfo"
    /\ job' = [job EXCEPT ![w].pc = "populate",
                          ![w].data = IF layout = "flat"
                                      THEN [NoClaims EXCEPT !.flat = n]
                                      ELSE [@ EXCEPT !.userinfo = n]]
    /\ UNCHANGED <<settings, rows>>

\* Mutant: the candidate is cut to a length at which two subs may be the same.
PopulateUser_Truncates(w) ==
    /\ job[w].pc = "populate"
    /\ \E s \in Sub :
        job' = [job EXCEPT ![w].pc = "lookup",
                           ![w].username = IF strategy = "preferred_username"
                                           THEN CommonName(job[w].data)
                                           ELSE OwnName(s)]
    /\ UNCHANGED <<settings, rows>>

\* Mutant: the strategy is not looked at.
PopulateUser_Preferred(w) ==
    /\ job[w].pc = "populate"
    /\ job' = [job EXCEPT ![w].pc = "lookup",
                          ![w].username = CommonName(job[w].data)]
    /\ UNCHANGED <<settings, rows>>

\* Mutant: a name that is too long is dropped instead of refused.
PopulateUser_DropsLong(w) ==
    /\ job[w].pc = "populate"
    /\ \E n \in {OwnName(job[w].sub), None} :
        job' = [job EXCEPT ![w].pc = "lookup",
                           ![w].username = IF strategy = "preferred_username"
                                           THEN CommonName(job[w].data) ELSE n]
    /\ UNCHANGED <<settings, rows>>

\* populate_user, on every login: the name that a signup would start from, stock
\* allauth's or the sub's own. It raises, hence RequestEnds, if that is too long.
PopulateUser(w) ==
    /\ job[w].pc = "populate"
    /\ job' = [job EXCEPT ![w].pc = "lookup",
                          ![w].username = IF strategy = "preferred_username"
                                          THEN CommonName(job[w].data)
                                          ELSE OwnName(job[w].sub)]
    /\ UNCHANGED <<settings, rows>>

\* SocialLogin.lookup: a known sub is the user it was, and its claims are
\* overwritten, whoever asks. A connect adds no account then, so no receiver
\* runs: it finds its own, or somebody else's, which it is refused.
Lookup(w) ==
    LET s == job[w].sub IN
    /\ job[w].pc = "lookup"
    /\ account[s] # None
    /\ account' = [account EXCEPT ![s].extra_data = job[w].data]
    /\ Stored(w, IF job[w].user # None THEN Idle
                 ELSE [job[w] EXCEPT !.pc = "synced", !.latest = TRUE,
                                     !.user = account[s].user])
    /\ UNCHANGED <<settings, auth_user, local, oldest_account, signedUp>>

\* An unknown sub signs up, or is connected.
LookupFails(w) ==
    /\ job[w].pc = "lookup"
    /\ account[job[w].sub] = None
    /\ job' = [job EXCEPT ![w].pc = IF job[w].user = None THEN "clean"
                                    ELSE "connect"]
    /\ UNCHANGED <<settings, rows>>

\* process_signup validates the name against the database and clears it if it
\* is taken.
CleanUsername(w) ==
    /\ job[w].pc = "clean"
    /\ job' = [job EXCEPT ![w].pc = "insert",
                          ![w].username = IF Taken(@) THEN None ELSE @]
    /\ UNCHANGED <<settings, rows>>

\* save_user: a cleared name is replaced by a free one. The column is unique:
\* if the name has been taken meanwhile, only RequestEnds is left.
InsertUser(w) ==
    /\ job[w].pc = "insert"
    /\ \E u \in User, n \in Username :
        /\ ~Exists(u)
        /\ IF job[w].username = None THEN n \in Name ELSE n = job[w].username
        /\ ~Taken(n)
        /\ auth_user' = [auth_user EXCEPT ![u] = n]
        /\ job' = [job EXCEPT ![w].pc = "link", ![w].user = u]
    /\ UNCHANGED <<settings, local, account, oldest_account, signedUp>>

\* sociallogin.save: (provider, uid) is unique too.
InsertAccount(w) ==
    LET s == job[w].sub
        u == job[w].user
    IN
    /\ job[w].pc \in {"link", "connect"}
    /\ account[s] = None
    /\ account' = [account EXCEPT
                     ![s] = [user |-> u, extra_data |-> job[w].data]]
    /\ oldest_account' = [oldest_account EXCEPT ![u] = IF @ = None THEN s ELSE @]
    /\ Stored(w, [job[w] EXCEPT !.pc = "synced", !.latest = TRUE])
    /\ signedUp' = IF job[w].pc = "link" /\ strategy = "sub_at_issuer"
                   THEN signedUp \union {s} ELSE signedUp
    /\ UNCHANGED <<settings, auth_user, local>>

\* _handle_portal_login passes these on to group sync and to claims_synced.
SyncedClaims(w) == ExtractClaims(job[w].data)

HandlePortalLogin(w) ==
    /\ job[w].pc = "synced"
    /\ job' = [job EXCEPT ![w] = Idle]
    /\ UNCHANGED <<settings, rows>>

-----------------------------------------------------------------------------

\* A request fails or its worker dies. Django autocommits: a user row without
\* its account stays behind.
RequestEnds(w) ==
    /\ job[w].pc # "idle"
    /\ job' = [job EXCEPT ![w] = Idle]
    /\ UNCHANGED <<settings, rows>>

LocalSignup(u, n) ==
    /\ ~Exists(u)
    /\ ~Taken(n)
    /\ auth_user' = [auth_user EXCEPT ![u] = n]
    /\ local' = local \union {u}
    /\ UNCHANGED <<settings, account, oldest_account, job, signedUp>>

\* A running project adopts the default strategy, and restarts.
AdoptStrategy ==
    /\ strategy = "preferred_username"
    /\ strategy' = "sub_at_issuer"
    /\ job' = [w \in Worker |-> Idle]
    /\ UNCHANGED <<layout, rows>>

LoginStep(w) ==
    \/ \E n \in Name : FetchUserinfo(w, n)
    \/ PopulateUser(w)
    \/ Lookup(w)
    \/ LookupFails(w)
    \/ CleanUsername(w)
    \/ InsertUser(w)
    \/ InsertAccount(w)
    \/ HandlePortalLogin(w)

Next ==
    \/ \E w \in Worker :
        \/ \E s \in Sub, n \in Name, u \in User \union {None} :
            StartLogin(w, s, n, u)
        \/ LoginStep(w)
        \/ RequestEnds(w)
    \/ \E u \in User, n \in Name : LocalSignup(u, n)
    \/ AdoptStrategy

Spec == Init /\ [][Next]_vars

-----------------------------------------------------------------------------
(* Properties *)

\* README, Stable usernames, "collision-free": no signup gives a portal user a
\* username made of another one's sub, whatever signups collide. (One who is
\* signed in may still connect a second portal account.)
OwnNamesNotShared ==
    \A s \in signedUp, t \in Sub :
        auth_user[account[s].user] = OwnName(t) => s = t

\* The same passage, "stable": under sub_at_issuer a portal user who signs up is
\* called by its sub, renamed or not. The one exception is another signup of
\* that sub that stopped, or still is, between its two rows: its user row, which
\* belongs to no account, has that name.
SignupsKeepOwnName ==
    \A s \in signedUp :
        \/ auth_user[account[s].user] = OwnName(s)
        \/ \E u \in User : Linked(u) = {} /\ auth_user[u] = OwnName(s)

\* What a login hands to group sync and claims_synced is what get_claims and
\* request.portal_user read afterwards, until another request of that portal
\* user stores its own claims: in every layout, over claims that id_token and
\* userinfo state differently or not at all, and over an account of the flat
\* layout. A user with two portal accounts is shown as the older one, also when
\* the login came through the other (claims.py:33).
SyncedClaimsAreShown ==
    \A w \in Worker :
        /\ job[w].pc = "synced" /\ job[w].latest
        /\ oldest_account[job[w].user] = job[w].sub
        => PortalUser(job[w].user) = SyncedClaims(w)

=============================================================================
