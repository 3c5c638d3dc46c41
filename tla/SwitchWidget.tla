---------------------------- MODULE SwitchWidget ----------------------------
(***************************************************************************)
(* The pages of one browser that carry the switch widget. Each tab sends   *)
(* requests with the cookies the browser has then; PortalSwitchMiddleware  *)
(* attaches request.portal_user, the page's templates and the widget tag   *)
(* read it, and the widget later posts the page's CSRF token to            *)
(* local_logout. Other tabs sign in and out meanwhile, other devices sign  *)
(* the same users in, and responses arrive in any order.                   *)
(***************************************************************************)
CONSTANTS
    Tab,            \* tabs of the browser, one request at a time each
    User,           \* users who sign in
    Linked,         \* those with a portal SocialAccount
    Claims,         \* what the portal may say of a user
    Key,            \* session keys
    Secret,         \* CSRF secrets
    None,
    Unread          \* a lazy attribute that nothing has read yet

ASSUME LinkedAssumption == Linked \subseteq User

\* The value request.portal_user resolves to, for a user of the portal.
Identity == [user: User, claims: Claims]

\* Cross-Origin-Opener-Policy: set by the view, by one of the middlewares.
Coop == {"own", "same-origin-allow-popups", "same-origin"}

ASSUME NoneAssumption ==
    /\ None \notin User /\ None \notin Key /\ None \notin Secret
    /\ None \notin Identity /\ None \notin Coop
    /\ Unread # None /\ Unread \notin User /\ Unread \notin Identity

VARIABLES
    session,        \* Key -> the user its session is signed in as, or None
    extra_data,     \* Linked -> the claims the user's last login stored
    cookies,        \* the browser's session key and CSRF secret
    drawn,          \* keys and secrets given out so far
    tab,            \* Tab -> its request, or the page it shows
    SET_COOP_HEADER,
    AfterSecurity,  \* PortalSwitchMiddleware comes after SecurityMiddleware
    login_secret    \* Key -> the CSRF secret its login has set (history)

deployment == <<SET_COOP_HEADER, AfterSecurity>>
vars == <<session, extra_data, cookies, drawn, tab, deployment, login_secret>>

-----------------------------------------------------------------------------

PC == {"blank", "view", "render", "page", "logged_in", "logout", "logged_out"}

Cookies == [key: Key \union {None}, secret: Secret \union {None}]

\* sent: the cookies of the request. user, portal_user: request.user and
\* request.portal_user, once read. shown: the identities the templates were
\* given. secret: the CSRF secret of the request, its widget_csrf_token.
Request == [pc: PC, sent: Cookies, user: User \union {None, Unread},
            portal_user: Identity \union {None, Unread},
            shown: SUBSET (Identity \union {None}),
            secret: Secret \union {None}, own: BOOLEAN,
            coop: Coop \union {None}]

NoCookies == [key |-> None, secret |-> None]

Fresh(sent) == [pc |-> "view", sent |-> sent, user |-> Unread,
                portal_user |-> Unread, shown |-> {}, secret |-> sent.secret,
                own |-> FALSE, coop |-> None]

Blank == [Fresh(NoCookies) EXCEPT !.pc = "blank"]

TypeOK ==
    /\ session \in [Key -> User \union {None}]
    /\ extra_data \in [Linked -> Claims]
    /\ cookies \in Cookies
    /\ drawn \subseteq Key \union Secret
    /\ tab \in [Tab -> Request]
    /\ deployment \in BOOLEAN \X BOOLEAN
    /\ login_secret \in [Key -> Secret \union {None}]
    /\ \A t \in Tab : tab[t].pc = "page" => tab[t].coop # None

Init ==
    /\ session = [k \in Key |-> None]
    /\ extra_data \in [Linked -> Claims]
    /\ cookies = NoCookies
    /\ drawn = {}
    /\ tab = [t \in Tab |-> Blank]
    /\ SET_COOP_HEADER \in BOOLEAN
    /\ AfterSecurity \in BOOLEAN
    /\ login_secret = [k \in Key |-> None]

Idle(t) == tab[t].pc \in {"blank", "page"}

\* request.user of a request: as read before, or the session it was sent with.
RequestUser(t) ==
    IF tab[t].user # Unread THEN tab[t].user
    ELSE IF tab[t].sent.key = None THEN None
    ELSE session[tab[t].sent.key]

-----------------------------------------------------------------------------
(* A page. *)

OpenPage(t) ==
    /\ Idle(t)
    /\ tab' = [tab EXCEPT ![t] = Fresh(cookies)]
    /\ UNCHANGED <<session, extra_data, cookies, drawn, deployment,
                   login_secret>>

\* The view looks at request.user, as login_required does.
ViewReadsUser(t) ==
    /\ tab[t].pc = "view"
    /\ tab' = [tab EXCEPT ![t].user = RequestUser(t)]
    /\ UNCHANGED <<session, extra_data, cookies, drawn, deployment,
                   login_secret>>

\* Mutant: a local account passes for one of the portal, under its local name.
Resolve_LocalName(t) ==
    LET user == RequestUser(t)
    IN  IF user = None THEN None
        ELSE [user |-> user,
              claims |-> IF user \in Linked THEN extra_data[user] ELSE user]

\* _resolve_portal_user: no identity for a request that is not signed in, nor
\* for a user without a portal account.
Resolve(t) ==
    LET user == RequestUser(t)
    IN  IF user \in Linked THEN [user |-> user, claims |-> extra_data[user]]
        ELSE None

\* Mutant: the middleware keeps the lazy object, not the request.
PortalUser_Shared(t) ==
    IF \E s \in Tab : tab[s].portal_user # Unread
    THEN (CHOOSE r \in {tab[s] : s \in Tab} : r.portal_user # Unread).portal_user
    ELSE Resolve(t)

\* Mutant: request.portal_user is a property, resolved at every read.
PortalUser_Eager(t) == Resolve(t)

\* SimpleLazyObject: resolved at the first read and kept with the request.
PortalUser(t) ==
    IF tab[t].portal_user # Unread THEN tab[t].portal_user ELSE Resolve(t)

Reads(t) ==
    [tab[t] EXCEPT !.user = RequestUser(t), !.portal_user = PortalUser(t),
                   !.shown = @ \union {PortalUser(t)}]

\* A template reads the portal_user of the context processor.
TemplateReads(t) ==
    /\ tab[t].pc = "view"
    /\ tab' = [tab EXCEPT ![t] = Reads(t)]
    /\ UNCHANGED <<session, extra_data, cookies, drawn, deployment,
                   login_secret>>

\* {% portal_switch_widget %}: current_user, and the CSRF token, for which a
\* request without the cookie draws a secret.
RenderWidget(t) ==
    /\ tab[t].pc = "view"
    /\ \E own \in BOOLEAN,
          c \in IF tab[t].secret = None THEN Secret \ drawn ELSE {tab[t].secret} :
        /\ drawn' = drawn \union {c}
        /\ tab' = [tab EXCEPT ![t] = [Reads(t) EXCEPT !.pc = "render",
                                                      !.secret = c, !.own = own]]
    /\ UNCHANGED <<session, extra_data, cookies, deployment, login_secret>>

\* SecurityMiddleware: setdefault.
SecurityHeader(coop) == IF coop = None THEN "same-origin" ELSE coop

\* Mutant: the header is assigned.
PortalSwitchHeader_Assigns(coop) ==
    IF SET_COOP_HEADER THEN "same-origin-allow-popups" ELSE coop

\* PortalSwitchMiddleware: setdefault, unless the deployment opts out.
PortalSwitchHeader(coop) ==
    IF SET_COOP_HEADER /\ coop = None THEN "same-origin-allow-popups" ELSE coop

\* The response passes the later middleware first; the browser shows the page.
\* get_token has every such response set the CSRF cookie, to the secret of its
\* request: whatever a login in another tab has set meanwhile is overwritten.
ShowPage(t) ==
    LET own == IF tab[t].own THEN "own" ELSE None IN
    /\ tab[t].pc = "render"
    /\ tab' = [tab EXCEPT ![t].pc = "page",
                          ![t].coop = IF AfterSecurity
                                      THEN SecurityHeader(PortalSwitchHeader(own))
                                      ELSE PortalSwitchHeader(SecurityHeader(own))]
    /\ cookies' = [cookies EXCEPT !.secret = tab[t].secret]
    /\ UNCHANGED <<session, extra_data, drawn, deployment, login_secret>>

-----------------------------------------------------------------------------
(* Signing in and out. *)

\* A login in some tab, after which the browser is redirected: a fresh session
\* key, the old session gone, and the CSRF secret rotated.
LogIn(t, u) ==
    /\ Idle(t)
    /\ \E k \in Key \ drawn, c \in Secret \ drawn :
        /\ login_secret' = [login_secret EXCEPT ![k] = c]
        /\ session' = [l \in Key |-> IF l = k THEN u
                                     ELSE IF l = cookies.key THEN None
                                     ELSE session[l]]
        /\ drawn' = drawn \union {k, c}
        /\ tab' = [tab EXCEPT ![t] = [Fresh([key |-> k, secret |-> c])
                                        EXCEPT !.pc = "logged_in"]]
    /\ UNCHANGED <<extra_data, cookies, deployment>>

\* Its response sets both cookies.
ReceiveLogin(t) ==
    /\ tab[t].pc = "logged_in"
    /\ cookies' = tab[t].sent
    /\ tab' = [tab EXCEPT ![t] = Blank]
    /\ UNCHANGED <<session, extra_data, drawn, deployment, login_secret>>

\* A login of the user, here or on another device, stores new claims.
StoreClaims(u, claims) ==
    /\ extra_data' = [extra_data EXCEPT ![u] = claims]
    /\ UNCHANGED <<session, cookies, drawn, tab, deployment,
                   login_secret>>

\* A back-channel logout or the cutoff.
SessionEnds(k) ==
    /\ session[k] # None
    /\ session' = [session EXCEPT ![k] = None]
    /\ UNCHANGED <<extra_data, cookies, drawn, tab, deployment,
                   login_secret>>

\* The widget of the page posts to localLogoutUrl.
PostLogout(t) ==
    /\ tab[t].pc = "page"
    /\ tab' = [tab EXCEPT ![t].pc = "logout", ![t].sent = cookies]
    /\ UNCHANGED <<session, extra_data, cookies, drawn, deployment,
                   login_secret>>

\* Mutant: the view lacks @csrf_protect.
LocalLogout_Unprotected(t) ==
    /\ tab[t].pc = "logout"
    /\ session' = [k \in Key |-> IF k = tab[t].sent.key THEN None ELSE session[k]]
    /\ tab' = [tab EXCEPT ![t].pc = "logged_out"]
    /\ UNCHANGED <<extra_data, cookies, drawn, deployment, login_secret>>

\* local_logout: the token of the page must match the cookie sent with it,
LocalLogout(t) ==
    /\ tab[t].pc = "logout"
    /\ tab[t].secret = tab[t].sent.secret
    /\ session' = [k \in Key |-> IF k = tab[t].sent.key THEN None ELSE session[k]]
    /\ tab' = [tab EXCEPT ![t].pc = "logged_out"]
    /\ UNCHANGED <<extra_data, cookies, drawn, deployment, login_secret>>

\* or it is a 403 that changes nothing. Either way the widget goes on to
\* loginUrl.
RefuseLogout(t) ==
    /\ tab[t].pc = "logout"
    /\ tab[t].secret # tab[t].sent.secret
    /\ tab' = [tab EXCEPT ![t] = Blank]
    /\ UNCHANGED <<session, extra_data, cookies, drawn, deployment,
                   login_secret>>

\* The 204 removes the session cookie, whichever the browser has by now.
ReceiveLogout(t) ==
    /\ tab[t].pc = "logged_out"
    /\ cookies' = IF tab[t].sent.key = None THEN cookies
                  ELSE [cookies EXCEPT !.key = None]
    /\ tab' = [tab EXCEPT ![t] = Blank]
    /\ UNCHANGED <<session, extra_data, drawn, deployment, login_secret>>

Next ==
    \/ \E t \in Tab :
        \/ OpenPage(t)
        \/ ViewReadsUser(t)
        \/ TemplateReads(t)
        \/ RenderWidget(t)
        \/ ShowPage(t)
        \/ \E u \in User : LogIn(t, u)
        \/ ReceiveLogin(t)
        \/ PostLogout(t)
        \/ LocalLogout(t)
        \/ RefuseLogout(t)
        \/ ReceiveLogout(t)
    \/ \E u \in Linked, claims \in Claims : StoreClaims(u, claims)
    \/ \E k \in Key : SessionEnds(k)

Spec == Init /\ [][Next]_vars

-----------------------------------------------------------------------------
(* Properties *)

\* All that one page is told of its user agrees, though logins elsewhere store
\* other claims and the session may end while the page is rendered: the
\* context processor and the tag read one lazy object (middleware.py:122).
OneIdentityPerPage ==
    \A t \in Tab : \A a, b \in tab[t].shown : a = b

\* And it is of the user the request is signed in as, never of another
\* request's that the same middleware handles.
IdentityOfItsRequest ==
    \A t \in Tab : \A a \in tab[t].shown :
        a # None => a.user = tab[t].user

\* A widget can end the session of the user its page was rendered for, or
\* nobody's: a page left open from an earlier login, or rendered while another
\* tab signs in, cannot log out whoever has signed in since (views.py:221), as
\* long as the browser sends the CSRF secret of that login. It is not so once a
\* page with a widget, requested before the login, has arrived after it.
Ends(t, k) ==
    /\ tab[t].pc = "logout" /\ tab'[t].pc = "logged_out"
    /\ session[k] # None /\ session'[k] = None

LogoutEndsOwnUser ==
    [][\A t \in Tab, k \in Key :
         /\ Ends(t, k)
         /\ tab[t].user # None
         /\ tab[t].sent.secret = login_secret[k]
         => session[k] = tab[t].user]_vars

\* What the view sets ships; otherwise, in the documented order, the popup
\* header does, unless the deployment opts out (middleware.py:9-46).
PopupHeaderShips ==
    \A t \in Tab :
        tab[t].pc = "page" =>
            /\ tab[t].own => tab[t].coop = "own"
            /\ ~tab[t].own /\ AfterSecurity /\ SET_COOP_HEADER
                => tab[t].coop = "same-origin-allow-popups"

=============================================================================
