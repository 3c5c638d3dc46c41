------------------------- MODULE SwitchWidgetProofs -------------------------
(* Proofs about SwitchWidget for any tabs, users, sessions and secrets. *)
EXTENDS SwitchWidget, TLAPS

-----------------------------------------------------------------------------
(* The inductive invariant, in parts. *)

\* What a page was told is what its request holds, and of the request's user.
IdentityHeld ==
    \A t \in Tab :
        /\ \A a \in tab[t].shown : a = tab[t].portal_user
        /\ tab[t].portal_user # Unread => tab[t].user # Unread
        /\ tab[t].portal_user \notin {Unread, None}
            => tab[t].portal_user.user = tab[t].user
        /\ tab[t].pc \in {"render", "page", "logout"} => tab[t].user # Unread

\* The cookies that the browser has, and those that its requests were sent
\* with or will be answered by.
Pairs == {cookies} \union {tab[t].sent : t \in Tab}

\* A key or secret in use has been drawn, and a session has its key.
OnlyDrawn ==
    /\ \A p \in Pairs : {p.key, p.secret} \subseteq drawn \union {None}
    /\ \A t \in Tab : tab[t].secret \in drawn \union {None}
    /\ \A k \in Key : login_secret[k] \in drawn \union {None}
    /\ \A k \in Key : session[k] # None => k \in drawn

\* A browser with a session key has a secret, its own or another's.
KeysHaveSecrets == \A p \in Pairs : p.key # None => p.secret # None

\* A page has the secret it was sent with, and draws one if there was none.
PageSecrets ==
    \A t \in Tab :
        /\ tab[t].pc = "view" => tab[t].secret = tab[t].sent.secret
        /\ tab[t].pc \in {"render", "page"} =>
             /\ tab[t].secret # None
             /\ tab[t].sent.secret # None => tab[t].secret = tab[t].sent.secret

\* Until its response arrives, the secret of a login is nowhere else.
PendingLogins ==
    \A t \in Tab : tab[t].pc = "logged_in" =>
        LET c == tab[t].sent.secret IN
        /\ tab[t].sent.key \in Key /\ c # None
        /\ c = login_secret[tab[t].sent.key]
        /\ cookies.secret # c
        /\ \A u \in Tab : u # t => c \notin {tab[u].sent.secret, tab[u].secret}

\* And while the browser has the session of a login, requests sent with the
\* secret of that login were sent with that session. Earlier sessions have met
\* other secrets; a later one may meet this one, if a late page brings it back.
LoginSecrets ==
    \A k \in Key, t \in Tab :
        /\ cookies.key = k
        /\ tab[t].sent.key # None /\ tab[t].sent.secret = login_secret[k]
        => tab[t].sent.key = k

\* A page's session is its user's or over, and so is the session its logout is
\* sent with, if the token and the secret of the session's login are the same.
SignedIn(t) == tab[t].user \notin {None, Unread}

PageSessions ==
    \A t \in Tab : SignedIn(t) =>
        /\ tab[t].pc \in {"view", "render", "page"} =>
             /\ tab[t].sent.key # None
             /\ session[tab[t].sent.key] \in {tab[t].user, None}
        /\ /\ tab[t].pc = "logout"
           /\ tab[t].sent.key # None
           /\ tab[t].secret = tab[t].sent.secret
           /\ tab[t].sent.secret = login_secret[tab[t].sent.key]
           => session[tab[t].sent.key] \in {tab[t].user, None}

IInv ==
    /\ TypeOK
    /\ IdentityHeld
    /\ OnlyDrawn
    /\ KeysHaveSecrets
    /\ PageSecrets
    /\ PendingLogins
    /\ LoginSecrets
    /\ PageSessions
    /\ PopupHeaderShips

-----------------------------------------------------------------------------
\* What a request resolves to is an identity of its own user, or none.
LEMMA Resolved ==
    ASSUME TypeOK, NEW t \in Tab
    PROVE  /\ RequestUser(t) \in User \union {None}
           /\ Resolve(t) \in Identity \union {None}
           /\ Resolve(t) # None => Resolve(t).user = RequestUser(t)
           /\ PortalUser(t) \in Identity \union {None}
<1>1. /\ tab[t] \in Request
      /\ RequestUser(t) \in User \union {None}
  BY NoneAssumption DEF TypeOK, Request, Cookies, RequestUser
<1>2. /\ Resolve(t) \in Identity \union {None}
      /\ Resolve(t) # None => Resolve(t).user = RequestUser(t)
  BY <1>1, NoneAssumption, LinkedAssumption DEF TypeOK, Resolve, Identity
<1>3. PortalUser(t) \in Identity \union {None}
  BY <1>1, <1>2 DEF PortalUser, Request
<1> QED
  BY <1>1, <1>2, <1>3

LEMMA FreshRequest ==
    ASSUME NEW p \in Cookies
    PROVE  /\ Fresh(p) \in Request
           /\ [Fresh(p) EXCEPT !.pc = "logged_in"] \in Request
           /\ Blank \in Request
BY DEF Fresh, Blank, Request, Cookies, NoCookies, PC

LEMMA ReadingRequest ==
    ASSUME TypeOK, NEW t \in Tab
    PROVE  /\ Reads(t) \in Request
           /\ \A own \in BOOLEAN, c \in Secret :
                [Reads(t) EXCEPT !.pc = "render", !.secret = c, !.own = own]
                    \in Request
<1>1. /\ tab[t] \in Request
      /\ tab[t].shown \union {PortalUser(t)} \in SUBSET (Identity \union {None})
  BY Resolved DEF TypeOK, Request
<1>2. ASSUME NEW j \in Request, NEW i \in Identity \union {None},
             NEW u \in User \union {None},
             NEW S \in SUBSET (Identity \union {None})
      PROVE  [j EXCEPT !.user = u, !.portal_user = i, !.shown = S] \in Request
  BY DEF Request
<1>3. Reads(t) \in Request
  BY <1>1, <1>2, Resolved DEF Reads
<1>4. ASSUME NEW j \in Request
      PROVE  \A own \in BOOLEAN, c \in Secret :
        [j EXCEPT !.pc = "render", !.secret = c, !.own = own] \in Request
  BY DEF Request, PC
<1> QED
  BY <1>3, <1>4

\* Most steps replace what one tab has in hand.
LEMMA TabUpdate ==
    ASSUME TypeOK, NEW t \in Tab, NEW r \in Request, r.pc # "page",
           tab' = [tab EXCEPT ![t] = r],
           session' \in [Key -> User \union {None}],
           cookies' \in Cookies, drawn' \subseteq Key \union Secret,
           login_secret' \in [Key -> Secret \union {None}],
           UNCHANGED <<extra_data, deployment>>
    PROVE  TypeOK'
BY DEF TypeOK

LEMMA InitInv == Init => IInv
<1> SUFFICES ASSUME Init PROVE IInv
  OBVIOUS
<1>1. NoCookies \in Cookies
  BY DEF NoCookies, Cookies
<1>2. TypeOK
  BY <1>1, FreshRequest DEF Init, TypeOK, deployment, Blank, Fresh
<1>3. \A t \in Tab :
        /\ tab[t].pc = "blank" /\ tab[t].sent = NoCookies
        /\ tab[t].user = Unread /\ tab[t].portal_user = Unread
        /\ tab[t].shown = {} /\ tab[t].secret = None
  BY DEF Init, Blank, Fresh, NoCookies
<1>4. \A p \in Pairs : p = NoCookies
  BY <1>3 DEF Pairs, Init
<1>5. /\ IdentityHeld /\ PageSecrets /\ PendingLogins /\ PageSessions
      /\ PopupHeaderShips
  BY <1>3, NoneAssumption
     DEF IdentityHeld, PageSecrets, PendingLogins, PageSessions, SignedIn,
         PopupHeaderShips
<1>6. OnlyDrawn /\ KeysHaveSecrets /\ LoginSecrets
  BY <1>3, <1>4
     DEF OnlyDrawn, KeysHaveSecrets, LoginSecrets, NoCookies, Init
<1> QED
  BY <1>2, <1>5, <1>6 DEF IInv

LEMMA TypeNext == ASSUME TypeOK, Next PROVE TypeOK'
<1>0. \A t \in Tab : tab[t] \in Request
  BY DEF TypeOK
<1>1. ASSUME NEW t \in Tab, OpenPage(t) PROVE TypeOK'
  <2>1. Fresh(cookies) \in Request /\ Fresh(cookies).pc # "page"
    BY FreshRequest DEF Fresh, TypeOK
  <2> QED
    BY <1>1, <2>1, TabUpdate DEF OpenPage, TypeOK
<1>2. ASSUME NEW t \in Tab, ViewReadsUser(t) PROVE TypeOK'
  <2>1. /\ [tab[t] EXCEPT !.user = RequestUser(t)] \in Request
        /\ [tab[t] EXCEPT !.user = RequestUser(t)].pc # "page"
    BY <1>0, <1>2, Resolved DEF ViewReadsUser, Request
  <2>2. tab' = [tab EXCEPT ![t] = [tab[t] EXCEPT !.user = RequestUser(t)]]
    BY <1>2 DEF ViewReadsUser
  <2> QED
    BY <1>2, <2>1, <2>2, TabUpdate DEF ViewReadsUser, TypeOK
<1>3. ASSUME NEW t \in Tab, TemplateReads(t) PROVE TypeOK'
  <2>1. Reads(t) \in Request /\ Reads(t).pc # "page"
    BY <1>0, <1>3, ReadingRequest DEF TemplateReads, Reads, Request
  <2> QED
    BY <1>3, <2>1, TabUpdate DEF TemplateReads, TypeOK
<1>4. ASSUME NEW t \in Tab, RenderWidget(t) PROVE TypeOK'
  <2> DEFINE C == IF tab[t].secret = None THEN Secret \ drawn
                  ELSE {tab[t].secret}
  <2>1. PICK own \in BOOLEAN, c \in C :
          /\ drawn' = drawn \union {c}
          /\ tab' = [tab EXCEPT ![t] = [Reads(t) EXCEPT !.pc = "render",
                                                      !.secret = c, !.own = own]]
    BY <1>4 DEF RenderWidget
  <2>2. c \in Secret
    BY <1>0, <2>1 DEF Request
  <2> DEFINE r == [Reads(t) EXCEPT !.pc = "render", !.secret = c, !.own = own]
  <2>3. r \in Request /\ r.pc # "page"
    BY <2>1, <2>2, ReadingRequest DEF Reads, Request
  <2>4. tab' = [tab EXCEPT ![t] = r] /\ drawn' \subseteq Key \union Secret
    BY <2>1, <2>2 DEF TypeOK
  <2> HIDE DEF r, C
  <2> QED
    BY <1>4, <2>3, <2>4, TabUpdate DEF RenderWidget, TypeOK
<1>5. ASSUME NEW t \in Tab, ShowPage(t) PROVE TypeOK'
  <2> DEFINE own == IF tab[t].own THEN "own" ELSE None
  <2> DEFINE coop == IF AfterSecurity
                     THEN SecurityHeader(PortalSwitchHeader(own))
                     ELSE PortalSwitchHeader(SecurityHeader(own))
  <2>1. coop \in Coop
    BY NoneAssumption DEF SecurityHeader, PortalSwitchHeader, Coop
  <2> HIDE DEF coop
  <2> DEFINE r == [tab[t] EXCEPT !.pc = "page", !.coop = coop]
  <2>2. r \in Request /\ r.coop # None
    BY <1>0, <2>1, NoneAssumption DEF Request, PC
  <2>3. tab' = [tab EXCEPT ![t] = r]
    BY <1>5 DEF ShowPage, coop
  <2>4. cookies' \in Cookies /\ UNCHANGED <<session, extra_data, drawn, deployment,
                                           login_secret>>
    BY <1>0, <1>5 DEF ShowPage, Request, Cookies, TypeOK
  <2> HIDE DEF r
  <2> QED
    BY <2>2, <2>3, <2>4 DEF TypeOK
<1>6. ASSUME NEW t \in Tab, NEW u \in User, LogIn(t, u) PROVE TypeOK'
  <2>1. PICK k \in Key \ drawn, c \in Secret \ drawn :
          /\ login_secret' = [login_secret EXCEPT ![k] = c]
          /\ session' = [l \in Key |-> IF l = k THEN u
                                       ELSE IF l = cookies.key THEN None
                                       ELSE session[l]]
          /\ drawn' = drawn \union {k, c}
          /\ tab' = [tab EXCEPT ![t] = [Fresh([key |-> k, secret |-> c])
                                          EXCEPT !.pc = "logged_in"]]
    BY <1>6 DEF LogIn
  <2> DEFINE r == [Fresh([key |-> k, secret |-> c]) EXCEPT !.pc = "logged_in"]
  <2>2. [key |-> k, secret |-> c] \in Cookies
    BY DEF Cookies
  <2>3. r \in Request /\ r.pc # "page"
    BY <2>2, FreshRequest DEF Fresh
  <2>4. tab' = [tab EXCEPT ![t] = r] /\ drawn' \subseteq Key \union Secret
    BY <2>1 DEF TypeOK
  <2>5. /\ session' \in [Key -> User \union {None}]
        /\ login_secret' \in [Key -> Secret \union {None}]
    BY <2>1 DEF TypeOK
  <2> HIDE DEF r
  <2> QED
    BY <1>6, <2>3, <2>4, <2>5, TabUpdate DEF LogIn, TypeOK
<1>7. ASSUME NEW t \in Tab, ReceiveLogin(t) \/ RefuseLogout(t) \/ ReceiveLogout(t)
      PROVE  TypeOK'
  <2>1. NoCookies \in Cookies
    BY DEF NoCookies, Cookies
  <2>2. Blank \in Request /\ Blank.pc # "page"
    BY <2>1, FreshRequest DEF Blank, Fresh
  <2>6. tab[t].sent \in Cookies
    BY <1>0 DEF Request
  <2>7. cookies \in Cookies /\ [cookies EXCEPT !.key = None] \in Cookies
    BY DEF TypeOK, Cookies
  <2>4. cookies' \in Cookies
    BY <1>7, <2>6, <2>7 DEF ReceiveLogin, RefuseLogout, ReceiveLogout
  <2>5. /\ tab' = [tab EXCEPT ![t] = Blank]
        /\ UNCHANGED <<session, extra_data, drawn, deployment, login_secret>>
    BY <1>7 DEF ReceiveLogin, RefuseLogout, ReceiveLogout
  <2> QED
    BY <2>2, <2>4, <2>5, TabUpdate DEF TypeOK
<1>8. ASSUME NEW t \in Tab, PostLogout(t) PROVE TypeOK'
  <2> DEFINE r == [tab[t] EXCEPT !.pc = "logout", !.sent = cookies]
  <2>0. cookies \in Cookies
    BY DEF TypeOK
  <2>1. r \in Request /\ r.pc # "page"
    BY <1>0, <2>0 DEF Request, PC
  <2>2. tab' = [tab EXCEPT ![t] = r]
    BY <1>8 DEF PostLogout
  <2> HIDE DEF r
  <2> QED
    BY <1>8, <2>1, <2>2, TabUpdate DEF PostLogout, TypeOK
<1>9. ASSUME NEW t \in Tab, LocalLogout(t) PROVE TypeOK'
  <2> DEFINE r == [tab[t] EXCEPT !.pc = "logged_out"]
  <2>1. r \in Request /\ r.pc # "page"
    BY <1>0 DEF Request, PC
  <2>2. tab' = [tab EXCEPT ![t] = r] /\ session' \in [Key -> User \union {None}]
    BY <1>9 DEF LocalLogout, TypeOK
  <2> HIDE DEF r
  <2> QED
    BY <1>9, <2>1, <2>2, TabUpdate DEF LocalLogout, TypeOK
<1>10. ASSUME \/ \E u \in Linked, claims \in Claims : StoreClaims(u, claims)
              \/ \E k \in Key : SessionEnds(k)
       PROVE  TypeOK'
  BY <1>10 DEF StoreClaims, SessionEnds, TypeOK
<1> QED
  BY <1>1, <1>2, <1>3, <1>4, <1>5, <1>6, <1>7, <1>8, <1>9, <1>10 DEF Next

-----------------------------------------------------------------------------

\* What a page was told is of its request's user: only a tab's own steps
\* touch what it holds, and once read, user and portal_user stay.
LEMMA IdentityNext ==
    ASSUME TypeOK, IdentityHeld, Next PROVE IdentityHeld'
<1> DEFINE Held(r) == /\ \A a \in r.shown : a = r.portal_user
                      /\ r.portal_user # Unread => r.user # Unread
                      /\ r.portal_user \notin {Unread, None}
                          => r.portal_user.user = r.user
                      /\ r.pc \in {"render", "page", "logout"} => r.user # Unread
<1>1. \A t \in Tab : tab[t] \in Request /\ Held(tab[t])
  BY DEF TypeOK, IdentityHeld
<1>2. ASSUME NEW t \in Tab, NEW r, Held(r), tab' = [tab EXCEPT ![t] = r]
      PROVE  IdentityHeld'
  BY <1>2 DEF IdentityHeld, TypeOK
<1>3. ASSUME NEW p PROVE /\ Held(Fresh(p)) /\ Held(Blank)
                         /\ Held([Fresh(p) EXCEPT !.pc = "logged_in"])
  BY DEF Fresh, Blank
<1>4. ASSUME NEW t \in Tab
      PROVE  /\ RequestUser(t) # Unread
             /\ tab[t].user # Unread => RequestUser(t) = tab[t].user
  BY Resolved, NoneAssumption DEF RequestUser
<1>5. ASSUME NEW t \in Tab
      PROVE  /\ \A a \in tab[t].shown \union {PortalUser(t)} : a = PortalUser(t)
             /\ PortalUser(t) # None => PortalUser(t).user = RequestUser(t)
             /\ PortalUser(t) # Unread
  <2>1. CASE tab[t].portal_user = Unread
    <3>1. tab[t].shown = {}
      BY <1>1, <2>1, NoneAssumption DEF Request
    <3> QED
      BY <2>1, <3>1, Resolved, NoneAssumption DEF PortalUser
  <2>2. CASE tab[t].portal_user # Unread
    BY <1>1, <1>4, <2>2 DEF PortalUser
  <2> QED
    BY <2>1, <2>2
<1>6. ASSUME NEW t \in Tab, NEW q, NEW c, NEW own
      PROVE  /\ Held(Reads(t))
             /\ Held([Reads(t) EXCEPT !.pc = "render", !.secret = c, !.own = own])
  <2>1. /\ Reads(t).shown = tab[t].shown \union {PortalUser(t)}
        /\ Reads(t).portal_user = PortalUser(t)
        /\ Reads(t).user = RequestUser(t)
    BY <1>1 DEF Reads, Request
  <2> DEFINE r == [Reads(t) EXCEPT !.pc = "render", !.secret = c, !.own = own]
  <2>2. /\ r.shown = Reads(t).shown
        /\ r.portal_user = Reads(t).portal_user
        /\ r.user = Reads(t).user
    BY <1>1 DEF Reads, Request
  <2> HIDE DEF r
  <2>3. Held(Reads(t)) /\ Held(r)
    BY <1>4, <1>5, <2>1, <2>2
  <2> QED
    BY <2>3 DEF r
<1>7. ASSUME NEW t \in Tab, ViewReadsUser(t)
      PROVE  IdentityHeld'
  <2> DEFINE r == [tab[t] EXCEPT !.user = RequestUser(t)]
  <2>1. /\ r.shown = tab[t].shown /\ r.portal_user = tab[t].portal_user
        /\ r.user = RequestUser(t)
    BY <1>1 DEF Request
  <2>2. tab' = [tab EXCEPT ![t] = r]
    BY <1>7 DEF ViewReadsUser
  <2> HIDE DEF r
  <2>3. Held(r)
    BY <1>1, <1>4, <2>1
  <2> QED
    BY <1>2, <2>2, <2>3
<1>8. ASSUME NEW t \in Tab,
             NEW r, tab' = [tab EXCEPT ![t] = r],
             r.shown = tab[t].shown, r.portal_user = tab[t].portal_user,
             r.user = tab[t].user,
             r.pc \in {"render", "page", "logout"}
                => tab[t].pc \in {"render", "page", "logout"}
      PROVE  IdentityHeld'
  <2>1. Held(r)
    BY <1>1, <1>8
  <2> HIDE DEF Held
  <2> QED
    BY <1>2, <1>8, <2>1
<1>9. ASSUME NEW t \in Tab, ShowPage(t) \/ PostLogout(t) \/ LocalLogout(t)
      PROVE  IdentityHeld'
  <2> HIDE DEF Held
  <2>1. CASE ShowPage(t)
    <3> DEFINE own == IF tab[t].own THEN "own" ELSE None
               coop == IF AfterSecurity
                       THEN SecurityHeader(PortalSwitchHeader(own))
                       ELSE PortalSwitchHeader(SecurityHeader(own))
               r == [tab[t] EXCEPT !.pc = "page", !.coop = coop]
    <3>1. tab' = [tab EXCEPT ![t] = r] /\ tab[t].pc = "render"
      BY <2>1 DEF ShowPage
    <3> HIDE DEF coop
    <3>2. /\ r.shown = tab[t].shown /\ r.portal_user = tab[t].portal_user
          /\ r.user = tab[t].user
      BY <1>1 DEF Request
    <3> HIDE DEF r
    <3> QED
      BY <1>8, <3>1, <3>2
  <2>2. CASE PostLogout(t)
    <3> DEFINE r == [tab[t] EXCEPT !.pc = "logout", !.sent = cookies]
    <3>1. tab' = [tab EXCEPT ![t] = r] /\ tab[t].pc = "page"
      BY <2>2 DEF PostLogout
    <3>2. /\ r.shown = tab[t].shown /\ r.portal_user = tab[t].portal_user
          /\ r.user = tab[t].user
      BY <1>1 DEF Request
    <3> HIDE DEF r
    <3> QED
      BY <1>8, <3>1, <3>2
  <2>3. CASE LocalLogout(t)
    <3> DEFINE r == [tab[t] EXCEPT !.pc = "logged_out"]
    <3>1. tab' = [tab EXCEPT ![t] = r] /\ tab[t].pc = "logout"
      BY <2>3 DEF LocalLogout
    <3>2. /\ r.shown = tab[t].shown /\ r.portal_user = tab[t].portal_user
          /\ r.user = tab[t].user
      BY <1>1 DEF Request
    <3> HIDE DEF r
    <3> QED
      BY <1>8, <3>1, <3>2
  <2> QED
    BY <1>9, <2>1, <2>2, <2>3
<1>10. ASSUME NEW t \in Tab, RenderWidget(t) PROVE IdentityHeld'
  <2>1. PICK own, c :
          tab' = [tab EXCEPT ![t] = [Reads(t) EXCEPT !.pc = "render",
                                                     !.secret = c, !.own = own]]
    BY <1>10 DEF RenderWidget
  <2> HIDE DEF Held
  <2> QED
    BY <1>2, <1>6, <2>1
<1>11. ASSUME NEW t \in Tab,
              \/ OpenPage(t) \/ TemplateReads(t) \/ ReceiveLogin(t)
              \/ RefuseLogout(t) \/ ReceiveLogout(t)
              \/ \E u \in User : LogIn(t, u)
       PROVE  IdentityHeld'
  <2>1. \/ \E p : \/ tab' = [tab EXCEPT ![t] = Fresh(p)]
                 \/ tab' = [tab EXCEPT ![t] = [Fresh(p) EXCEPT !.pc = "logged_in"]]
        \/ tab' = [tab EXCEPT ![t] = Reads(t)]
        \/ tab' = [tab EXCEPT ![t] = Blank]
    BY <1>11 DEF OpenPage, TemplateReads, ReceiveLogin, RefuseLogout,
                 ReceiveLogout, LogIn
  <2> HIDE DEF Held
  <2> QED
    BY <1>2, <1>3, <1>6, <2>1
<1>12. ASSUME \/ \E u \in Linked, claims \in Claims : StoreClaims(u, claims)
              \/ \E k \in Key : SessionEnds(k)
       PROVE  IdentityHeld'
  BY <1>12 DEF StoreClaims, SessionEnds, IdentityHeld
<1> HIDE DEF Held
<1> QED
  BY <1>7, <1>9, <1>10, <1>11, <1>12 DEF Next

-----------------------------------------------------------------------------

\* A step of tab t leaves the other tabs alone and its own with these.
Moves(t, pc, sent, user, secret) ==
    /\ \A u \in Tab : u # t => tab'[u] = tab[u]
    /\ tab'[t].pc = pc /\ tab'[t].sent = sent
    /\ tab'[t].user = user /\ tab'[t].secret = secret

LEMMA Effects ==
    ASSUME TypeOK, NEW t \in Tab
    PROVE  /\ OpenPage(t) => Moves(t, "view", cookies, Unread, cookies.secret)
           /\ ViewReadsUser(t) \/ TemplateReads(t) =>
                Moves(t, "view", tab[t].sent, RequestUser(t), tab[t].secret)
           /\ RenderWidget(t) =>
                \E c \in IF tab[t].secret = None THEN Secret \ drawn
                          ELSE {tab[t].secret} :
                    /\ drawn' = drawn \union {c}
                    /\ Moves(t, "render", tab[t].sent, RequestUser(t), c)
           /\ ShowPage(t) =>
                Moves(t, "page", tab[t].sent, tab[t].user, tab[t].secret)
           /\ ReceiveLogin(t) \/ RefuseLogout(t) \/ ReceiveLogout(t) =>
                Moves(t, "blank", NoCookies, Unread, None)
           /\ PostLogout(t) =>
                Moves(t, "logout", cookies, tab[t].user, tab[t].secret)
           /\ LocalLogout(t) =>
                Moves(t, "logged_out", tab[t].sent, tab[t].user, tab[t].secret)
<1>0. tab \in [Tab -> Request] /\ tab[t] \in Request
  BY DEF TypeOK
<1> USE DEF Moves
<1>1. OpenPage(t) => Moves(t, "view", cookies, Unread, cookies.secret)
  BY <1>0 DEF OpenPage, Fresh
<1>2. ViewReadsUser(t) =>
        Moves(t, "view", tab[t].sent, RequestUser(t), tab[t].secret)
  BY <1>0 DEF ViewReadsUser, Request
<1>3. TemplateReads(t) =>
        Moves(t, "view", tab[t].sent, RequestUser(t), tab[t].secret)
  BY <1>0 DEF TemplateReads, Reads, Request
<1>4. ASSUME RenderWidget(t)
      PROVE  \E c \in IF tab[t].secret = None THEN Secret \ drawn
                       ELSE {tab[t].secret} :
                /\ drawn' = drawn \union {c}
                /\ Moves(t, "render", tab[t].sent, RequestUser(t), c)
  <2> DEFINE C == IF tab[t].secret = None THEN Secret \ drawn
                  ELSE {tab[t].secret}
             r(c, own) == [Reads(t) EXCEPT !.pc = "render", !.secret = c,
                                           !.own = own]
  <2>1. PICK own \in BOOLEAN, c \in C :
            drawn' = drawn \union {c} /\ tab' = [tab EXCEPT ![t] = r(c, own)]
    BY <1>4 DEF RenderWidget
  <2>2. /\ r(c, own).pc = "render" /\ r(c, own).sent = tab[t].sent
        /\ r(c, own).user = RequestUser(t) /\ r(c, own).secret = c
    BY <1>0 DEF Reads, Request
  <2> HIDE DEF r
  <2>3. Moves(t, "render", tab[t].sent, RequestUser(t), c)
    BY <1>0, <2>1, <2>2
  <2> QED
    BY <2>1, <2>3
<1>5. ShowPage(t) => Moves(t, "page", tab[t].sent, tab[t].user, tab[t].secret)
  BY <1>0 DEF ShowPage, Request
<1>6. ReceiveLogin(t) \/ RefuseLogout(t) \/ ReceiveLogout(t) =>
        Moves(t, "blank", NoCookies, Unread, None)
  BY <1>0 DEF ReceiveLogin, RefuseLogout, ReceiveLogout, Blank, Fresh, NoCookies
<1>7. PostLogout(t) => Moves(t, "logout", cookies, tab[t].user, tab[t].secret)
  BY <1>0 DEF PostLogout, Request
<1>8. LocalLogout(t) =>
        Moves(t, "logged_out", tab[t].sent, tab[t].user, tab[t].secret)
  BY <1>0 DEF LocalLogout, Request
<1> HIDE DEF Moves
<1> QED
  BY <1>1, <1>2, <1>3, <1>4, <1>5, <1>6, <1>7, <1>8

\* A login draws a key and a secret that nothing had before.
LEMMA LogInEffects ==
    ASSUME TypeOK, NEW t \in Tab, NEW u \in User, LogIn(t, u)
    PROVE  \E k \in Key \ drawn, c \in Secret \ drawn :
            /\ Moves(t, "logged_in", [key |-> k, secret |-> c], Unread, c)
            /\ drawn' = drawn \union {k, c}
            /\ UNCHANGED <<cookies, deployment>>
            /\ login_secret' = [login_secret EXCEPT ![k] = c]
            /\ \A l \in Key : l # k => session'[l] \in {session[l], None}
<1>1. PICK k \in Key \ drawn, c \in Secret \ drawn :
        /\ login_secret' = [login_secret EXCEPT ![k] = c]
        /\ session' = [l \in Key |-> IF l = k THEN u
                                     ELSE IF l = cookies.key THEN None
                                     ELSE session[l]]
        /\ drawn' = drawn \union {k, c}
        /\ tab' = [tab EXCEPT ![t] = [Fresh([key |-> k, secret |-> c])
                                        EXCEPT !.pc = "logged_in"]]
  BY DEF LogIn
<1>2. Moves(t, "logged_in", [key |-> k, secret |-> c], Unread, c)
  BY <1>1 DEF Moves, Fresh, TypeOK
<1>3. \A l \in Key : l # k => session'[l] \in {session[l], None}
  BY <1>1
<1> QED
  BY <1>1, <1>2, <1>3 DEF LogIn

\* What ships is computed when the page is shown, in the deployment's order.
LEMMA PopupNext ==
    ASSUME TypeOK, PopupHeaderShips, Next PROVE PopupHeaderShips'
<1>0. \A t \in Tab : tab[t] \in Request
  BY DEF TypeOK
<1>1. ASSUME NEW t \in Tab, NEW r, tab' = [tab EXCEPT ![t] = r],
             UNCHANGED deployment,
             r.pc = "page" =>
               /\ r.own => r.coop = "own"
               /\ ~r.own /\ AfterSecurity /\ SET_COOP_HEADER
                    => r.coop = "same-origin-allow-popups"
      PROVE  PopupHeaderShips'
  BY <1>1 DEF PopupHeaderShips, TypeOK, deployment
<1>2. ASSUME NEW t \in Tab, ShowPage(t) PROVE PopupHeaderShips'
  <2> DEFINE own == IF tab[t].own THEN "own" ELSE None
             coop == IF AfterSecurity
                     THEN SecurityHeader(PortalSwitchHeader(own))
                     ELSE PortalSwitchHeader(SecurityHeader(own))
             r == [tab[t] EXCEPT !.pc = "page", !.coop = coop]
  <2>1. tab' = [tab EXCEPT ![t] = r] /\ UNCHANGED deployment
    BY <1>2 DEF ShowPage
  <2>2. /\ tab[t].own => coop = "own"
        /\ ~tab[t].own /\ AfterSecurity /\ SET_COOP_HEADER
            => coop = "same-origin-allow-popups"
    BY NoneAssumption DEF SecurityHeader, PortalSwitchHeader, Coop
  <2> HIDE DEF coop
  <2>3. r.own = tab[t].own /\ r.coop = coop
    BY <1>0 DEF Request
  <2> HIDE DEF r
  <2> QED
    BY <1>1, <2>1, <2>2, <2>3
<1>3. ASSUME NEW t \in Tab,
             \/ OpenPage(t) \/ ViewReadsUser(t) \/ TemplateReads(t)
             \/ RenderWidget(t) \/ ReceiveLogin(t) \/ PostLogout(t)
             \/ LocalLogout(t) \/ RefuseLogout(t) \/ ReceiveLogout(t)
             \/ \E u \in User : LogIn(t, u)
      PROVE  PopupHeaderShips'
  <2>1. /\ tab'[t].pc # "page"
        /\ \A u \in Tab : u # t => tab'[u] = tab[u]
        /\ UNCHANGED deployment
    <3>1. CASE \E u \in User : LogIn(t, u)
      BY <3>1, LogInEffects DEF Moves
    <3>2. CASE ~ \E u \in User : LogIn(t, u)
      <4>1. UNCHANGED deployment
        BY <1>3, <3>2
           DEF OpenPage, ViewReadsUser, TemplateReads, RenderWidget,
               ReceiveLogin, PostLogout, LocalLogout, RefuseLogout,
               ReceiveLogout
      <4>2. tab'[t].pc # "page" /\ \A u \in Tab : u # t => tab'[u] = tab[u]
        BY <1>3, <3>2, Effects DEF Moves
      <4> QED
        BY <4>1, <4>2
    <3> QED
      BY <3>1, <3>2
  <2> QED
    BY <2>1 DEF PopupHeaderShips, deployment
<1>4. ASSUME \/ \E u \in Linked, claims \in Claims : StoreClaims(u, claims)
             \/ \E k \in Key : SessionEnds(k)
      PROVE  PopupHeaderShips'
  BY <1>4 DEF StoreClaims, SessionEnds, PopupHeaderShips, deployment
<1> QED
  BY <1>2, <1>3, <1>4 DEF Next

-----------------------------------------------------------------------------
(* Sessions and secrets. *)

\* The invariants about sessions and secrets hold together.
Sessions ==
    /\ OnlyDrawn /\ KeysHaveSecrets /\ PageSecrets
    /\ PendingLogins /\ LoginSecrets /\ PageSessions

\* No session but a fresh one comes to be, and its login sets its secret.
Kept ==
    \A l \in Key : l \in drawn =>
        session'[l] \in {session[l], None} /\ login_secret'[l] = login_secret[l]

LEMMA PairsAfter ==
    ASSUME NEW t \in Tab, NEW pc, NEW sent, NEW user, NEW secret,
           Moves(t, pc, sent, user, secret)
    PROVE  Pairs' \subseteq Pairs \union {cookies', sent}
BY DEF Moves, Pairs

\* The page of another tab is not disturbed by a tab's step.
LEMMA OtherPages ==
    ASSUME TypeOK, OnlyDrawn, PageSessions, Kept,
           NEW t \in Tab, NEW pc, NEW sent, NEW user, NEW secret,
           Moves(t, pc, sent, user, secret),
           user \notin {None, Unread} =>
             /\ pc \in {"view", "render", "page"} =>
                  sent.key # None /\ session'[sent.key] \in {user, None}
             /\ /\ pc = "logout" /\ sent.key # None /\ secret = sent.secret
                /\ sent.secret = login_secret'[sent.key]
                => session'[sent.key] \in {user, None}
    PROVE  PageSessions'
<1> USE DEF Moves
<1>1. ASSUME NEW u \in Tab, u # t
      PROVE  /\ tab'[u] = tab[u]
             /\ tab[u].sent.key # None =>
                  /\ session'[tab[u].sent.key] \in {session[tab[u].sent.key], None}
                  /\ login_secret'[tab[u].sent.key] = login_secret[tab[u].sent.key]
  <2>1. tab[u].sent.key \in Key \union {None}
    BY DEF TypeOK, Request, Cookies
  <2>2. tab[u].sent.key \in drawn \union {None}
    BY DEF OnlyDrawn, Pairs
  <2> QED
    BY <1>1, <2>1, <2>2 DEF Kept
<1> QED
  BY <1>1 DEF PageSessions, SignedIn

LEMMA OtherDrawn ==
    ASSUME OnlyDrawn,
           NEW t \in Tab, NEW pc, NEW sent, NEW user, NEW secret,
           Moves(t, pc, sent, user, secret), drawn \subseteq drawn',
           {cookies'.key, cookies'.secret, sent.key, sent.secret, secret}
             \subseteq drawn' \union {None},
           \A k \in Key : login_secret'[k] \in {login_secret[k]} \union drawn',
           \A k \in Key : session'[k] # None => session[k] # None \/ k \in drawn'
    PROVE  OnlyDrawn'
<1>1. \A p \in Pairs' : {p.key, p.secret} \subseteq drawn' \union {None}
  BY PairsAfter DEF OnlyDrawn
<1>2. \A u \in Tab : tab'[u].secret \in drawn' \union {None}
  BY DEF Moves, OnlyDrawn
<1> QED
  BY <1>1, <1>2 DEF OnlyDrawn

\* A step of a tab that is not a login: the cookies and secrets it deals with
\* are the browser's, its request's or newly drawn.
LEMMA QuietStep ==
    ASSUME TypeOK, Sessions, drawn \subseteq drawn', UNCHANGED login_secret,
           \A l \in Key : session'[l] \in {session[l], None},
           NEW t \in Tab, NEW pc, NEW sent, NEW user, NEW secret,
           Moves(t, pc, sent, user, secret), pc # "logged_in",
           {cookies'.key, sent.key} \subseteq {None, cookies.key, tab[t].sent.key},
           {cookies'.secret, sent.secret, secret} \subseteq
             {None, cookies.secret, tab[t].sent.secret, tab[t].secret}
               \union (drawn' \ drawn),
           cookies'.key # None => cookies'.secret # None,
           sent.key # None => sent.secret # None,
           \* PageSecrets
           pc = "view" => secret = sent.secret,
           pc \in {"render", "page"} =>
             /\ secret # None
             /\ sent.secret # None => secret = sent.secret,
           \* LoginSecrets
           \/ cookies'.key = None
           \/ /\ cookies'.key = cookies.key
              /\ sent = tab[t].sent \/ sent.key \in {None, cookies.key}
           \/ /\ tab[t].pc = "logged_in" /\ cookies' = tab[t].sent
              /\ sent.key = None,
           \* PageSessions
           user \notin {None, Unread} =>
             /\ pc \in {"view", "render", "page"} =>
                  sent.key # None /\ session'[sent.key] \in {user, None}
             /\ /\ pc = "logout" /\ sent.key # None /\ secret = sent.secret
                /\ sent.secret = login_secret[sent.key]
                => session'[sent.key] \in {user, None}
    PROVE  Sessions'
<1> USE DEF Sessions
<1>1. OnlyDrawn'
  <2>1. {None, cookies.key, tab[t].sent.key, cookies.secret, tab[t].sent.secret,
         tab[t].secret} \subseteq drawn \union {None}
    BY DEF OnlyDrawn, Pairs
  <2> QED
    BY <2>1, OtherDrawn
<1>2. KeysHaveSecrets'
  BY PairsAfter DEF KeysHaveSecrets
<1>3. PageSecrets'
  BY DEF PageSecrets, Moves
<1>4. ASSUME NEW u \in Tab, tab'[u].pc = "logged_in"
      PROVE  LET c == tab'[u].sent.secret IN
             /\ tab'[u].sent.key \in Key /\ c # None
             /\ c = login_secret'[tab'[u].sent.key]
             /\ cookies'.secret # c
             /\ \A v \in Tab : v # u => c \notin {tab'[v].sent.secret, tab'[v].secret}
  <2>1. u # t /\ tab'[u] = tab[u]
    BY <1>4 DEF Moves
  <2> DEFINE c == tab[u].sent.secret
  <2>2. /\ tab[u].sent.key \in Key /\ c # None /\ c = login_secret[tab[u].sent.key]
        /\ c \notin {None, cookies.secret, tab[t].sent.secret, tab[t].secret}
        /\ \A v \in Tab : v # u => c \notin {tab[v].sent.secret, tab[v].secret}
    BY <1>4, <2>1 DEF PendingLogins
  <2>3. c \in drawn
    BY <2>2 DEF OnlyDrawn
  <2> HIDE DEF c
  <2>4. c \notin {cookies'.secret, sent.secret, secret}
    BY <2>2, <2>3
  <2>5. \A v \in Tab : v # u => c \notin {tab'[v].sent.secret, tab'[v].secret}
    BY <2>2, <2>4 DEF Moves
  <2> QED
    BY <2>1, <2>2, <2>4, <2>5 DEF c
<1>5. PendingLogins'
  BY <1>4 DEF PendingLogins
<1>6. LoginSecrets'
  <2> SUFFICES ASSUME NEW k \in Key, NEW u \in Tab, cookies'.key = k,
                      tab'[u].sent.key # None,
                      tab'[u].sent.secret = login_secret[k]
               PROVE  tab'[u].sent.key = k
    BY DEF LoginSecrets
  <2>0. k # None
    BY NoneAssumption
  <2>1. CASE /\ cookies'.key = cookies.key
             /\ sent = tab[t].sent \/ sent.key \in {None, cookies.key}
    BY <2>1 DEF Moves, LoginSecrets
  <2>2. CASE /\ tab[t].pc = "logged_in" /\ cookies' = tab[t].sent
             /\ sent.key = None
    <3>1. u # t /\ tab'[u] = tab[u]
      BY <2>2 DEF Moves
    <3> QED
      BY <2>2, <3>1 DEF PendingLogins
  <2> QED
    BY <2>0, <2>1, <2>2
<1>7. PageSessions'
  BY OtherPages DEF Kept
<1> QED
  BY <1>1, <1>2, <1>3, <1>5, <1>6, <1>7

LEMMA OpenPageSessions ==
    ASSUME TypeOK, Sessions, NEW t \in Tab, OpenPage(t) PROVE Sessions'
<1>1. Moves(t, "view", cookies, Unread, cookies.secret)
  BY Effects
<1>2. UNCHANGED <<session, cookies, drawn, login_secret>>
  BY DEF OpenPage
<1>3. cookies.key # None => cookies.secret # None
  BY DEF Sessions, KeysHaveSecrets, Pairs
<1> QED
  BY <1>1, <1>2, <1>3, QuietStep

\* Of the cookies of a browser and its requests, a key comes with a secret.
LEMMA SecretsOfKeys ==
    ASSUME Sessions, NEW t \in Tab
    PROVE  /\ cookies.key # None => cookies.secret # None
           /\ tab[t].sent.key # None => tab[t].sent.secret # None
BY DEF Sessions, KeysHaveSecrets, Pairs

\* The user that is read is the one of the session the request was sent with.
LEMMA ReadsSessions ==
    ASSUME TypeOK, Sessions, NEW t \in Tab, tab[t].pc = "view"
    PROVE  RequestUser(t) \notin {None, Unread} =>
             /\ tab[t].sent.key # None
             /\ session[tab[t].sent.key] \in {RequestUser(t), None}
BY DEF Sessions, PageSessions, SignedIn, RequestUser

LEMMA ViewSessions ==
    ASSUME TypeOK, Sessions, NEW t \in Tab, ViewReadsUser(t) \/ TemplateReads(t)
    PROVE  Sessions'
<1>1. Moves(t, "view", tab[t].sent, RequestUser(t), tab[t].secret)
  BY Effects
<1>2. tab[t].pc = "view" /\ UNCHANGED <<session, cookies, drawn, login_secret>>
  BY DEF ViewReadsUser, TemplateReads
<1>3. tab[t].secret = tab[t].sent.secret
  BY <1>2 DEF Sessions, PageSecrets
<1> QED
  BY <1>1, <1>2, <1>3, SecretsOfKeys, ReadsSessions, QuietStep

\* A post with the secret of the session's login, and the page's token the
\* same, is sent with the session the page was sent with.
LEMMA PostLogoutSessions ==
    ASSUME TypeOK, Sessions, NEW t \in Tab, PostLogout(t) PROVE Sessions'
<1>1. Moves(t, "logout", cookies, tab[t].user, tab[t].secret)
  BY Effects
<1>2. tab[t].pc = "page" /\ UNCHANGED <<session, cookies, drawn, login_secret>>
  BY DEF PostLogout
<1>3. ASSUME tab[t].user \notin {None, Unread}, cookies.key # None,
             tab[t].secret = cookies.secret,
             cookies.secret = login_secret[cookies.key]
      PROVE  session[cookies.key] \in {tab[t].user, None}
  <2>1. /\ tab[t].sent.key # None
        /\ session[tab[t].sent.key] \in {tab[t].user, None}
    BY <1>2, <1>3 DEF Sessions, PageSessions, SignedIn
  <2>2. tab[t].secret = tab[t].sent.secret
    BY <1>2, <2>1, SecretsOfKeys DEF Sessions, PageSecrets
  <2>3. cookies.key \in Key
    BY <1>3 DEF TypeOK, Cookies
  <2>4. tab[t].sent.key = cookies.key
    BY <1>3, <2>1, <2>2, <2>3 DEF Sessions, LoginSecrets
  <2> QED
    BY <2>1, <2>4
<1> QED
  BY <1>1, <1>2, <1>3, SecretsOfKeys, QuietStep

LEMMA BackToBlankSessions ==
    ASSUME TypeOK, Sessions, NEW t \in Tab,
           ReceiveLogin(t) \/ RefuseLogout(t) \/ ReceiveLogout(t)
    PROVE  Sessions'
<1>1. Moves(t, "blank", NoCookies, Unread, None)
  BY Effects
<1>2. /\ UNCHANGED <<session, drawn, login_secret>>
      /\ NoCookies.key = None /\ NoCookies.secret = None
  BY DEF ReceiveLogin, RefuseLogout, ReceiveLogout, NoCookies
<1>3. CASE ReceiveLogin(t)
  <2>1. tab[t].pc = "logged_in" /\ cookies' = tab[t].sent
    BY <1>3 DEF ReceiveLogin
  <2> QED
    BY <1>1, <1>2, <2>1, SecretsOfKeys, QuietStep
<1>4. CASE RefuseLogout(t) \/ ReceiveLogout(t)
  <2>1. /\ cookies'.secret = cookies.secret
        /\ cookies'.key \in {cookies.key, None}
    BY <1>4 DEF RefuseLogout, ReceiveLogout, TypeOK, Cookies
  <2> QED
    BY <1>1, <1>2, <2>1, SecretsOfKeys, QuietStep
<1> QED
  BY <1>3, <1>4

LEMMA LocalLogoutSessions ==
    ASSUME TypeOK, Sessions, NEW t \in Tab, LocalLogout(t) PROVE Sessions'
<1>1. Moves(t, "logged_out", tab[t].sent, tab[t].user, tab[t].secret)
  BY Effects
<1>2. /\ UNCHANGED <<cookies, drawn, login_secret>>
      /\ \A l \in Key : session'[l] \in {session[l], None}
  BY DEF LocalLogout
<1> QED
  BY <1>1, <1>2, SecretsOfKeys, QuietStep

\* A page sent without a secret draws one that nothing has; it is not signed in.
LEMMA RenderSessions ==
    ASSUME TypeOK, Sessions, NEW t \in Tab, RenderWidget(t) PROVE Sessions'
<1>1. PICK c \in IF tab[t].secret = None THEN Secret \ drawn ELSE {tab[t].secret} :
        /\ drawn' = drawn \union {c}
        /\ Moves(t, "render", tab[t].sent, RequestUser(t), c)
  BY Effects
<1>2. /\ tab[t].pc = "view" /\ UNCHANGED <<session, cookies, login_secret>>
      /\ tab[t].secret = tab[t].sent.secret
  BY DEF RenderWidget, Sessions, PageSecrets
<1>3. /\ c # None /\ c \in {tab[t].secret} \union (drawn' \ drawn)
      /\ tab[t].sent.secret # None => c = tab[t].sent.secret
  BY <1>1, <1>2, NoneAssumption
<1> QED
  BY <1>1, <1>2, <1>3, SecretsOfKeys, ReadsSessions, QuietStep

\* The page brings the secret of its request to the browser again: it may meet
\* the session of another tab's login, but is not the secret of that login.
LEMMA ShowSessions ==
    ASSUME TypeOK, Sessions, NEW t \in Tab, ShowPage(t) PROVE Sessions'
<1>1. Moves(t, "page", tab[t].sent, tab[t].user, tab[t].secret)
  BY Effects
<1>2. tab[t].pc = "render" /\ UNCHANGED <<session, drawn, login_secret>>
  BY DEF ShowPage
<1>3. cookies'.key = cookies.key /\ cookies'.secret = tab[t].secret
  BY DEF ShowPage, TypeOK, Cookies
<1>4. /\ tab[t].secret # None
      /\ tab[t].sent.secret # None => tab[t].secret = tab[t].sent.secret
  BY <1>2 DEF Sessions, PageSecrets
<1>5. tab[t].user \notin {None, Unread} =>
        /\ tab[t].sent.key # None
        /\ session[tab[t].sent.key] \in {tab[t].user, None}
  BY <1>2 DEF Sessions, PageSessions, SignedIn
<1> QED
  BY <1>1, <1>2, <1>3, <1>4, <1>5, SecretsOfKeys, QuietStep

LEMMA LogInSessions ==
    ASSUME TypeOK, Sessions, NEW t \in Tab, NEW u \in User, LogIn(t, u)
    PROVE  Sessions'
<1> USE DEF Sessions
<1>1. PICK k \in Key \ drawn, c \in Secret \ drawn :
        /\ Moves(t, "logged_in", [key |-> k, secret |-> c], Unread, c)
        /\ drawn' = drawn \union {k, c}
        /\ UNCHANGED <<cookies, deployment>>
        /\ login_secret' = [login_secret EXCEPT ![k] = c]
        /\ \A l \in Key : l # k => session'[l] \in {session[l], None}
  BY LogInEffects
<1> DEFINE new == [key |-> k, secret |-> c]
<1>2. /\ new.key = k /\ new.secret = c /\ k # None /\ c # None
      /\ k \notin drawn /\ c \notin drawn
  BY NoneAssumption
<1> HIDE DEF new
<1>3. Moves(t, "logged_in", new, Unread, c)
  BY <1>1 DEF new
<1>4. /\ login_secret'[k] = c
      /\ \A l \in Key : l # k => login_secret'[l] = login_secret[l]
  BY <1>1 DEF TypeOK
<1>5. Kept
  BY <1>1, <1>4 DEF Kept
<1>6. {cookies.key, cookies.secret} \subseteq drawn \union {None}
  BY DEF OnlyDrawn, Pairs
<1>7. \A v \in Tab :
        {tab[v].sent.key, tab[v].sent.secret, tab[v].secret}
          \subseteq drawn \union {None}
  BY DEF OnlyDrawn, Pairs
<1>8. \A l \in Key : login_secret'[l] \in {login_secret[l]} \union drawn'
  BY <1>1, <1>4
<1>9. \A l \in Key : session'[l] # None => session[l] # None \/ l \in drawn'
  BY <1>1
<1>10. OnlyDrawn'
  BY <1>1, <1>2, <1>3, <1>6, <1>8, <1>9, OtherDrawn
<1>11. KeysHaveSecrets'
  BY <1>1, <1>2, <1>3, PairsAfter DEF KeysHaveSecrets, Pairs
<1>12. PageSecrets'
  BY <1>3 DEF PageSecrets, Moves
<1>13. ASSUME NEW v \in Tab, tab'[v].pc = "logged_in"
       PROVE  LET s == tab'[v].sent.secret IN
              /\ tab'[v].sent.key \in Key /\ s # None
              /\ s = login_secret'[tab'[v].sent.key]
              /\ cookies'.secret # s
              /\ \A w \in Tab : w # v => s \notin {tab'[w].sent.secret,
                                                   tab'[w].secret}
  <2>1. CASE v = t
    <3>1. tab'[v].sent = new
      BY <1>3, <2>1 DEF Moves
    <3>2. \A w \in Tab : w # v => c \notin {tab'[w].sent.secret, tab'[w].secret}
      BY <1>2, <1>3, <1>7, <2>1 DEF Moves
    <3> QED
      BY <1>1, <1>2, <1>4, <1>6, <3>1, <3>2
  <2>2. CASE v # t
    <3>1. tab'[v] = tab[v]
      BY <1>3, <2>2 DEF Moves
    <3>2. /\ tab[v].sent.key \in Key /\ tab[v].sent.key # k
          /\ tab[v].sent.secret \notin {None, c, cookies.secret}
          /\ tab[v].sent.secret = login_secret[tab[v].sent.key]
          /\ \A w \in Tab : w # v => tab[v].sent.secret \notin {tab[w].sent.secret,
                                                               tab[w].secret}
      BY <1>2, <1>7, <1>13, <3>1 DEF PendingLogins
    <3>3. \A w \in Tab : w # v => tab[v].sent.secret \notin {tab'[w].sent.secret,
                                                            tab'[w].secret}
      BY <1>2, <1>3, <3>2 DEF Moves
    <3> QED
      BY <1>1, <1>4, <3>1, <3>2, <3>3
  <2> QED
    BY <2>1, <2>2
<1>14. PendingLogins'
  BY <1>13 DEF PendingLogins
<1>15. LoginSecrets'
  <2> SUFFICES ASSUME NEW l \in Key, NEW v \in Tab, cookies.key = l,
                      tab'[v].sent.key # None,
                      tab'[v].sent.secret = login_secret'[l]
               PROVE  tab'[v].sent.key = l
    BY <1>1 DEF LoginSecrets
  <2>1. l # None /\ l # k /\ login_secret'[l] = login_secret[l]
    BY <1>2, <1>4, <1>6, NoneAssumption
  <2>2. login_secret[l] # c
    BY <1>2 DEF OnlyDrawn
  <2>3. v # t
    BY <1>2, <1>3, <2>1, <2>2 DEF Moves
  <2> QED
    BY <1>3, <2>1, <2>3 DEF Moves, LoginSecrets
<1>16. PageSessions'
  BY <1>3, <1>5, OtherPages
<1> QED
  BY <1>10, <1>11, <1>12, <1>14, <1>15, <1>16

LEMMA NoTabSessions ==
    ASSUME TypeOK, Sessions,
           \/ \E u \in Linked, claims \in Claims : StoreClaims(u, claims)
           \/ \E k \in Key : SessionEnds(k)
    PROVE  Sessions'
<1>1. /\ UNCHANGED <<cookies, drawn, tab, login_secret>>
      /\ \A l \in Key : session'[l] \in {session[l], None}
  BY DEF StoreClaims, SessionEnds, TypeOK
<1>2. Pairs' = Pairs
  BY <1>1 DEF Pairs
<1>3. /\ OnlyDrawn' /\ KeysHaveSecrets' /\ PageSecrets'
      /\ PendingLogins' /\ LoginSecrets'
  BY <1>1, <1>2
     DEF Sessions, OnlyDrawn, KeysHaveSecrets, PageSecrets, PendingLogins,
         LoginSecrets
<1>4. PageSessions'
  <2>1. \A t \in Tab : tab[t].sent.key \in Key \union {None}
    BY DEF TypeOK, Request, Cookies
  <2> QED
    BY <1>1, <2>1 DEF Sessions, PageSessions, SignedIn
<1> QED
  BY <1>3, <1>4 DEF Sessions

\* The invariant is inductive.
LEMMA NextInv == IInv /\ [Next]_vars => IInv'
<1> SUFFICES ASSUME IInv, [Next]_vars PROVE IInv'
  OBVIOUS
<1>1. CASE UNCHANGED vars
  BY <1>1 DEF vars, deployment, IInv, TypeOK, IdentityHeld, OnlyDrawn, Pairs,
              KeysHaveSecrets, PageSecrets, PendingLogins, LoginSecrets,
              PageSessions, SignedIn, PopupHeaderShips
<1>2. CASE Next
  <2>1. TypeOK /\ Sessions /\ IdentityHeld /\ PopupHeaderShips
    BY DEF IInv, Sessions
  <2>2. TypeOK' /\ IdentityHeld' /\ PopupHeaderShips'
    BY <1>2, <2>1, TypeNext, IdentityNext, PopupNext
  <2>3. Sessions'
    BY <1>2, <2>1, OpenPageSessions, ViewSessions, RenderSessions,
       ShowSessions, LogInSessions, BackToBlankSessions, PostLogoutSessions,
       LocalLogoutSessions, NoTabSessions
       DEF Next
  <2> QED
    BY <2>2, <2>3 DEF IInv, Sessions
<1> QED
  BY <1>1, <1>2

THEOREM InvariantHolds == Spec => []IInv
BY InitInv, NextInv, PTL DEF Spec

\* Cookies, tabs and sessions keep their shape.
THEOREM TypeCorrect == Spec => []TypeOK
BY InvariantHolds, PTL DEF IInv

\* All that a page is told of its user agrees (middleware.py:122): the
\* identity is resolved once per request.
THEOREM PagesHaveOneIdentity == Spec => []OneIdentityPerPage
<1>1. IInv => OneIdentityPerPage
  BY DEF IInv, IdentityHeld, OneIdentityPerPage
<1> QED
  BY <1>1, InvariantHolds, PTL

\* And it is of the request's own user, however many requests run at once.
THEOREM IdentitiesOfTheirRequests == Spec => []IdentityOfItsRequest
<1>1. IInv => IdentityOfItsRequest
  BY NoneAssumption
     DEF IInv, TypeOK, Request, IdentityHeld, IdentityOfItsRequest
<1> QED
  BY <1>1, InvariantHolds, PTL

\* In the documented middleware order the popup header ships, and a view's own
\* header always does.
THEOREM PopupHeadersShip == Spec => []PopupHeaderShips
BY InvariantHolds, PTL DEF IInv

LEMMA LoggedOutBy ==
    ASSUME IInv, [Next]_vars, NEW t \in Tab,
           tab[t].pc = "logout", tab'[t].pc = "logged_out"
    PROVE  LocalLogout(t)
<1>1. TypeOK
  BY DEF IInv
<1>2. ASSUME NEW v \in Tab, v # t,
             \/ OpenPage(v) \/ ViewReadsUser(v) \/ TemplateReads(v)
             \/ RenderWidget(v) \/ ShowPage(v) \/ ReceiveLogin(v)
             \/ PostLogout(v) \/ LocalLogout(v) \/ RefuseLogout(v)
             \/ ReceiveLogout(v) \/ \E u \in User : LogIn(v, u)
      PROVE  FALSE
  BY <1>1, <1>2, Effects, LogInEffects DEF Moves
<1>3. ASSUME \/ OpenPage(t) \/ ViewReadsUser(t) \/ TemplateReads(t)
             \/ RenderWidget(t) \/ ShowPage(t) \/ ReceiveLogin(t)
             \/ PostLogout(t) \/ RefuseLogout(t)
             \/ ReceiveLogout(t) \/ \E u \in User : LogIn(t, u)
      PROVE  FALSE
  BY <1>1, <1>3, Effects, LogInEffects DEF Moves
<1>4. ASSUME \/ \E u \in Linked, claims \in Claims : StoreClaims(u, claims)
             \/ \E k \in Key : SessionEnds(k)
             \/ UNCHANGED vars
      PROVE  FALSE
  BY <1>4 DEF StoreClaims, SessionEnds, vars
<1> QED
  BY <1>2, <1>3, <1>4 DEF Next

\* A widget ends the session of the user its page was rendered for, or none,
\* as long as the browser sends the secret of the session's own login: the
\* page's token must match it, and then the page was sent with that session.
THEOREM WidgetsEndOwnSessions == Spec => LogoutEndsOwnUser
<1>1. ASSUME IInv, [Next]_vars, NEW t \in Tab, NEW k \in Key, Ends(t, k),
             tab[t].user # None, tab[t].sent.secret = login_secret[k]
      PROVE  session[k] = tab[t].user
  <2>1. tab[t].pc = "logout" /\ tab'[t].pc = "logged_out"
        /\ session[k] # None /\ session'[k] = None
    BY <1>1 DEF Ends
  <2>2. LocalLogout(t)
    BY <1>1, <2>1, LoggedOutBy
  <2>3. k = tab[t].sent.key /\ tab[t].secret = tab[t].sent.secret
    BY <2>1, <2>2, <1>1 DEF LocalLogout, IInv, TypeOK
  <2>4. tab[t].user # Unread
    BY <1>1, <2>1 DEF IInv, IdentityHeld
  <2>5. session[tab[t].sent.key] \in {tab[t].user, None} /\ k # None
    BY <1>1, <2>1, <2>3, <2>4, NoneAssumption DEF IInv, PageSessions, SignedIn
  <2> QED
    BY <2>1, <2>3, <2>5
<1>2. IInv /\ [Next]_vars =>
        [\A t \in Tab, k \in Key :
           /\ Ends(t, k)
           /\ tab[t].user # None
           /\ tab[t].sent.secret = login_secret[k]
           => session[k] = tab[t].user]_vars
  BY <1>1
<1> QED
  BY <1>2, InvariantHolds, PTL DEF LogoutEndsOwnUser, Spec
=============================================================================
