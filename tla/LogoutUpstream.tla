--------------------------- MODULE LogoutUpstream ---------------------------
(***************************************************************************)
(* Verifying a logout_token against the portal's discovery document and    *)
(* JWK set, as the threads of one process do it: both are cached in        *)
(* process-local dictionaries, guarded by one lock that is held over the   *)
(* discovery fetch; the JWK set lives in PyJWT's client, which is used     *)
(* outside the lock. A global logout takes the same lock for the same      *)
(* document. The portal rotates keys and moves its JWKS meanwhile.         *)
(***************************************************************************)
EXTENDS Integers

CONSTANTS
    Kid,            \* key ids
    Rotated,        \* those the portal publishes and retires meanwhile
    Uri,            \* jwks_uri values
    Worker,         \* threads of the process
    DiscoveryTTL,   \* DISCOVERY_CACHE_SECONDS, in ticks; 0 turns it off
    Lifespan,       \* PyJWT's JWK-set lifespan
    Cooldown,       \* PyJWT's refetch cooldown
    FetchTimeout,   \* HTTP_TIMEOUT_SECONDS
    MaxTime,        \* bound of the clock
    None

ASSUME KidAssumption == Rotated \subseteq Kid

ASSUME TimeAssumption ==
    {DiscoveryTTL, Lifespan, Cooldown, FetchTimeout, MaxTime} \subseteq Nat

Document == [uri: Uri, until: Nat]

ASSUME NoneAssumption ==
    /\ None \notin Kid
    /\ None \notin Uri
    /\ None \notin Worker
    /\ None \notin Document

VARIABLES
    now,
    jwks_uri,       \* what the portal's discovery document says
    published,      \* the keys in the portal's JWK set
    discovery,      \* _discovery_cache: the document and its expiry, or None
    clients,        \* _jwk_clients: Uri -> the JWK set its client holds
    cache_lock,     \* _cache_lock: the thread that holds it, or None
    job,            \* Worker -> the logout it is handling
    \* History:
    moved,          \* when jwks_uri last changed
    changed         \* Kid -> when it was last published or retired

portal == <<jwks_uri, published, moved, changed>>
vars == <<now, portal, discovery, clients, cache_lock, job>>

-----------------------------------------------------------------------------

PC == {"idle", "discover", "fetch_discovery", "client", "find_key",
       "fetch_jwks", "accepted", "refused", "unavailable", "redirect"}

\* kid: of the token, or None in a global logout; uri: of the discovery in
\* hand; since: when the fetch under way was sent; document, keys: what the
\* portal answered it.
Job == [pc: PC, kid: Kid \union {None}, uri: Uri \union {None}, since: Nat,
        document: Uri \union {None}, keys: SUBSET Kid]

Idle == [pc |-> "idle", kid |-> None, uri |-> None, since |-> 0,
         document |-> None, keys |-> {}]

\* A JWK set: its keys and when they were fetched. A client that was never
\* made, or has fetched nothing, holds no keys.
JwkSet == [keys: SUBSET Kid, fetched: Nat]
NoSet == [keys |-> {}, fetched |-> 0]

Fetching(w) == job[w].pc \in {"fetch_discovery", "fetch_jwks"}

TypeOK ==
    /\ now \in Nat
    /\ jwks_uri \in Uri
    /\ published \subseteq Kid
    /\ discovery \in Document \union {None}
    /\ clients \in [Uri -> JwkSet]
    /\ cache_lock \in Worker \union {None}
    /\ job \in [Worker -> Job]
    /\ moved \in 0 .. now
    /\ changed \in [Kid -> 0 .. now]
    /\ \A w \in Worker :
        /\ cache_lock = w <=> job[w].pc = "fetch_discovery"
        /\ job[w].pc \in {"client", "find_key", "fetch_jwks", "accepted",
                         "refused"} => job[w].kid \in Kid
        /\ job[w].pc = "redirect" => job[w].kid = None
        /\ job[w].pc \in {"client", "find_key", "fetch_jwks"}
            => job[w].uri \in Uri

Init ==
    /\ now = 0
    /\ jwks_uri \in Uri
    /\ published \in SUBSET Kid
    /\ discovery = None
    /\ clients = [u \in Uri |-> NoSet]
    /\ cache_lock = None
    /\ job = [w \in Worker |-> Idle]
    /\ moved = 0
    /\ changed = [k \in Kid |-> 0]

-----------------------------------------------------------------------------
(* The handler. *)

\* backchannel_logout is posted a token whose header names some key: one of
\* the portal's, one it has retired or has yet to publish, or a made-up one.
StartLogout(w, k) ==
    /\ job[w].pc = "idle"
    /\ job' = [job EXCEPT ![w] = [Idle EXCEPT !.pc = "discover", !.kid = k]]
    /\ UNCHANGED <<now, portal, discovery, clients, cache_lock>>

\* global_logout, once it has flushed the session, asks for the document too.
StartGlobalLogout(w) ==
    /\ job[w].pc = "idle"
    /\ job' = [job EXCEPT ![w] = [Idle EXCEPT !.pc = "discover"]]
    /\ UNCHANGED <<now, portal, discovery, clients, cache_lock>>

\* With the document a token is verified; a global logout is done with it.
Discovered(w) == IF job[w].kid = None THEN "redirect" ELSE "client"

\* Mutant: a cached document is good for ever.
ReadDiscovery_Expired(w) ==
    /\ job[w].pc = "discover"
    /\ cache_lock = None
    /\ discovery # None
    /\ job' = [job EXCEPT ![w].pc = Discovered(w), ![w].uri = discovery.uri]
    /\ UNCHANGED <<now, portal, discovery, clients, cache_lock>>

\* _discovery, under the lock: a document that has not expired is returned.
ReadDiscovery(w) ==
    /\ job[w].pc = "discover"
    /\ cache_lock = None
    /\ discovery # None /\ now < discovery.until
    /\ job' = [job EXCEPT ![w].pc = Discovered(w), ![w].uri = discovery.uri]
    /\ UNCHANGED <<now, portal, discovery, clients, cache_lock>>

\* Mutant: the fetch is left out of the lock.
FetchDiscovery_Unlocked(w) ==
    /\ job[w].pc = "discover"
    /\ cache_lock = None
    /\ discovery # None => now >= discovery.until
    /\ job' = [job EXCEPT ![w].pc = "fetch_discovery", ![w].since = now]
    /\ UNCHANGED <<now, portal, discovery, clients, cache_lock>>

\* Otherwise it is fetched, with the lock held until the answer.
FetchDiscovery(w) ==
    /\ job[w].pc = "discover"
    /\ cache_lock = None
    /\ discovery # None => now >= discovery.until
    /\ cache_lock' = w
    /\ job' = [job EXCEPT ![w].pc = "fetch_discovery", ![w].since = now]
    /\ UNCHANGED <<now, portal, discovery, clients>>

StoreDiscovery(w) ==
    /\ job[w].pc = "fetch_discovery"
    /\ job[w].document # None
    /\ discovery' = [uri |-> job[w].document, until |-> now + DiscoveryTTL]
    /\ cache_lock' = None
    /\ job' = [job EXCEPT ![w].pc = Discovered(w),
                          ![w].uri = job[w].document,
                          ![w].document = None, ![w].since = 0]
    /\ UNCHANGED <<now, portal, clients>>

\* _jwk_client, under the lock again: the one client of that URI.
JwkClient(w) ==
    /\ job[w].pc = "client"
    /\ cache_lock = None
    /\ job' = [job EXCEPT ![w].pc = "find_key"]
    /\ UNCHANGED <<now, portal, discovery, clients, cache_lock>>

Client(w) == clients[job[w].uri]

Known(w) == job[w].kid \in Client(w).keys

\* The client's set is within its lifespan, or within the refetch cooldown.
Cached(w) == Client(w).keys # {} /\ now < Client(w).fetched + Lifespan
CoolingDown(w) == Client(w).keys # {} /\ now < Client(w).fetched + Cooldown

\* get_signing_key_from_jwt: the cached set has the key,
FindKey(w) ==
    /\ job[w].pc = "find_key"
    /\ Cached(w) /\ Known(w)
    /\ job' = [job EXCEPT ![w].pc = "accepted"]
    /\ UNCHANGED <<now, portal, discovery, clients, cache_lock>>

\* Mutant: a client that holds a set does not ask again for an unknown key.
RefuseUnknownKid_NoRefetch(w) ==
    /\ job[w].pc = "find_key"
    /\ Client(w).keys # {} /\ ~Known(w)
    /\ job' = [job EXCEPT ![w].pc = "refused"]
    /\ UNCHANGED <<now, portal, discovery, clients, cache_lock>>

\* or it does not, and was fetched too recently to ask again,
RefuseUnknownKid(w) ==
    /\ job[w].pc = "find_key"
    /\ Cached(w) /\ ~Known(w) /\ CoolingDown(w)
    /\ job' = [job EXCEPT ![w].pc = "refused"]
    /\ UNCHANGED <<now, portal, discovery, clients, cache_lock>>

\* or the set has expired or may be asked for again.
FetchJwks(w) ==
    /\ job[w].pc = "find_key"
    /\ Cached(w) => ~Known(w) /\ ~CoolingDown(w)
    /\ job' = [job EXCEPT ![w].pc = "fetch_jwks", ![w].since = now]
    /\ UNCHANGED <<now, portal, discovery, clients, cache_lock>>

\* Mutant: keys once fetched stay usable (cache_keys=True).
StoreJwks_KeepsKeys(w) ==
    LET keys == job[w].keys \union Client(w).keys IN
    /\ job[w].pc = "fetch_jwks"
    /\ job[w].keys # {}
    /\ clients' = [clients EXCEPT ![job[w].uri] =
                     [keys |-> keys, fetched |-> now]]
    /\ job' = [job EXCEPT ![w].pc = IF job[w].kid \in keys THEN "accepted"
                                    ELSE "refused",
                          ![w].keys = {}, ![w].since = 0]
    /\ UNCHANGED <<now, portal, discovery, cache_lock>>

\* The client replaces its set by the answer, whichever was asked for first,
\* and looks for the key in it. An answer with no keys fails instead.
StoreJwks(w) ==
    LET keys == job[w].keys IN
    /\ job[w].pc = "fetch_jwks"
    /\ keys # {}
    /\ clients' = [clients EXCEPT ![job[w].uri] =
                     [keys |-> keys, fetched |-> now]]
    /\ job' = [job EXCEPT ![w].pc = IF job[w].kid \in keys THEN "accepted"
                                    ELSE "refused",
                          ![w].keys = {}, ![w].since = 0]
    /\ UNCHANGED <<now, portal, discovery, cache_lock>>

\* Mutant: the failing thread takes the lock with it.
UpstreamFails_KeepsLock(w) ==
    /\ Fetching(w) \/ (job[w].pc = "client" /\ cache_lock = None)
    /\ job' = [job EXCEPT ![w].pc = "unavailable", ![w].document = None,
                          ![w].keys = {}, ![w].since = 0]
    /\ UNCHANGED <<now, portal, discovery, cache_lock, clients>>

\* UpstreamFetchError: a fetch failed or its answer is malformed, or the URI is
\* not one a client takes. The lock is released on the way out. A client whose
\* fetch failed may drop the set it held.
UpstreamFails(w) ==
    /\ Fetching(w) \/ (job[w].pc = "client" /\ cache_lock = None)
    /\ cache_lock' = IF cache_lock = w THEN None ELSE cache_lock
    /\ job' = [job EXCEPT ![w].pc = "unavailable", ![w].document = None,
                          ![w].keys = {}, ![w].since = 0]
    /\ \/ UNCHANGED clients
       \/ /\ job[w].pc = "fetch_jwks"
          /\ clients' = [clients EXCEPT ![job[w].uri] = NoSet]
    /\ UNCHANGED <<now, portal, discovery>>

\* 200 (once the sessions are deleted), 400 or 503. A global logout redirects
\* in any case: to end_session_endpoint, or locally if that is unavailable.
Respond(w) ==
    /\ job[w].pc \in {"accepted", "refused", "unavailable", "redirect"}
    /\ job' = [job EXCEPT ![w] = Idle]
    /\ UNCHANGED <<now, portal, discovery, clients, cache_lock>>

\* The process is restarted: what it cached is gone.
Restart ==
    /\ discovery' = None
    /\ clients' = [u \in Uri |-> NoSet]
    /\ cache_lock' = None
    /\ job' = [w \in Worker |-> Idle]
    /\ UNCHANGED <<now, portal>>

-----------------------------------------------------------------------------
(* The portal and the clock. *)

AnswerDiscovery(w) ==
    /\ job[w].pc = "fetch_discovery" /\ job[w].document = None
    /\ job' = [job EXCEPT ![w].document = jwks_uri]
    /\ UNCHANGED <<now, portal, discovery, clients, cache_lock>>

\* A former jwks_uri still serves the set, or fails.
AnswerJwks(w) ==
    /\ job[w].pc = "fetch_jwks" /\ job[w].keys = {}
    /\ job' = [job EXCEPT ![w].keys = published]
    /\ UNCHANGED <<now, portal, discovery, clients, cache_lock>>

RotateKey(k) ==
    /\ published' = (published \ {k}) \union ({k} \ published)
    /\ changed' = [changed EXCEPT ![k] = now]
    /\ UNCHANGED <<now, jwks_uri, moved, discovery, clients, cache_lock, job>>

MoveJwks(u) ==
    /\ u # jwks_uri
    /\ jwks_uri' = u
    /\ moved' = now
    /\ UNCHANGED <<now, published, changed, discovery, clients, cache_lock, job>>

\* No fetch takes longer than FetchTimeout, answered or not.
Tick ==
    /\ now < MaxTime
    /\ \A w \in Worker : Fetching(w) => now < job[w].since + FetchTimeout
    /\ now' = now + 1
    /\ UNCHANGED <<portal, discovery, clients, cache_lock, job>>

HandlerStep(w) ==
    \/ ReadDiscovery(w)
    \/ FetchDiscovery(w)
    \/ StoreDiscovery(w)
    \/ JwkClient(w)
    \/ FindKey(w)
    \/ RefuseUnknownKid(w)
    \/ FetchJwks(w)
    \/ StoreJwks(w)
    \/ UpstreamFails(w)
    \/ Respond(w)

Next ==
    \/ \E w \in Worker :
        \/ \E k \in Kid : StartLogout(w, k)
        \/ StartGlobalLogout(w)
        \/ HandlerStep(w)
        \/ AnswerDiscovery(w)
        \/ AnswerJwks(w)
    \/ Restart
    \/ \E k \in Rotated : RotateKey(k)
    \/ \E u \in Uri : MoveJwks(u)
    \/ Tick

Spec == Init /\ [][Next]_vars

-----------------------------------------------------------------------------
(* Properties *)

Accepts(w) == job[w].pc # "accepted" /\ job'[w].pc = "accepted"
Refuses(w) == job[w].pc # "refused" /\ job'[w].pc = "refused"
Discovers(w) == job[w].pc # "client" /\ job'[w].pc = "client"

\* A token is never accepted under a key that the portal retired longer ago
\* than a JWK set lives, plus one fetch: whichever threads fetch the set at
\* once and whichever of their answers is stored last.
NotLongRetired(w) ==
    Accepts(w) /\ job[w].kid \notin published
        => now - changed[job[w].kid] <= Lifespan + FetchTimeout

RetiredKeysExpire == [][\A w \in Worker : NotLongRetired(w)]_vars

\* A token is never refused for a key that has been published for longer than
\* the refetch cooldown, plus one fetch.
NotLongPublished(w) ==
    Refuses(w) /\ job[w].kid \in published
        => now - changed[job[w].kid] <= Cooldown + FetchTimeout

NewKeysAccepted == [][\A w \in Worker : NotLongPublished(w)]_vars

\* No logout is verified through a jwks_uri that the portal gave up longer ago
\* than a discovery document is cached, plus one fetch.
NotLongMoved(w) ==
    Discovers(w) /\ job'[w].uri # jwks_uri
        => now - moved <= DiscoveryTTL + FetchTimeout

MovedJwksFollowed == [][\A w \in Worker : NotLongMoved(w)]_vars

-----------------------------------------------------------------------------

\* Every back-channel and every global logout is answered, though each needs
\* the lock that another thread may hold over a fetch: answered, failed or
\* timed out, the fetch gives the lock back, and whoever waits gets it in turn.
Answered(w) == job[w].pc # "idle" ~> job[w].pc = "idle"

LogoutsAnswered == \A w \in Worker : Answered(w)

WithLock(w) == ReadDiscovery(w) \/ FetchDiscovery(w)
HolderStep == \E w \in Worker : cache_lock = w /\ HandlerStep(w)

\* A thread goes on with its request, and so does whichever holds the lock:
\* requests.get gives up after its timeout. No thread that waits for the lock
\* is passed over for ever.
FairHolder == WF_vars(HolderStep)

FairThread(w) ==
    /\ WF_vars(HandlerStep(w))
    /\ SF_vars(WithLock(w))
    /\ SF_vars(JwkClient(w))

Fairness ==
    /\ FairHolder
    /\ \A w \in Worker : FairThread(w)

\* No thread is ever stuck: it can take its next step, or waits for the lock,
\* and then its holder can. _discovery leaves no state without a way on, nor
\* does the choice of the PyJWT client between its set and a new fetch.
NobodyStuck ==
    /\ cache_lock # None => ENABLED <<HolderStep>>_vars
    /\ \A w \in Worker :
        /\ job[w].pc \notin {"idle", "discover", "client"}
            => ENABLED <<HandlerStep(w)>>_vars
        /\ job[w].pc = "discover" /\ cache_lock = None
            => ENABLED <<WithLock(w)>>_vars
        /\ job[w].pc = "client" /\ cache_lock = None
            => ENABLED <<JwkClient(w)>>_vars

FairSpec == Spec /\ Fairness

\* README, Back-channel logout: an unknown kid triggers an immediate JWKS
\* refresh. So no token is refused for a key the portal publishes before the
\* portal has been asked for its keys again.
PublishedKeysAccepted ==
    [][\A w \in Worker :
         Refuses(w) /\ job[w].kid \in published
            => job[w].pc = "fetch_jwks"]_vars
=============================================================================
