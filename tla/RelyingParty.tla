---------------------------- MODULE RelyingParty ----------------------------
(***************************************************************************)
(* A relying party as its portal and its browsers see it: the sessions of  *)
(* SessionLedger, which the tables of PortalSessions implement, joined     *)
(* with the verification of LogoutUpstream. The portal delivers the logout *)
(* of each session it ends, and again after a 503, a 500 or no answer;     *)
(* a 200 or a 400 ends the delivery.                                       *)
(***************************************************************************)
EXTENDS Naturals

CONSTANTS
    Kid, Rotated, Uri, Worker, DiscoveryTTL, Lifespan, Cooldown, FetchTimeout,
    MaxTime,                                    \* of LogoutUpstream
    Key, User, Sub, FirstAccounts, Sid, SidSub, \* of SessionLedger
    None

VARIABLES
    now, jwks_uri, published, discovery, clients, cache_lock, job, moved,
    changed,
    ledger, used, owner, untracked, due,
    delivery,       \* Sid -> how far the portal is with its logout
    subject,        \* Worker -> the sid of the token it was posted, or None
    owed            \* Sid -> sessions open when the portal ended it (history)

upstream == <<now, jwks_uri, published, discovery, clients, cache_lock, job,
              moved, changed>>
sessions == <<ledger, used, owner, untracked, due>>
deliveries == <<delivery, subject, owed>>
vars == <<upstream, sessions, deliveries>>

Upstream == INSTANCE LogoutUpstream
Ledger == INSTANCE SessionLedger

ASSUME UpstreamAssumption ==
    /\ Rotated \subseteq Kid
    /\ {DiscoveryTTL, Lifespan, Cooldown, FetchTimeout, MaxTime} \subseteq Nat

ASSUME UserAssumption ==
    /\ FirstAccounts \in [Sub -> User \union {None}]
    /\ SidSub \in [Sid -> Sub]

ASSUME NoneAssumption ==
    /\ None \notin Kid /\ None \notin Uri /\ None \notin Worker
    /\ None \notin Sid
    /\ None \notin Upstream!Document
    /\ None \notin Ledger!Entry /\ None \notin Ledger!Logout

TypeOK ==
    /\ Upstream!TypeOK
    /\ Ledger!TypeOK
    /\ delivery \in [Sid -> {"open", "pending", "done", "dropped"}]
    /\ subject \in [Worker -> Sid \union {None}]
    /\ owed \in [Sid -> SUBSET Key]
    /\ \A w \in Worker :
        /\ job[w].kid # None <=> subject[w] # None
        /\ job[w].pc = "idle" => subject[w] = None
        /\ due[w] # None => job[w].pc = "accepted" /\ due[w].sid = subject[w]

Init ==
    /\ Upstream!Init
    /\ Ledger!Init
    /\ delivery = [s \in Sid |-> "open"]
    /\ subject = [w \in Worker |-> None]
    /\ owed = [s \in Sid |-> {}]

-----------------------------------------------------------------------------
(* Browsers. *)

\* A login may be completed after its portal session has ended.
LogIn(k, s) ==
    /\ owner[SidSub[s]] # None
    /\ Ledger!Open(k, owner[SidSub[s]], s)
    /\ UNCHANGED <<upstream, deliveries>>

\* Local logout, the cutoff, or a new login in the same browser.
SessionEnds(k) ==
    /\ Ledger!Close(k)
    /\ UNCHANGED <<upstream, deliveries>>

LosesTrack(k) ==
    /\ Ledger!LoseTrack({k} \X Sid)
    /\ UNCHANGED <<upstream, deliveries>>

\* The local session goes first; then discovery is asked.
GlobalLogout(w, k) ==
    /\ Ledger!Close(k)
    /\ Upstream!StartGlobalLogout(w)
    /\ UNCHANGED deliveries

-----------------------------------------------------------------------------
(* The portal. *)

PortalEnds(s) ==
    /\ delivery[s] = "open"
    /\ delivery' = [delivery EXCEPT ![s] = "pending"]
    /\ owed' = [owed EXCEPT ![s] = {k \in Key : /\ ledger[k] # None
                                                /\ ledger[k].sid = s
                                                /\ <<k, s>> \notin untracked}]
    /\ UNCHANGED <<upstream, sessions, subject>>

\* An attempt, perhaps while an earlier one is under way.
Deliver(w, s) ==
    /\ delivery[s] = "pending"
    /\ \E k \in published : Upstream!StartLogout(w, k)
    /\ subject' = [subject EXCEPT ![w] = s]
    /\ UNCHANGED <<sessions, delivery, owed>>

-----------------------------------------------------------------------------
(* The handler. *)

UpstreamStep(w) ==
    /\ \/ Upstream!ReadDiscovery(w)
       \/ Upstream!FetchDiscovery(w)
       \/ Upstream!AnswerDiscovery(w)
       \/ Upstream!StoreDiscovery(w)
       \/ Upstream!JwkClient(w)
       \/ Upstream!RefuseUnknownKid(w)
       \/ Upstream!FetchJwks(w)
       \/ Upstream!AnswerJwks(w)
       \/ Upstream!UpstreamFails(w)
    /\ UNCHANGED <<sessions, deliveries>>

\* The token is verified or refused; verified, the logout owes its sessions.
VerifyToken(w) ==
    /\ Upstream!FindKey(w) \/ Upstream!StoreJwks(w)
    /\ IF job'[w].pc = "accepted" THEN Ledger!BeginLogout(w, subject[w])
                                  ELSE UNCHANGED sessions
    /\ UNCHANGED deliveries

\* Mutant: the sessions are left to a task that may not run.
CloseSessions_Later(w) ==
    /\ job[w].pc = "accepted"
    /\ due[w] # None
    /\ Ledger!AbandonLogouts({w})
    /\ UNCHANGED <<upstream, deliveries>>

\* Mutant: a session that is gone already makes the deletion fail.
CloseSessions_Counted(w) ==
    /\ due[w] # None
    /\ \A k \in due[w].keys : ledger[k] # None
    /\ \E closed \in SUBSET Key : Ledger!FinishLogout(w, closed)
    /\ UNCHANGED <<upstream, deliveries>>

CloseSessions(w) ==
    /\ \E closed \in SUBSET Key : Ledger!FinishLogout(w, closed)
    /\ UNCHANGED <<upstream, deliveries>>

Outcome(w) ==
    CASE job[w].pc = "accepted" -> "done"
      [] job[w].pc = "refused" -> "dropped"
      [] OTHER -> "pending"

\* Mutant: 200 is answered while the sessions are still to be deleted.
Respond_Early(w) ==
    /\ Upstream!Respond(w)
    /\ subject' = [subject EXCEPT ![w] = None]
    /\ LET s == subject[w]
       IN  delivery' = IF s # None /\ delivery[s] = "pending"
                       THEN [delivery EXCEPT ![s] = Outcome(w)] ELSE delivery
    /\ UNCHANGED <<sessions, owed>>

\* The answer reaches the portal, which takes the first 200 or 400 as final,
\* or is lost. A global logout's goes to the browser.
Respond(w) ==
    /\ due[w] = None
    /\ Upstream!Respond(w)
    /\ subject' = [subject EXCEPT ![w] = None]
    /\ LET s == subject[w]
       IN  delivery' = IF s # None /\ delivery[s] = "pending"
                       THEN [delivery EXCEPT ![s] = Outcome(w)] ELSE delivery
    /\ UNCHANGED <<sessions, owed>>

AnswerLost(w) ==
    /\ subject[w] # None
    /\ Upstream!Respond(w)
    /\ Ledger!AbandonLogouts({w})
    /\ subject' = [subject EXCEPT ![w] = None]
    /\ UNCHANGED <<delivery, owed>>

\* The process dies with all it has in hand.
Restart ==
    /\ Upstream!Restart
    /\ Ledger!AbandonLogouts(Worker)
    /\ subject' = [w \in Worker |-> None]
    /\ UNCHANGED <<delivery, owed>>

\* The JWK set stays where it is: a former address fails or serves it too.
Environment ==
    /\ \/ \E k \in Rotated : Upstream!RotateKey(k)
       \/ Upstream!Tick
    /\ UNCHANGED <<sessions, deliveries>>

Next ==
    \/ \E k \in Key :
        \/ \E s \in Sid : LogIn(k, s)
        \/ SessionEnds(k)
        \/ LosesTrack(k)
    \/ \E s \in Sid : PortalEnds(s)
    \/ \E w \in Worker :
        \/ \E k \in Key : GlobalLogout(w, k)
        \/ \E s \in Sid : Deliver(w, s)
        \/ UpstreamStep(w)
        \/ VerifyToken(w)
        \/ CloseSessions(w)
        \/ Respond(w)
        \/ AnswerLost(w)
    \/ Restart
    \/ Environment

Spec == Init /\ [][Next]_vars

-----------------------------------------------------------------------------
(* Properties *)

\* All that a portal session owes is closed, or lost track of.
Settled(s) == \A k \in owed[s] : ledger[k] = None \/ <<k, s>> \in untracked

\* When the portal has its 200, every session that was open when it ended the
\* portal session is closed, or lost: over all attempts, answers lost and
\* restarts between the two halves of the handler (views.py:160-186).
AcknowledgedMeansClosed ==
    \A s \in Sid : delivery[s] = "done" => Settled(s)

-----------------------------------------------------------------------------
(* Liveness: the portal's retries come to an end. *)

\* A step of w's thread that takes its request further, or ends it.
ThreadStep(w) ==
    /\ \/ UpstreamStep(w)
       \/ VerifyToken(w)
       \/ CloseSessions(w)
       \/ Respond(w)
       \/ AnswerLost(w)
    /\ job'[w].pc # job[w].pc \/ due'[w] # due[w]

WithLock(w) ==
    /\ Upstream!ReadDiscovery(w) \/ Upstream!FetchDiscovery(w)
    /\ UNCHANGED <<sessions, deliveries>>

WithClient(w) == Upstream!JwkClient(w) /\ UNCHANGED <<sessions, deliveries>>

HolderStep == \E w \in Worker : cache_lock = w /\ ThreadStep(w)

\* Where a thread is, told apart by what it waits for: within a fetch, for the
\* portal or to store the answer; once verified, to close sessions or to answer.
Stage(w) ==
    CASE job[w].pc = "fetch_discovery" /\ job[w].document # None
            -> "store_discovery"
      [] job[w].pc = "fetch_jwks" /\ job[w].keys # {} -> "store_jwks"
      [] job[w].pc = "accepted" /\ due[w] # None -> "close"
      [] OTHER -> job[w].pc

Stages == {"discover", "fetch_discovery", "store_discovery", "client",
           "find_key", "fetch_jwks", "store_jwks", "close", "accepted",
           "refused"}

\* An attempt for s comes through one stage: no failure, no lost answer.
Through(w, s, stage) ==
    /\ subject[w] = s
    /\ Stage(w) = stage
    /\ \/ UpstreamStep(w)
       \/ VerifyToken(w)
       \/ CloseSessions(w)
       \/ Respond(w)
    /\ job'[w].pc # "unavailable"

FairHolder == WF_vars(HolderStep)

FairThread(w) ==
    /\ WF_vars(ThreadStep(w))
    /\ SF_vars(WithLock(w))
    /\ SF_vars(WithClient(w))

FairDelivery(w, s) == SF_vars(Deliver(w, s))
FairStage(w, s, stage) == SF_vars(Through(w, s, stage))

FairAttempts(w, s) ==
    /\ FairDelivery(w, s)
    /\ \A stage \in Stages : FairStage(w, s, stage)

\* Threads go on as in LogoutUpstream. The portal repeats each logout; some
\* thread it comes to does not fail for ever at the same stage of that logout.
\* In the end the process stays up and the portal publishes some key.
Fairness ==
    /\ FairHolder
    /\ \A w \in Worker : FairThread(w)
    /\ \A s \in Sid : \E w \in Worker : FairAttempts(w, s)
    /\ <>[][~Restart]_vars
    /\ <>[](published # {})

FairSpec == Spec /\ Fairness

\* What a thread waits for that is not its own to do.
Waits(w) ==
    \/ job[w].pc \in {"discover", "client"} /\ cache_lock # None
    \/ Stage(w) = "fetch_jwks" /\ published = {}

CanGetThrough(w, s, stage) == ENABLED <<Through(w, s, stage)>>_vars

\* The portal can always repeat a pending logout where a thread is free, and a
\* thread can always go on, at every stage also without a failure: between the
\* token and the answer backchannel_logout has no state without a way on, and
\* none that ends in a 503 whatever happens.
AttemptsGoOn ==
    /\ cache_lock # None => ENABLED <<HolderStep>>_vars
    /\ \A w \in Worker :
        /\ job[w].pc \notin {"idle", "discover", "client"}
            => ENABLED <<ThreadStep(w)>>_vars
        /\ job[w].pc = "discover" /\ cache_lock = None
            => ENABLED <<WithLock(w)>>_vars
        /\ job[w].pc = "client" /\ cache_lock = None
            => ENABLED <<WithClient(w)>>_vars
        /\ \A s \in Sid :
            /\ job[w].pc = "idle" /\ delivery[s] = "pending" /\ published # {}
                => ENABLED <<Deliver(w, s)>>_vars
            /\ \A stage \in Stages :
                subject[w] = s /\ Stage(w) = stage /\ ~Waits(w)
                    => CanGetThrough(w, s, stage)

\* Every logout of a session that the portal has ended comes to an end: all that
\* was open then is closed, or lost, and acknowledged with a 200, unless the
\* portal gives up because its token was refused with a 400 (a key not yet or
\* no longer accepted). Through 503s, lost answers, restarts and waits for the
\* lock, the portal's retries get there.
Delivered(s) ==
    delivery[s] = "pending"
        ~> \/ delivery[s] = "done" /\ Settled(s)
           \/ delivery[s] = "dropped"

LogoutsDelivered == \A s \in Sid : Delivered(s)
=============================================================================
