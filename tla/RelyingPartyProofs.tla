-------------------------- MODULE RelyingPartyProofs --------------------------
(* Proofs about RelyingParty for any keys, threads, sessions and times. *)
EXTENDS RelyingParty, TLAPS

-----------------------------------------------------------------------------
(* The inductive invariant, in parts. *)

\* A session that is owed stays closed once it is, as its key is used up, and
\* stays in its portal session until then.
OwedSessions ==
    /\ \A k \in Key : ledger[k] # None => k \in used
    /\ \A s \in Sid : \A k \in owed[s] :
        k \in used /\ (ledger[k] # None => ledger[k].sid = s)

\* No token comes before the portal has ended its session.
TokensOfEnded ==
    \A w \in Worker : subject[w] # None => delivery[subject[w]] # "open"

\* A logout that was verified owes at least what its portal session does; once
\* it owes nothing, nor does that.
VerifiedOwe ==
    \A w \in Worker : job[w].pc = "accepted" =>
        IF due[w] = None THEN Settled(subject[w])
        ELSE \A k \in owed[subject[w]] :
               \/ ledger[k] = None
               \/ <<k, subject[w]>> \in untracked
               \/ k \in due[w].keys

IInv ==
    /\ TypeOK
    /\ OwedSessions
    /\ TokensOfEnded
    /\ VerifiedOwe
    /\ AcknowledgedMeansClosed

-----------------------------------------------------------------------------
(* The composition makes no step that is not one of LogoutUpstream and of      *)
(* SessionLedger, or leaves them alone.                                        *)

LEMMA UpstreamStepsOf ==
    ASSUME Upstream!TypeOK, [Next]_vars
    PROVE  [Upstream!Next]_(Upstream!vars)
<1> USE DEF upstream, Upstream!vars, Upstream!portal
<1>1. ASSUME NEW w \in Worker,
             \/ \E k \in Key : GlobalLogout(w, k)
             \/ \E s \in Sid : Deliver(w, s)
             \/ UpstreamStep(w)
             \/ VerifyToken(w)
             \/ Respond(w)
             \/ AnswerLost(w)
      PROVE  Upstream!Next
  <2>1. CASE \E k \in Key : GlobalLogout(w, k)
    BY <2>1 DEF GlobalLogout, Upstream!Next
  <2>2. CASE \E s \in Sid : Deliver(w, s)
    <3>1. (\E k \in published : Upstream!StartLogout(w, k))
      BY <2>2 DEF Deliver
    <3> QED
      BY <3>1 DEF Upstream!Next, Upstream!TypeOK
  <2>3. CASE UpstreamStep(w)
    BY <2>3 DEF UpstreamStep, Upstream!Next, Upstream!HandlerStep
  <2>4. CASE VerifyToken(w)
    BY <2>4 DEF VerifyToken, Upstream!Next, Upstream!HandlerStep
  <2>5. CASE Respond(w) \/ AnswerLost(w)
    BY <2>5 DEF Respond, AnswerLost, Upstream!Next, Upstream!HandlerStep
  <2> QED
    BY <1>1, <2>1, <2>2, <2>3, <2>4, <2>5
<1>2. CASE Restart
  BY <1>2 DEF Restart, Upstream!Next
<1>3. CASE Environment
  BY <1>3 DEF Environment, Upstream!Next
<1>4. CASE \/ \E k \in Key : \/ \E s \in Sid : LogIn(k, s)
                             \/ SessionEnds(k)
                             \/ LosesTrack(k)
           \/ \E s \in Sid : PortalEnds(s)
           \/ \E w \in Worker : CloseSessions(w)
           \/ UNCHANGED vars
  <2>1. UNCHANGED upstream
    BY <1>4 DEF LogIn, SessionEnds, LosesTrack, PortalEnds, CloseSessions, vars
  <2> QED
    BY <2>1
<1> QED
  BY <1>1, <1>2, <1>3, <1>4 DEF Next

LEMMA LedgerStepsOf ==
    ASSUME TypeOK, [Next]_vars
    PROVE  [Ledger!Next]_(Ledger!vars)
<1> USE DEF sessions, Ledger!vars
<1>1. ASSUME NEW k \in Key,
             \/ \E s \in Sid : LogIn(k, s)
             \/ SessionEnds(k)
             \/ LosesTrack(k)
             \/ \E w \in Worker : GlobalLogout(w, k)
      PROVE  Ledger!Next
  <2>1. CASE \E s \in Sid : LogIn(k, s)
    <3>1. PICK s \in Sid : LogIn(k, s)
      BY <2>1
    <3>2. owner[SidSub[s]] \in User /\ Ledger!Open(k, owner[SidSub[s]], s)
      BY <3>1, UserAssumption DEF LogIn, TypeOK, Ledger!TypeOK
    <3> QED
      BY <3>1, <3>2 DEF Ledger!Next
  <2>2. CASE SessionEnds(k) \/ \E w \in Worker : GlobalLogout(w, k)
    BY <2>2 DEF SessionEnds, GlobalLogout, Ledger!Next
  <2>3. CASE LosesTrack(k)
    <3>1. {k} \X Sid \in SUBSET (Key \X Sid)
      OBVIOUS
    <3> QED
      BY <2>3, <3>1 DEF LosesTrack, Ledger!Next
  <2> QED
    BY <1>1, <2>1, <2>2, <2>3
<1>2. ASSUME NEW w \in Worker, VerifyToken(w)
      PROVE  [Ledger!Next]_(Ledger!vars)
  <2>1. CASE Ledger!BeginLogout(w, subject[w])
    <3>1. job[w].kid # None
      BY <1>2, NoneAssumption
         DEF VerifyToken, Upstream!FindKey, Upstream!StoreJwks, TypeOK,
             Upstream!TypeOK
    <3>2. subject[w] \in Sid
      BY <3>1 DEF TypeOK
    <3> QED
      BY <2>1, <3>2 DEF Ledger!Next
  <2>2. CASE UNCHANGED sessions
    BY <2>2
  <2> QED
    BY <1>2, <2>1, <2>2 DEF VerifyToken
<1>3. ASSUME NEW w \in Worker, CloseSessions(w)
      PROVE  Ledger!Next
  BY <1>3 DEF CloseSessions, Ledger!Next
<1>4. ASSUME NEW w \in Worker, AnswerLost(w)
      PROVE  Ledger!Next
  <2>1. {w} \in SUBSET Worker
    OBVIOUS
  <2> QED
    BY <1>4, <2>1 DEF AnswerLost, Ledger!Next
<1>5. CASE Restart
  <2>1. Worker \in SUBSET Worker
    OBVIOUS
  <2> QED
    BY <1>5, <2>1 DEF Restart, Ledger!Next
<1>6. CASE \/ \E s \in Sid : PortalEnds(s)
           \/ \E w \in Worker : \E s \in Sid : Deliver(w, s)
           \/ \E w \in Worker : UpstreamStep(w) \/ Respond(w)
           \/ Environment
           \/ UNCHANGED vars
  <2>1. UNCHANGED sessions
    BY <1>6 DEF PortalEnds, Deliver, UpstreamStep, Respond, Environment, vars
  <2> QED
    BY <2>1
<1> QED
  BY <1>1, <1>2, <1>3, <1>4, <1>5, <1>6 DEF Next

-----------------------------------------------------------------------------
(* Both components keep their types.                                           *)

LEMMA JobUpdates ==
    ASSUME NEW j \in Upstream!Job
    PROVE  /\ \A u \in Uri :
                /\ [j EXCEPT !.pc = "client", !.uri = u] \in Upstream!Job
                /\ [j EXCEPT !.pc = "redirect", !.uri = u] \in Upstream!Job
                /\ [j EXCEPT !.pc = "client", !.uri = u,
                             !.document = None, !.since = 0] \in Upstream!Job
                /\ [j EXCEPT !.pc = "redirect", !.uri = u,
                             !.document = None, !.since = 0] \in Upstream!Job
                /\ [j EXCEPT !.document = u] \in Upstream!Job
           /\ [j EXCEPT !.pc = "find_key"] \in Upstream!Job
           /\ [j EXCEPT !.pc = "accepted"] \in Upstream!Job
           /\ [j EXCEPT !.pc = "refused"] \in Upstream!Job
           /\ \A t \in Nat :
                /\ [j EXCEPT !.pc = "fetch_discovery", !.since = t] \in Upstream!Job
                /\ [j EXCEPT !.pc = "fetch_jwks", !.since = t] \in Upstream!Job
           /\ \A pc \in {"accepted", "refused"} :
                [j EXCEPT !.pc = pc, !.keys = {}, !.since = 0] \in Upstream!Job
           /\ [j EXCEPT !.pc = "unavailable", !.document = None,
                         !.keys = {}, !.since = 0] \in Upstream!Job
           /\ \A keys \in SUBSET Kid : [j EXCEPT !.keys = keys] \in Upstream!Job
BY DEF Upstream!Job, Upstream!PC

LEMMA Jobs ==
    ASSUME Upstream!TypeOK, Upstream!Next
    PROVE  job' \in [Worker -> Upstream!Job]
<1> USE DEF Upstream!TypeOK
<1>1. Upstream!Idle \in Upstream!Job
  BY DEF Upstream!Idle, Upstream!Job, Upstream!PC
<1>2. \A k \in Kid :
        [Upstream!Idle EXCEPT !.pc = "discover", !.kid = k] \in Upstream!Job
  BY DEF Upstream!Idle, Upstream!Job, Upstream!PC
<1>3. [Upstream!Idle EXCEPT !.pc = "discover"] \in Upstream!Job
  BY DEF Upstream!Idle, Upstream!Job, Upstream!PC
<1>4. ASSUME NEW w \in Worker, Upstream!HandlerStep(w)
      PROVE  job' \in [Worker -> Upstream!Job]
  <2>1. job[w] \in Upstream!Job
    OBVIOUS
  <2>2. CASE Upstream!ReadDiscovery(w)
    <3>1. discovery.uri \in Uri
      BY <2>2 DEF Upstream!ReadDiscovery, Upstream!Document
    <3> QED
      BY <2>1, <2>2, <3>1, JobUpdates
         DEF Upstream!ReadDiscovery, Upstream!Discovered
  <2>3. CASE Upstream!FetchDiscovery(w)
    BY <2>1, <2>3, JobUpdates DEF Upstream!FetchDiscovery
  <2>4. CASE Upstream!StoreDiscovery(w)
    <3>1. job[w].document \in Uri
      BY <2>4 DEF Upstream!StoreDiscovery, Upstream!Job
    <3> QED
      BY <2>1, <2>4, <3>1, JobUpdates
         DEF Upstream!StoreDiscovery, Upstream!Discovered
  <2>5. CASE Upstream!JwkClient(w)
    BY <2>1, <2>5, JobUpdates DEF Upstream!JwkClient
  <2>6. CASE Upstream!FindKey(w)
    BY <2>1, <2>6, JobUpdates DEF Upstream!FindKey
  <2>7. CASE Upstream!RefuseUnknownKid(w)
    BY <2>1, <2>7, JobUpdates DEF Upstream!RefuseUnknownKid
  <2>8. CASE Upstream!FetchJwks(w)
    BY <2>1, <2>8, JobUpdates DEF Upstream!FetchJwks
  <2>9. CASE Upstream!StoreJwks(w)
    BY <2>1, <2>9, JobUpdates DEF Upstream!StoreJwks
  <2>10. CASE Upstream!UpstreamFails(w)
    BY <2>1, <2>10, JobUpdates DEF Upstream!UpstreamFails
  <2>11. CASE Upstream!Respond(w)
    BY <1>1, <2>11 DEF Upstream!Respond
  <2> QED
    BY <1>4, <2>2, <2>3, <2>4, <2>5, <2>6, <2>7, <2>8, <2>9, <2>10, <2>11
       DEF Upstream!HandlerStep
<1>5. ASSUME NEW w \in Worker,
             Upstream!AnswerDiscovery(w) \/ Upstream!AnswerJwks(w)
      PROVE  job' \in [Worker -> Upstream!Job]
  <2>1. /\ job[w] \in Upstream!Job
        /\ jwks_uri \in Uri
        /\ published \in SUBSET Kid
    OBVIOUS
  <2>2. CASE Upstream!AnswerDiscovery(w)
    BY <2>1, <2>2, JobUpdates DEF Upstream!AnswerDiscovery
  <2>3. CASE Upstream!AnswerJwks(w)
    BY <2>1, <2>3, JobUpdates DEF Upstream!AnswerJwks
  <2> QED
    BY <1>5, <2>2, <2>3
<1>6. ASSUME NEW w \in Worker,
             \/ \E k \in Kid : Upstream!StartLogout(w, k)
             \/ Upstream!StartGlobalLogout(w)
      PROVE  job' \in [Worker -> Upstream!Job]
  BY <1>2, <1>3, <1>6 DEF Upstream!StartLogout, Upstream!StartGlobalLogout
<1>7. CASE Upstream!Restart
  BY <1>1, <1>7 DEF Upstream!Restart
<1>8. CASE \/ \E k \in Rotated : Upstream!RotateKey(k)
           \/ \E u \in Uri : Upstream!MoveJwks(u)
           \/ Upstream!Tick
  <2>1. UNCHANGED job
    BY <1>8 DEF Upstream!RotateKey, Upstream!MoveJwks, Upstream!Tick
  <2> QED
    BY <2>1
<1> QED
  BY <1>4, <1>5, <1>6, <1>7, <1>8 DEF Upstream!Next

LEMMA UpstreamTypes ==
    ASSUME Upstream!TypeOK, Upstream!Next
    PROVE  Upstream!TypeOK'
<1> USE NoneAssumption, UpstreamAssumption
    DEF Upstream!TypeOK, Upstream!portal, Upstream!Idle
<1>1. job' \in [Worker -> Upstream!Job]
  BY Jobs
<1>2. ASSUME NEW w \in Worker,
             \/ \E k \in Kid : Upstream!StartLogout(w, k)
             \/ Upstream!StartGlobalLogout(w)
      PROVE  Upstream!TypeOK'
  <2>1. CASE \E k \in Kid : Upstream!StartLogout(w, k)
    BY <1>1, <2>1 DEF Upstream!StartLogout
  <2>2. CASE Upstream!StartGlobalLogout(w)
    BY <1>1, <2>2 DEF Upstream!StartGlobalLogout
  <2> QED
    BY <1>2, <2>1, <2>2
<1>3. ASSUME NEW w \in Worker, Upstream!HandlerStep(w)
      PROVE  Upstream!TypeOK'
  <2>1. CASE Upstream!ReadDiscovery(w)
    <3>1. discovery.uri \in Uri /\ job[w].kid \in Kid \union {None}
      BY <2>1 DEF Upstream!ReadDiscovery, Upstream!Document, Upstream!Job
    <3> QED
      BY <1>1, <2>1, <3>1 DEF Upstream!ReadDiscovery, Upstream!Discovered
  <2>2. CASE Upstream!FetchDiscovery(w)
    BY <1>1, <2>2 DEF Upstream!FetchDiscovery
  <2>3. CASE Upstream!StoreDiscovery(w)
    <3>1. job[w].document \in Uri /\ job[w].kid \in Kid \union {None}
      BY <2>3 DEF Upstream!StoreDiscovery, Upstream!Job
    <3>2. discovery' \in Upstream!Document
      BY <2>3, <3>1 DEF Upstream!StoreDiscovery, Upstream!Document
    <3> QED
      BY <1>1, <2>3, <3>1, <3>2
         DEF Upstream!StoreDiscovery, Upstream!Discovered
  <2>4. CASE Upstream!JwkClient(w)
    BY <1>1, <2>4 DEF Upstream!JwkClient
  <2>5. CASE Upstream!FindKey(w)
    BY <1>1, <2>5 DEF Upstream!FindKey
  <2>10. CASE Upstream!RefuseUnknownKid(w)
    BY <1>1, <2>10 DEF Upstream!RefuseUnknownKid
  <2>6. CASE Upstream!FetchJwks(w)
    BY <1>1, <2>6 DEF Upstream!FetchJwks
  <2>7. CASE Upstream!StoreJwks(w)
    <3>1. clients' \in [Uri -> Upstream!JwkSet]
      BY <2>7 DEF Upstream!StoreJwks, Upstream!JwkSet, Upstream!Job
    <3> QED
      BY <1>1, <2>7, <3>1 DEF Upstream!StoreJwks
  <2>8. CASE Upstream!UpstreamFails(w)
    <3>1. clients' \in [Uri -> Upstream!JwkSet]
      BY <2>8 DEF Upstream!UpstreamFails, Upstream!JwkSet, Upstream!NoSet
    <3> QED
      BY <1>1, <2>8, <3>1 DEF Upstream!UpstreamFails
  <2>9. CASE Upstream!Respond(w)
    BY <1>1, <2>9 DEF Upstream!Respond
  <2> QED
    BY <1>3, <2>1, <2>2, <2>3, <2>4, <2>5, <2>6, <2>7, <2>8, <2>9,
       <2>10
       DEF Upstream!HandlerStep
<1>4. ASSUME NEW w \in Worker,
             Upstream!AnswerDiscovery(w) \/ Upstream!AnswerJwks(w)
      PROVE  Upstream!TypeOK'
  <2>1. CASE Upstream!AnswerDiscovery(w)
    BY <1>1, <2>1 DEF Upstream!AnswerDiscovery
  <2>2. CASE Upstream!AnswerJwks(w)
    BY <1>1, <2>2 DEF Upstream!AnswerJwks
  <2> QED
    BY <1>4, <2>1, <2>2
<1>5. CASE Upstream!Restart
  <2>1. clients' \in [Uri -> Upstream!JwkSet]
    BY <1>5 DEF Upstream!Restart, Upstream!JwkSet, Upstream!NoSet
  <2> QED
    BY <1>1, <1>5, <2>1 DEF Upstream!Restart
<1>6. CASE \E k \in Rotated : Upstream!RotateKey(k)
  BY <1>1, <1>6 DEF Upstream!RotateKey
<1>7. CASE \E u \in Uri : Upstream!MoveJwks(u)
  BY <1>1, <1>7 DEF Upstream!MoveJwks
<1>8. CASE Upstream!Tick
  BY <1>1, <1>8 DEF Upstream!Tick
<1> QED
  BY <1>2, <1>3, <1>4, <1>5, <1>6, <1>7, <1>8 DEF Upstream!Next

LEMMA LedgerTypes ==
    ASSUME Ledger!TypeOK, Ledger!Next
    PROVE  Ledger!TypeOK'
<1> USE NoneAssumption DEF Ledger!TypeOK
<1>1. CASE \E k \in Key, u \in User, s \in Sid \union {None} :
              Ledger!Open(k, u, s)
  BY <1>1 DEF Ledger!Open, Ledger!Entry
<1>2. CASE \E k \in Key, s \in Sid : Ledger!Bind(k, s)
  <2>1. PICK k \in Key, s \in Sid : Ledger!Bind(k, s)
    BY <1>2
  <2>2. ledger[k] \in Ledger!Entry /\ ledger[k].sid \in Sid \union {None}
    BY <2>1 DEF Ledger!Bind, Ledger!Entry
  <2>3. [ledger[k] EXCEPT !.sid = s] \in Ledger!Entry
    BY <2>2 DEF Ledger!Entry
  <2>4. ledger' \in [Key -> Ledger!Entry \union {None}]
    BY <2>1, <2>3 DEF Ledger!Bind
  <2>5. untracked' \subseteq Key \X Sid
    BY <2>1, <2>2 DEF Ledger!Bind
  <2> QED
    BY <2>1, <2>4, <2>5 DEF Ledger!Bind
<1>3. CASE \E k \in Key : Ledger!Close(k)
  BY <1>3 DEF Ledger!Close
<1>4. CASE \E pairs \in SUBSET (Key \X Sid) : Ledger!LoseTrack(pairs)
  BY <1>4 DEF Ledger!LoseTrack
<1>5. CASE \E w \in Worker, s \in Sid : Ledger!BeginLogout(w, s)
  BY <1>5 DEF Ledger!BeginLogout, Ledger!Logout
<1>6. CASE \E w \in Worker, closed \in SUBSET Key : Ledger!FinishLogout(w, closed)
  BY <1>6 DEF Ledger!FinishLogout
<1>7. CASE \E workers \in SUBSET Worker : Ledger!AbandonLogouts(workers)
  BY <1>7 DEF Ledger!AbandonLogouts
<1>8. CASE \E p \in Sub, u \in User : Ledger!Connect(p, u)
  BY <1>8 DEF Ledger!Connect
<1> QED
  BY <1>1, <1>2, <1>3, <1>4, <1>5, <1>6, <1>7, <1>8 DEF Ledger!Next

\* The open sessions of a sid that a logout of it can reach.
Reachable(s) == {k \in Key : /\ ledger[k] # None
                             /\ ledger[k].sid = s
                             /\ <<k, s>> \notin untracked}

LEMMA LogoutBegins ==
    ASSUME Ledger!TypeOK, NEW w \in Worker, NEW s \in Sid,
           Ledger!BeginLogout(w, s)
    PROVE  /\ due'[w] # None
           /\ due'[w].keys = Reachable(s)
           /\ UNCHANGED <<ledger, untracked>>
<1> DEFINE logout == [sid |-> s, keys |-> Reachable(s)]
<1>1. due' = [due EXCEPT ![w] = logout] /\ UNCHANGED <<ledger, untracked>>
  BY DEF Ledger!BeginLogout, Reachable
<1>2. Reachable(s) \subseteq Key
  BY DEF Reachable
<1>3. logout \in Ledger!Logout /\ logout.keys = Reachable(s)
  BY <1>2 DEF Ledger!Logout
<1> HIDE DEF logout
<1>4. due'[w] = logout
  BY <1>1 DEF Ledger!TypeOK
<1> QED
  BY <1>1, <1>3, <1>4, NoneAssumption

-----------------------------------------------------------------------------
(* What a step does to the jobs.                                               *)

OthersKeepJobs(w) == \A v \in Worker : v # w => job'[v] = job[v]

\* Fetching and looking things up: the token stays, and is not accepted yet.
LEMMA UpstreamStepJobs ==
    ASSUME Upstream!TypeOK, NEW w \in Worker, UpstreamStep(w)
    PROVE  /\ job'[w].kid = job[w].kid
           /\ job[w].pc # "accepted" /\ job'[w].pc # "accepted"
           /\ job'[w].pc # "idle"
           /\ OthersKeepJobs(w)
<1> USE DEF Upstream!TypeOK, Upstream!Job, OthersKeepJobs
<1>1. CASE \/ Upstream!ReadDiscovery(w)
           \/ Upstream!FetchDiscovery(w)
           \/ Upstream!StoreDiscovery(w)
  BY <1>1 DEF Upstream!ReadDiscovery, Upstream!FetchDiscovery,
              Upstream!StoreDiscovery, Upstream!Discovered
<1>2. CASE \/ Upstream!AnswerDiscovery(w)
           \/ Upstream!AnswerJwks(w)
  BY <1>2 DEF Upstream!AnswerDiscovery, Upstream!AnswerJwks
<1>3. CASE \/ Upstream!JwkClient(w)
           \/ Upstream!RefuseUnknownKid(w)
           \/ Upstream!FetchJwks(w)
  BY <1>3 DEF Upstream!JwkClient, Upstream!RefuseUnknownKid, Upstream!FetchJwks
<1>4. CASE Upstream!UpstreamFails(w)
  BY <1>4 DEF Upstream!UpstreamFails, Upstream!Fetching
<1> QED
  BY <1>1, <1>2, <1>3, <1>4 DEF UpstreamStep

LEMMA VerifyTokenJobs ==
    ASSUME TypeOK, NEW w \in Worker, VerifyToken(w)
    PROVE  /\ job'[w].kid = job[w].kid
           /\ job[w].pc # "accepted" /\ job'[w].pc # "idle"
           /\ subject[w] \in Sid
           /\ OthersKeepJobs(w)
<1> USE DEF TypeOK, Upstream!TypeOK, Upstream!Job, OthersKeepJobs
<1>1. job[w].pc \in {"find_key", "fetch_jwks"}
  BY DEF VerifyToken, Upstream!FindKey, Upstream!StoreJwks
<1>2. subject[w] \in Sid
  BY <1>1, NoneAssumption
<1>3. /\ job'[w].kid = job[w].kid
      /\ job'[w].pc # "idle"
      /\ OthersKeepJobs(w)
  BY DEF VerifyToken, Upstream!FindKey, Upstream!StoreJwks
<1> QED
  BY <1>1, <1>2, <1>3

LEMMA StartingJobs ==
    ASSUME TypeOK, NEW w \in Worker
    PROVE  /\ \A s \in Sid : Deliver(w, s) =>
                /\ job[w].pc = "idle" /\ job'[w].pc = "discover"
                /\ job'[w].kid \in Kid
                /\ OthersKeepJobs(w)
           /\ \A k \in Key : GlobalLogout(w, k) =>
                /\ job[w].pc = "idle" /\ job'[w].pc = "discover"
                /\ job'[w].kid = None
                /\ OthersKeepJobs(w)
           /\ Respond(w) \/ AnswerLost(w) =>
                /\ job'[w].pc = "idle"
                /\ job'[w].kid = None
                /\ OthersKeepJobs(w)
<1> USE DEF TypeOK, Upstream!TypeOK, OthersKeepJobs, Upstream!Idle
<1>1. ASSUME NEW s \in Sid, Deliver(w, s)
      PROVE  /\ job[w].pc = "idle" /\ job'[w].pc = "discover"
             /\ job'[w].kid \in Kid
             /\ OthersKeepJobs(w)
  <2>1. PICK k \in published : Upstream!StartLogout(w, k)
    BY <1>1 DEF Deliver
  <2> QED
    BY <2>1 DEF Upstream!StartLogout
<1>2. ASSUME NEW k \in Key, GlobalLogout(w, k)
      PROVE  /\ job[w].pc = "idle" /\ job'[w].pc = "discover"
             /\ job'[w].kid = None
             /\ OthersKeepJobs(w)
  BY <1>2 DEF GlobalLogout, Upstream!StartGlobalLogout
<1>3. ASSUME Respond(w) \/ AnswerLost(w)
      PROVE  /\ job'[w].pc = "idle"
             /\ job'[w].kid = None
             /\ OthersKeepJobs(w)
  BY <1>3 DEF Respond, AnswerLost, Upstream!Respond
<1> QED
  BY <1>1, <1>2, <1>3

LEMMA RestartJobs ==
    ASSUME Restart, NEW v \in Worker
    PROVE  job'[v].pc = "idle" /\ job'[v].kid = None
BY DEF Restart, Upstream!Restart, Upstream!Idle

\* No other step touches a job.
Bystander ==
    \/ \E k \in Key : \/ \E s \in Sid : LogIn(k, s)
                      \/ SessionEnds(k)
                      \/ LosesTrack(k)
    \/ \E s \in Sid : PortalEnds(s)
    \/ \E w \in Worker : CloseSessions(w)
    \/ Environment
    \/ UNCHANGED vars

LEMMA BystanderJobs == Bystander => UNCHANGED <<job, subject>>
BY DEF Bystander, LogIn, SessionEnds, LosesTrack, PortalEnds, CloseSessions,
       Environment, Upstream!RotateKey, Upstream!Tick, vars, upstream, deliveries

LEMMA StepKinds ==
    ASSUME [Next]_vars
    PROVE  \/ Bystander
           \/ \E w \in Worker :
                \/ \E k \in Key : GlobalLogout(w, k)
                \/ \E s \in Sid : Deliver(w, s)
                \/ UpstreamStep(w)
                \/ VerifyToken(w)
                \/ Respond(w)
                \/ AnswerLost(w)
           \/ Restart
BY DEF Next, Bystander

-----------------------------------------------------------------------------
(* The invariant.                                                              *)

Attempt(w) ==
    /\ job[w].kid # None <=> subject[w] # None
    /\ job[w].pc = "idle" => subject[w] = None
    /\ due[w] # None => job[w].pc = "accepted" /\ due[w].sid = subject[w]

LEMMA AttemptNext ==
    ASSUME TypeOK, [Next]_vars, NEW v \in Worker
    PROVE  Attempt(v)'
<1> USE DEF Attempt
<1>0. Attempt(v)
  BY DEF TypeOK
<1>1. CASE Bystander
  <2>1. UNCHANGED <<job, subject>>
    BY <1>1, BystanderJobs
  <2>2. due'[v] = due[v] \/ due'[v] = None
    BY <1>1 DEF Bystander, LogIn, SessionEnds, LosesTrack, PortalEnds,
         CloseSessions, Environment, Ledger!Open, Ledger!Close,
         Ledger!LoseTrack, Ledger!FinishLogout, TypeOK, Ledger!TypeOK,
         sessions, vars
  <2> QED
    BY <1>0, <2>1, <2>2
<1>2. ASSUME NEW w \in Worker, NEW k \in Key, GlobalLogout(w, k)
      PROVE  Attempt(v)'
  <2>1. UNCHANGED <<due, subject>>
    BY <1>2 DEF GlobalLogout, Ledger!Close, deliveries
  <2> QED
    BY <1>0, <1>2, <2>1, StartingJobs DEF OthersKeepJobs
<1>3. ASSUME NEW w \in Worker, NEW s \in Sid, Deliver(w, s)
      PROVE  Attempt(v)'
  <2>1. UNCHANGED due /\ subject' = [subject EXCEPT ![w] = s]
    BY <1>3 DEF Deliver, sessions
  <2> QED
    BY <1>0, <1>3, <2>1, StartingJobs, NoneAssumption DEF OthersKeepJobs, TypeOK
<1>4. ASSUME NEW w \in Worker, UpstreamStep(w)
      PROVE  Attempt(v)'
  <2>1. UNCHANGED <<due, subject>>
    BY <1>4 DEF UpstreamStep, sessions, deliveries
  <2> QED
    BY <1>0, <1>4, <2>1, UpstreamStepJobs DEF OthersKeepJobs, TypeOK
<1>5. ASSUME NEW w \in Worker, VerifyToken(w)
      PROVE  Attempt(v)'
  <2>1. UNCHANGED subject
    BY <1>5 DEF VerifyToken, deliveries
  <2>2. CASE job'[w].pc = "accepted" /\ Ledger!BeginLogout(w, subject[w])
    BY <1>0, <1>5, <2>1, <2>2, VerifyTokenJobs
       DEF Ledger!BeginLogout, OthersKeepJobs, TypeOK, Ledger!TypeOK
  <2>3. CASE UNCHANGED sessions
    BY <1>0, <1>5, <2>1, <2>3, VerifyTokenJobs DEF OthersKeepJobs, sessions
  <2> QED
    BY <1>5, <2>2, <2>3 DEF VerifyToken
<1>6. ASSUME NEW w \in Worker, Respond(w) \/ AnswerLost(w)
      PROVE  Attempt(v)'
  <2>1. /\ subject' = [subject EXCEPT ![w] = None]
        /\ due'[w] = None
        /\ v # w => due'[v] = due[v]
    BY <1>6 DEF Respond, AnswerLost, Ledger!AbandonLogouts, TypeOK,
         Ledger!TypeOK, sessions
  <2> QED
    BY <1>0, <1>6, <2>1, StartingJobs DEF OthersKeepJobs, TypeOK
<1>7. CASE Restart
  <2>1. subject'[v] = None /\ due'[v] = None
    BY <1>7 DEF Restart, Ledger!AbandonLogouts
  <2> QED
    BY <1>7, <2>1, RestartJobs
<1> QED
  BY <1>1, <1>2, <1>3, <1>4, <1>5, <1>6, <1>7, StepKinds

LEMMA TypeNext == ASSUME TypeOK, [Next]_vars PROVE TypeOK'
<1>1. Upstream!TypeOK'
  <2>1. CASE Upstream!Next
    BY <2>1, UpstreamTypes DEF TypeOK
  <2>2. CASE UNCHANGED Upstream!vars
    BY <2>2 DEF TypeOK, Upstream!TypeOK, Upstream!vars, Upstream!portal
  <2> QED
    BY <2>1, <2>2, UpstreamStepsOf DEF TypeOK
<1>2. Ledger!TypeOK'
  <2>1. CASE Ledger!Next
    BY <2>1, LedgerTypes DEF TypeOK
  <2>2. CASE UNCHANGED Ledger!vars
    BY <2>2 DEF TypeOK, Ledger!TypeOK, Ledger!vars
  <2> QED
    BY <2>1, <2>2, LedgerStepsOf
<1>3. /\ delivery' \in [Sid -> {"open", "pending", "done", "dropped"}]
      /\ subject' \in [Worker -> Sid \union {None}]
      /\ owed' \in [Sid -> SUBSET Key]
  <2> USE DEF TypeOK, deliveries
  <2>1. CASE \E s \in Sid : PortalEnds(s)
    BY <2>1 DEF PortalEnds
  <2>2. CASE \E w \in Worker, s \in Sid : Deliver(w, s)
    BY <2>2 DEF Deliver
  <2>3. CASE \E w \in Worker : Respond(w)
    <3>1. \A w \in Worker : Outcome(w) \in {"open", "pending", "done", "dropped"}
      BY DEF Outcome
    <3> QED
      BY <2>3, <3>1 DEF Respond
  <2>4. CASE \E w \in Worker : AnswerLost(w)
    BY <2>4 DEF AnswerLost
  <2>5. CASE Restart
    BY <2>5 DEF Restart
  <2>6. CASE UNCHANGED deliveries
    BY <2>6
  <2> QED
    BY <2>1, <2>2, <2>3, <2>4, <2>5, <2>6
       DEF Next, LogIn, SessionEnds, LosesTrack, GlobalLogout, UpstreamStep,
           VerifyToken, CloseSessions, Environment, vars
<1>4. \A w \in Worker : Attempt(w)'
  BY AttemptNext
<1> QED
  BY <1>1, <1>2, <1>3, <1>4 DEF TypeOK, Attempt

\* A key in use is at most closed, never signed in anew.
Keeps ==
    /\ \A k \in Key : k \in used => ledger'[k] \in {ledger[k], None}
    /\ \A k \in Key : ledger'[k] # None => k \in used'
    /\ used \subseteq used'
    /\ untracked \subseteq untracked'

LEMMA LedgerKeeps ==
    ASSUME TypeOK, OwedSessions, [Next]_vars
    PROVE  Keeps
<1> USE DEF TypeOK, Ledger!TypeOK, OwedSessions, Keeps
<1>1. ASSUME NEW k \in Key, NEW s \in Sid, LogIn(k, s)
      PROVE  Keeps
  BY <1>1 DEF LogIn, Ledger!Open
<1>2. ASSUME NEW k \in Key, Ledger!Close(k)
      PROVE  Keeps
  BY <1>2 DEF Ledger!Close
<1>3. ASSUME NEW k \in Key, LosesTrack(k)
      PROVE  Keeps
  BY <1>3 DEF LosesTrack, Ledger!LoseTrack
<1>4. ASSUME NEW w \in Worker, CloseSessions(w)
      PROVE  Keeps
  BY <1>4 DEF CloseSessions, Ledger!FinishLogout
<1>5. CASE UNCHANGED <<ledger, used, untracked>>
  BY <1>5
<1> QED
  BY <1>1, <1>2, <1>3, <1>4, <1>5
     DEF Next, SessionEnds, GlobalLogout, PortalEnds, Deliver, UpstreamStep,
         VerifyToken, Respond, AnswerLost, Restart, Environment, sessions, vars,
         Ledger!BeginLogout, Ledger!AbandonLogouts

LEMMA OwedUnlessEnded ==
    ASSUME [Next]_vars
    PROVE  UNCHANGED owed \/ \E s \in Sid : PortalEnds(s)
BY DEF Next, LogIn, SessionEnds, LosesTrack, GlobalLogout, Deliver, UpstreamStep,
       VerifyToken, CloseSessions, Respond, AnswerLost, Restart, Environment,
       deliveries, vars

\* When the portal ends a session it is owed what is open then.
LEMMA EndsOwe ==
    ASSUME TypeOK, NEW s \in Sid, PortalEnds(s)
    PROVE  /\ delivery[s] = "open" /\ delivery'[s] = "pending"
           /\ \A r \in Sid : r # s => /\ delivery'[r] = delivery[r]
                                     /\ owed'[r] = owed[r]
           /\ owed'[s] = Reachable(s)
           /\ UNCHANGED <<ledger, used, untracked, due, job, subject>>
BY DEF PortalEnds, TypeOK, sessions, upstream, Reachable

LEMMA OwedNext ==
    ASSUME TypeOK, OwedSessions, [Next]_vars
    PROVE  OwedSessions'
<1>1. Keeps
  BY LedgerKeeps
<1>2. CASE UNCHANGED owed
  BY <1>1, <1>2 DEF OwedSessions, Keeps, TypeOK
<1>3. ASSUME NEW s \in Sid, PortalEnds(s)
      PROVE  OwedSessions'
  <2>1. /\ owed'[s] = Reachable(s)
        /\ \A r \in Sid \ {s} : owed'[r] = owed[r]
        /\ UNCHANGED <<ledger, used>>
    BY <1>3, EndsOwe
  <2>2. \A k \in Reachable(s) : k \in Key /\ ledger[k] # None /\ ledger[k].sid = s
    BY DEF Reachable
  <2> QED
    BY <2>1, <2>2 DEF OwedSessions
<1> QED
  BY <1>2, <1>3, OwedUnlessEnded

\* What is settled stays so.
LEMMA StaysSettled ==
    ASSUME TypeOK, OwedSessions, [Next]_vars, NEW s \in Sid, Settled(s),
           owed'[s] = owed[s]
    PROVE  Settled(s)'
BY LedgerKeeps DEF Settled, Keeps, OwedSessions, TypeOK

LEMMA TokensNext ==
    ASSUME TypeOK, TokensOfEnded, [Next]_vars
    PROVE  TokensOfEnded'
<1> USE DEF TypeOK, TokensOfEnded
<1>1. CASE UNCHANGED <<delivery, subject>>
  BY <1>1
<1>2. ASSUME NEW s \in Sid, PortalEnds(s)
      PROVE  TokensOfEnded'
  BY <1>2, EndsOwe
<1>3. ASSUME NEW w \in Worker, NEW s \in Sid, Deliver(w, s)
      PROVE  TokensOfEnded'
  BY <1>3 DEF Deliver
<1>4. ASSUME NEW w \in Worker, Respond(w)
      PROVE  TokensOfEnded'
  <2>1. Outcome(w) # "open"
    BY DEF Outcome
  <2>2. \A s \in Sid : delivery[s] # "open" => delivery'[s] # "open"
    BY <1>4, <2>1 DEF Respond
  <2>3. \A v \in Worker : subject'[v] \in {subject[v], None}
    BY <1>4 DEF Respond
  <2> QED
    BY <2>2, <2>3
<1>5. CASE (\E w \in Worker : AnswerLost(w)) \/ Restart
  <2>1. UNCHANGED delivery
    BY <1>5 DEF AnswerLost, Restart
  <2>2. \A v \in Worker : subject'[v] \in {subject[v], None}
    BY <1>5 DEF AnswerLost, Restart
  <2> QED
    BY <2>1, <2>2
<1> QED
  BY <1>1, <1>2, <1>3, <1>4, <1>5
     DEF Next, LogIn, SessionEnds, LosesTrack, GlobalLogout, UpstreamStep,
         VerifyToken, CloseSessions, Environment, deliveries, vars

\* A logout that goes on owing the same still owes all that is open.
Owes(w) ==
    IF due[w] = None THEN Settled(subject[w])
    ELSE \A k \in owed[subject[w]] :
           \/ ledger[k] = None
           \/ <<k, subject[w]>> \in untracked
           \/ k \in due[w].keys

LEMMA StillOwes ==
    ASSUME TypeOK, OwedSessions, [Next]_vars, NEW w \in Worker,
           subject[w] \in Sid, Owes(w), due'[w] = due[w],
           UNCHANGED owed, subject'[w] = subject[w]
    PROVE  Owes(w)'
<1>1. CASE due[w] = None
  BY <1>1, StaysSettled DEF Owes
<1>2. CASE due[w] # None
  BY <1>2, LedgerKeeps DEF Owes, Keeps, OwedSessions, TypeOK
<1> QED
  BY <1>1, <1>2

LEMMA VerifiedNext ==
    ASSUME TypeOK, OwedSessions, TokensOfEnded, VerifiedOwe, [Next]_vars,
           NEW v \in Worker, job'[v].pc = "accepted"
    PROVE  Owes(v)'
<1> DEFINE Before == job[v].pc = "accepted" /\ Owes(v) /\ subject[v] \in Sid
<1>0. job[v].pc = "accepted" => Before
  BY NoneAssumption DEF VerifiedOwe, Owes, TypeOK, Upstream!TypeOK
<1> HIDE DEF Before
<1>1. ASSUME Before, due'[v] = due[v], UNCHANGED owed, subject'[v] = subject[v]
      PROVE  Owes(v)'
  BY <1>1, StillOwes DEF Before
<1>2. ASSUME NEW s \in Sid, PortalEnds(s)
      PROVE  Owes(v)'
  <2>1. Before /\ subject[v] # s
    BY <1>0, <1>2, EndsOwe, NoneAssumption DEF TokensOfEnded, Before
  <2> QED
    BY <1>2, <2>1, EndsOwe DEF Before, Owes, Settled
<1>3. ASSUME NEW w \in Worker, CloseSessions(w)
      PROVE  Owes(v)'
  <2>1. Before /\ UNCHANGED <<owed, subject>>
    BY <1>0, <1>3 DEF CloseSessions, upstream, deliveries
  <2>2. CASE v # w
    <3>1. due'[v] = due[v]
      BY <1>3, <2>2 DEF CloseSessions, Ledger!FinishLogout, TypeOK, Ledger!TypeOK
    <3> QED
      BY <1>1, <2>1, <3>1
  <2>3. CASE v = w
    <3>1. PICK closed \in SUBSET Key : Ledger!FinishLogout(v, closed)
      BY <1>3, <2>3 DEF CloseSessions
    <3>2. /\ due[v] # None /\ due'[v] = None /\ untracked' = untracked
          /\ \A k \in due[v].keys \ closed : <<k, subject[v]>> \in untracked
          /\ \A k \in Key : ledger'[k] = IF k \in closed THEN None ELSE ledger[k]
      BY <3>1 DEF Ledger!FinishLogout, TypeOK, Ledger!TypeOK
    <3>3. \A k \in owed[subject[v]] :
            /\ k \in Key
            /\ \/ ledger[k] = None
               \/ <<k, subject[v]>> \in untracked
               \/ k \in due[v].keys
      BY <2>1, <3>2 DEF Before, Owes, TypeOK
    <3>4. Settled(subject[v])'
      BY <2>1, <3>2, <3>3 DEF Settled
    <3> QED
      BY <2>1, <3>2, <3>4 DEF Owes, Settled
  <2> QED
    BY <2>2, <2>3
<1>4. CASE Bystander
  <2>1. CASE \/ \E k \in Key : \/ \E s \in Sid : LogIn(k, s)
                               \/ SessionEnds(k)
                               \/ LosesTrack(k)
             \/ Environment
             \/ UNCHANGED vars
    <3>1. UNCHANGED <<job, due, owed, subject>>
      BY <1>4, <2>1, BystanderJobs
         DEF LogIn, SessionEnds, LosesTrack, Environment, Ledger!Open,
             Ledger!Close, Ledger!LoseTrack, sessions, deliveries, vars
    <3> QED
      BY <1>0, <1>1, <3>1
  <2> QED
    BY <1>2, <1>3, <1>4, <2>1 DEF Bystander
<1>5. ASSUME NEW w \in Worker, VerifyToken(w)
      PROVE  Owes(v)'
  <2>1. UNCHANGED <<owed, subject>>
    BY <1>5 DEF VerifyToken, deliveries
  <2>2. CASE v # w
    <3>1. job'[v] = job[v]
      BY <1>5, <2>2, VerifyTokenJobs DEF OthersKeepJobs
    <3>2. due'[v] = due[v]
      BY <1>5, <2>2
         DEF VerifyToken, Ledger!BeginLogout, sessions, TypeOK, Ledger!TypeOK
    <3> QED
      BY <1>0, <1>1, <2>1, <3>1, <3>2
  <2>3. CASE v = w
    <3>1. subject[v] \in Sid
      BY <1>5, <2>3, VerifyTokenJobs
    <3>2. Ledger!BeginLogout(v, subject[v])
      BY <1>5, <2>3 DEF VerifyToken
    <3>3. /\ due'[v] # None /\ UNCHANGED <<ledger, untracked>>
          /\ due'[v].keys = Reachable(subject[v])
      BY <3>1, <3>2, LogoutBegins DEF TypeOK
    <3>4. \A k \in owed[subject[v]] :
            /\ k \in Key
            /\ ledger[k] # None => ledger[k].sid = subject[v]
      BY <3>1 DEF OwedSessions, TypeOK
    <3> QED
      BY <2>1, <3>3, <3>4 DEF Owes, Reachable
  <2> QED
    BY <2>2, <2>3
<1>6. ASSUME NEW w \in Worker,
             \/ \E k \in Key : GlobalLogout(w, k)
             \/ \E s \in Sid : Deliver(w, s)
             \/ UpstreamStep(w)
      PROVE  Owes(v)'
  <2>1. v # w /\ job'[v] = job[v]
    BY <1>6, StartingJobs, UpstreamStepJobs DEF OthersKeepJobs, TypeOK
  <2>2. UNCHANGED <<due, owed>> /\ subject'[v] = subject[v]
    BY <1>6, <2>1
       DEF GlobalLogout, Deliver, UpstreamStep, Ledger!Close, sessions,
           deliveries, TypeOK
  <2> QED
    BY <1>0, <1>1, <2>1, <2>2
<1>7. ASSUME NEW w \in Worker, Respond(w) \/ AnswerLost(w)
      PROVE  Owes(v)'
  <2>1. v # w /\ job'[v] = job[v]
    BY <1>7, StartingJobs DEF OthersKeepJobs
  <2>2. UNCHANGED owed /\ subject'[v] = subject[v] /\ due'[v] = due[v]
    BY <1>7, <2>1
       DEF Respond, AnswerLost, Ledger!AbandonLogouts, sessions, TypeOK
  <2> QED
    BY <1>0, <1>1, <2>1, <2>2
<1>8. CASE Restart
  BY <1>8, RestartJobs
<1> QED
  BY <1>4, <1>5, <1>6, <1>7, <1>8, StepKinds

LEMMA AcknowledgedNext ==
    ASSUME TypeOK, OwedSessions, TokensOfEnded, VerifiedOwe,
           AcknowledgedMeansClosed, [Next]_vars
    PROVE  AcknowledgedMeansClosed'
<1> SUFFICES ASSUME NEW s \in Sid, delivery'[s] = "done"
             PROVE  Settled(s)'
  BY DEF AcknowledgedMeansClosed
<1>1. CASE delivery[s] = "done"
  <2>1. owed'[s] = owed[s]
    BY <1>1, EndsOwe, OwedUnlessEnded
  <2> QED
    BY <1>1, <2>1, StaysSettled DEF AcknowledgedMeansClosed
<1>2. ASSUME NEW w \in Worker, Respond(w), delivery[s] # "done"
      PROVE  Settled(s)'
  <2>1. s = subject[w] /\ job[w].pc = "accepted" /\ due[w] = None
    BY <1>2 DEF Respond, Outcome, TypeOK
  <2>2. Settled(s)
    BY <2>1 DEF VerifiedOwe
  <2>3. owed'[s] = owed[s]
    BY <1>2 DEF Respond
  <2> QED
    BY <2>2, <2>3, StaysSettled
<1>3. (\E r \in Sid : PortalEnds(r)) => delivery[s] = "done"
  BY EndsOwe
<1>4. CASE UNCHANGED delivery
  BY <1>1, <1>4
<1> QED
  BY <1>1, <1>2, <1>3, <1>4
     DEF Next, LogIn, SessionEnds, LosesTrack, GlobalLogout, Deliver,
         UpstreamStep, VerifyToken, CloseSessions, AnswerLost, Restart,
         Environment, deliveries, vars

LEMMA InitInv == Init => IInv
<1> SUFFICES ASSUME Init PROVE IInv
  OBVIOUS
<1>1. Upstream!TypeOK
  BY NoneAssumption
     DEF Init, Upstream!Init, Upstream!TypeOK, Upstream!Idle, Upstream!Job,
         Upstream!PC, Upstream!NoSet, Upstream!JwkSet
<1>2. Ledger!TypeOK
  BY UserAssumption DEF Init, Ledger!Init, Ledger!TypeOK
<1>3. TypeOK
  BY <1>1, <1>2, NoneAssumption
     DEF TypeOK, Init, Upstream!Init, Ledger!Init, Upstream!Idle
<1> QED
  BY <1>3
     DEF Init, Upstream!Init, Ledger!Init, IInv, OwedSessions, TokensOfEnded,
         VerifiedOwe, AcknowledgedMeansClosed, Upstream!Idle

LEMMA NextInv == IInv /\ [Next]_vars => IInv'
<1> SUFFICES ASSUME IInv, [Next]_vars PROVE IInv'
  OBVIOUS
<1>1. TypeOK'
  BY TypeNext DEF IInv
<1>2. OwedSessions'
  BY OwedNext DEF IInv
<1>3. TokensOfEnded'
  BY TokensNext DEF IInv
<1>4. VerifiedOwe'
  BY VerifiedNext DEF IInv, VerifiedOwe, Owes
<1>5. AcknowledgedMeansClosed'
  BY AcknowledgedNext DEF IInv
<1> QED
  BY <1>1, <1>2, <1>3, <1>4, <1>5 DEF IInv

-----------------------------------------------------------------------------

\* What is owed by the logouts under way covers all that their portal sessions
\* owe.
THEOREM InvariantHolds == Spec => []IInv
BY InitInv, NextInv, PTL DEF Spec

\* The requests, the sessions and the deliveries keep their shapes, and agree
\* on which token each thread has in hand.
THEOREM TypeCorrect == Spec => []TypeOK
<1>1. IInv => TypeOK
  BY DEF IInv
<1> QED
  BY <1>1, InvariantHolds, PTL

\* A 200 from backchannel_logout tells the portal the truth: all that was open
\* when it ended the portal session is closed, or lost.
THEOREM AcknowledgedAreClosed == Spec => []AcknowledgedMeansClosed
<1>1. IInv => AcknowledgedMeansClosed
  BY DEF IInv
<1> QED
  BY <1>1, InvariantHolds, PTL

\* Joined with browsers and the portal, the verification still is what
\* LogoutUpstream says, so that its bounds on stale keys hold here.
THEOREM RunsLogoutUpstream == Spec => Upstream!Spec
<1>1. Init => Upstream!Init
  BY DEF Init
<1>2. IInv /\ [Next]_vars => [Upstream!Next]_(Upstream!vars)
  BY UpstreamStepsOf DEF IInv, TypeOK
<1> QED
  BY <1>1, <1>2, InvariantHolds, PTL DEF Spec, Upstream!Spec

\* And its sessions are opened and closed as SessionLedger says.
THEOREM RunsSessionLedger == Spec => Ledger!Spec
<1>1. Init => Ledger!Init
  BY DEF Init
<1>2. IInv /\ [Next]_vars => [Ledger!Next]_(Ledger!vars)
  BY LedgerStepsOf DEF IInv
<1> QED
  BY <1>1, <1>2, InvariantHolds, PTL DEF Spec, Ledger!Spec

-----------------------------------------------------------------------------
(* Liveness. ENABLED is beyond the prover, so what can be done next at each  *)
(* stage is taken from AttemptsGoOn, a state predicate; the steps, the       *)
(* fairness and the argument over time are proved.                           *)

\* Where a step of LogoutUpstream leads, and what it finds.
LEMMA UpstreamMoves ==
    ASSUME TypeOK, NEW w \in Worker, UpstreamStep(w)
    PROVE  \/ /\ job[w].pc = "discover"
              /\ job'[w].pc \in {"fetch_discovery", Upstream!Discovered(w)}
           \/ /\ job[w].pc = "fetch_discovery" /\ job[w].document = None
              /\ job'[w].pc = "fetch_discovery" /\ job'[w].document # None
           \/ /\ job[w].pc = "fetch_discovery" /\ job[w].document # None
              /\ job'[w].pc = Upstream!Discovered(w)
              /\ cache_lock' = None
           \/ /\ job[w].pc = "client" /\ cache_lock = None
              /\ job'[w].pc = "find_key"
           \/ /\ job[w].pc = "find_key"
              /\ job'[w].pc \in {"refused", "fetch_jwks"}
           \/ /\ job[w].pc = "fetch_jwks" /\ job[w].keys = {}
              /\ job'[w].pc = "fetch_jwks"
              /\ job' = [job EXCEPT ![w].keys = published]
           \/ /\ job[w].pc \in {"fetch_discovery", "client", "fetch_jwks"}
              /\ job[w].pc = "client" => cache_lock = None
              /\ job'[w].pc = "unavailable"
              /\ cache_lock = w => cache_lock' = None
<1> USE DEF TypeOK, Upstream!TypeOK, Upstream!Job
<1>1. CASE Upstream!ReadDiscovery(w) \/ Upstream!FetchDiscovery(w)
  BY <1>1 DEF Upstream!ReadDiscovery, Upstream!FetchDiscovery,
              Upstream!Discovered
<1>2. CASE Upstream!AnswerDiscovery(w)
  BY <1>2, NoneAssumption DEF Upstream!AnswerDiscovery
<1>3. CASE Upstream!StoreDiscovery(w)
  BY <1>3 DEF Upstream!StoreDiscovery, Upstream!Discovered
<1>4. CASE Upstream!JwkClient(w)
  BY <1>4 DEF Upstream!JwkClient
<1>5. CASE Upstream!RefuseUnknownKid(w) \/ Upstream!FetchJwks(w)
  BY <1>5 DEF Upstream!RefuseUnknownKid, Upstream!FetchJwks
<1>6. CASE Upstream!AnswerJwks(w)
  BY <1>6 DEF Upstream!AnswerJwks
<1>7. CASE Upstream!UpstreamFails(w)
  BY <1>7 DEF Upstream!UpstreamFails, Upstream!Fetching
<1> QED
  BY <1>1, <1>2, <1>3, <1>4, <1>5, <1>6, <1>7 DEF UpstreamStep

\* Where a verification that ends leads: an accepted token owes something.
LEMMA VerifyTokenMoves ==
    ASSUME TypeOK, NEW w \in Worker, VerifyToken(w)
    PROVE  /\ \/ job[w].pc = "find_key" /\ job'[w].pc = "accepted"
              \/ /\ job[w].pc = "fetch_jwks" /\ job[w].keys # {}
                 /\ job'[w].pc \in {"accepted", "refused"}
           /\ job'[w].pc = "accepted" => due'[w] # None
           /\ job'[w].pc # "accepted" => due'[w] = due[w]
<1> USE DEF TypeOK, Upstream!TypeOK, Upstream!Job
<1>1. \/ job[w].pc = "find_key" /\ job'[w].pc = "accepted"
      \/ /\ job[w].pc = "fetch_jwks" /\ job[w].keys # {}
         /\ job'[w].pc \in {"accepted", "refused"}
  <2>1. CASE Upstream!FindKey(w)
    BY <2>1 DEF Upstream!FindKey
  <2>2. CASE Upstream!StoreJwks(w)
    BY <2>2 DEF Upstream!StoreJwks
  <2> QED
    BY <2>1, <2>2 DEF VerifyToken
<1>2. ASSUME job'[w].pc = "accepted"
      PROVE  due'[w] # None
  <2>1. Ledger!BeginLogout(w, subject[w]) /\ subject[w] \in Sid
    BY <1>2, VerifyTokenJobs DEF VerifyToken
  <2> QED
    BY <2>1, LogoutBegins
<1>3. job'[w].pc # "accepted" => due'[w] = due[w]
  BY DEF VerifyToken, sessions
<1> QED
  BY <1>1, <1>2, <1>3

\* Where the second half of the handler leads.
LEMMA ClosingMoves ==
    ASSUME TypeOK, NEW w \in Worker
    PROVE  /\ CloseSessions(w) =>
                /\ job[w].pc = "accepted" /\ due[w] # None /\ due'[w] = None
                /\ UNCHANGED <<job, subject>>
           /\ Respond(w) \/ AnswerLost(w) =>
                /\ job[w].pc \in {"accepted", "refused", "unavailable", "redirect"}
                /\ job'[w].pc = "idle"
           /\ Respond(w) => due[w] = None
<1>1. ASSUME CloseSessions(w)
      PROVE  /\ job[w].pc = "accepted" /\ due[w] # None /\ due'[w] = None
             /\ UNCHANGED <<job, subject>>
  BY <1>1 DEF CloseSessions, Ledger!FinishLogout, TypeOK, Ledger!TypeOK,
              upstream, deliveries
<1>2. ASSUME Respond(w) \/ AnswerLost(w)
      PROVE  /\ job[w].pc \in {"accepted", "refused", "unavailable", "redirect"}
             /\ job'[w].pc = "idle"
  BY <1>2, StartingJobs DEF Respond, AnswerLost, Upstream!Respond
<1>3. Respond(w) => due[w] = None
  BY DEF Respond
<1> QED
  BY <1>1, <1>2, <1>3

HandlerStep(w) ==
    \/ UpstreamStep(w)
    \/ VerifyToken(w)
    \/ CloseSessions(w)
    \/ Respond(w)
    \/ AnswerLost(w)

\* A request moves only by its own thread's steps, unless the process dies.
LEMMA OwnMoves ==
    ASSUME TypeOK, [Next]_vars, NEW w \in Worker
    PROVE  \/ job'[w] = job[w] /\ subject'[w] = subject[w] /\ due'[w] = due[w]
           \/ HandlerStep(w)
           \/ job[w].pc = "idle" /\ job'[w].pc = "discover" /\ due'[w] = due[w]
           \/ Restart
<1> USE DEF TypeOK, Ledger!TypeOK, HandlerStep
<1>1. CASE \/ \E k \in Key : \/ \E s \in Sid : LogIn(k, s)
                             \/ SessionEnds(k)
                             \/ LosesTrack(k)
           \/ \E s \in Sid : PortalEnds(s)
           \/ Environment
           \/ UNCHANGED vars
  <2>1. UNCHANGED <<job, subject>>
    BY <1>1, BystanderJobs DEF Bystander
  <2>2. UNCHANGED due
    BY <1>1 DEF LogIn, SessionEnds, LosesTrack, PortalEnds, Environment,
         Ledger!Open, Ledger!Close, Ledger!LoseTrack, sessions, vars
  <2> QED
    BY <2>1, <2>2
<1>2. ASSUME NEW v \in Worker, v # w, CloseSessions(v)
      PROVE  job'[w] = job[w] /\ subject'[w] = subject[w] /\ due'[w] = due[w]
  BY <1>2 DEF CloseSessions, Ledger!FinishLogout, upstream, deliveries
<1>3. ASSUME NEW v \in Worker, v # w, UpstreamStep(v) \/ VerifyToken(v)
      PROVE  job'[w] = job[w] /\ subject'[w] = subject[w] /\ due'[w] = due[w]
  <2>1. job'[w] = job[w]
    BY <1>3, UpstreamStepJobs, VerifyTokenJobs DEF OthersKeepJobs
  <2>2. UNCHANGED subject /\ due'[w] = due[w]
    BY <1>3 DEF UpstreamStep, VerifyToken, Ledger!BeginLogout, sessions,
         deliveries
  <2> QED
    BY <2>1, <2>2
<1>4. ASSUME NEW v \in Worker, v # w, Respond(v) \/ AnswerLost(v)
      PROVE  job'[w] = job[w] /\ subject'[w] = subject[w] /\ due'[w] = due[w]
  <2>1. job'[w] = job[w]
    BY <1>4, StartingJobs DEF OthersKeepJobs
  <2>2. subject'[w] = subject[w] /\ due'[w] = due[w]
    BY <1>4 DEF Respond, AnswerLost, Ledger!AbandonLogouts, sessions
  <2> QED
    BY <2>1, <2>2
<1>5. ASSUME NEW v \in Worker,
             \/ \E k \in Key : GlobalLogout(v, k)
             \/ \E s \in Sid : Deliver(v, s)
      PROVE  \/ job'[w] = job[w] /\ subject'[w] = subject[w] /\ due'[w] = due[w]
             \/ job[w].pc = "idle" /\ job'[w].pc = "discover" /\ due'[w] = due[w]
  <2>1. UNCHANGED due /\ (v # w => subject'[w] = subject[w])
    BY <1>5 DEF GlobalLogout, Deliver, Ledger!Close, sessions, deliveries
  <2>2. IF v = w THEN job[w].pc = "idle" /\ job'[w].pc = "discover"
                 ELSE job'[w] = job[w]
    BY <1>5, StartingJobs DEF OthersKeepJobs
  <2> QED
    BY <2>1, <2>2
<1> QED
  BY <1>1, <1>2, <1>3, <1>4, <1>5 DEF Next

Closing(w) == job[w].pc = "accepted" /\ due[w] # None

Answering(w) ==
    /\ job[w].pc \in {"accepted", "refused", "unavailable", "redirect"}
    /\ due[w] = None

\* Where a thread's handler can be next.
LEMMA PointsFollow ==
    ASSUME TypeOK, [Next]_vars, NEW w \in Worker
    PROVE  /\ job[w].pc = "discover"
                => (\/ job[w].pc \in {"discover", "fetch_discovery", "client",
                                      "idle"}
                    \/ Answering(w))'
           /\ job[w].pc = "fetch_discovery"
                => (\/ job[w].pc \in {"fetch_discovery", "client", "idle"}
                    \/ Answering(w))'
           /\ job[w].pc = "client"
                => (job[w].pc \in {"client", "find_key", "idle"} \/ Answering(w))'
           /\ job[w].pc = "find_key"
                => (\/ job[w].pc \in {"find_key", "fetch_jwks", "idle"}
                    \/ Closing(w) \/ Answering(w))'
           /\ job[w].pc = "fetch_jwks"
                => (\/ job[w].pc \in {"fetch_jwks", "idle"}
                    \/ Closing(w) \/ Answering(w))'
           /\ Closing(w) => (job[w].pc = "idle" \/ Closing(w) \/ Answering(w))'
           /\ Answering(w) => (job[w].pc = "idle" \/ Answering(w))'
<1> USE DEF Answering, Closing
<1>0. due[w] # None => job[w].pc = "accepted"
  BY DEF TypeOK
<1>1. CASE job'[w] = job[w] /\ subject'[w] = subject[w] /\ due'[w] = due[w]
  BY <1>0, <1>1
<1>2. CASE UpstreamStep(w)
  <2>1. UNCHANGED due
    BY <1>2 DEF UpstreamStep, sessions
  <2>2. Upstream!Discovered(w) \in {"redirect", "client"}
    BY DEF Upstream!Discovered
  <2> QED
    BY <1>0, <1>2, <2>1, <2>2, UpstreamMoves
<1>3. CASE VerifyToken(w)
  BY <1>0, <1>3, VerifyTokenMoves
<1>4. CASE CloseSessions(w) \/ Respond(w) \/ AnswerLost(w)
  BY <1>4, ClosingMoves
<1>5. CASE job[w].pc = "idle" /\ job'[w].pc = "discover"
  BY <1>5
<1>6. CASE Restart
  BY <1>6, RestartJobs
<1> QED
  BY <1>1, <1>2, <1>3, <1>4, <1>5, <1>6, OwnMoves DEF HandlerStep

\* A step that takes a request further leaves the point where it was.
LEMMA ThreadMoves ==
    ASSUME TypeOK, NEW w \in Worker, ThreadStep(w)
    PROVE  /\ job[w].pc # "accepted" => job'[w].pc # job[w].pc
           /\ Closing(w) => ~Closing(w)'
           /\ Answering(w) => ~Answering(w)'
<1> USE DEF Answering, Closing
<1>1. CASE UpstreamStep(w)
  <2>1. UNCHANGED due
    BY <1>1 DEF UpstreamStep, sessions
  <2> QED
    BY <1>1, <2>1, UpstreamMoves DEF ThreadStep
<1>2. CASE VerifyToken(w)
  BY <1>2, VerifyTokenMoves
<1>3. CASE CloseSessions(w) \/ Respond(w) \/ AnswerLost(w)
  BY <1>3, ClosingMoves
<1> QED
  BY <1>1, <1>2, <1>3 DEF ThreadStep

\* The two steps that need the lock leave the points that wait for it, and its
\* holder, in its next step, gives it back.
LEMMA LockMoves ==
    ASSUME TypeOK, NEW w \in Worker
    PROVE  /\ job[w].pc = "discover" /\ WithLock(w) => job'[w].pc # "discover"
           /\ job[w].pc = "client" /\ WithClient(w) => job'[w].pc # "client"
<1>1. ASSUME job[w].pc = "discover", WithLock(w)
      PROVE  job'[w].pc # "discover"
  <2>1. UpstreamStep(w)
    BY <1>1 DEF WithLock, UpstreamStep
  <2> QED
    BY <1>1, <2>1, UpstreamMoves DEF Upstream!Discovered
<1>2. ASSUME job[w].pc = "client", WithClient(w)
      PROVE  job'[w].pc # "client"
  <2>1. UpstreamStep(w)
    BY <1>2 DEF WithClient, UpstreamStep
  <2> QED
    BY <1>2, <2>1, UpstreamMoves
<1> QED
  BY <1>1, <1>2

LEMMA HolderReleases ==
    ASSUME TypeOK, HolderStep
    PROVE  (cache_lock = None)'
<1>1. PICK v \in Worker : cache_lock = v /\ ThreadStep(v)
  BY DEF HolderStep
<1>2. job[v].pc = "fetch_discovery"
  BY <1>1 DEF TypeOK, Upstream!TypeOK
<1>3. UpstreamStep(v) /\ job'[v].pc # "fetch_discovery"
  <2>1. ~VerifyToken(v) /\ ~CloseSessions(v) /\ ~Respond(v) /\ ~AnswerLost(v)
    BY <1>2, VerifyTokenMoves, ClosingMoves
  <2> QED
    BY <1>1, <1>2, <2>1, ThreadMoves DEF ThreadStep
<1> QED
  BY <1>1, <1>2, <1>3, UpstreamMoves

\* So the lock is free again and again.
LEMMA LockIsFreed ==
    Spec /\ FairHolder /\ []AttemptsGoOn => []<>(cache_lock = None)
<1>1. TypeOK /\ <<HolderStep>>_vars => (cache_lock = None)'
  BY HolderReleases
<1>2. AttemptsGoOn /\ ~(cache_lock = None) => ENABLED <<HolderStep>>_vars
  BY DEF AttemptsGoOn
<1> QED
  BY <1>1, <1>2, TypeCorrect, PTL DEF FairHolder

\* Point by point, a thread leaves for one further on, and ends up idle.
LEMMA ThreadIsFreed ==
    ASSUME NEW w \in Worker
    PROVE  Spec /\ []AttemptsGoOn /\ []<>(cache_lock = None) /\ FairThread(w)
                => []<>(job[w].pc = "idle")
<1> DEFINE At(p) == job[w].pc = p
<1>1. TypeOK /\ [Next]_vars =>
        /\ At("discover") => (\/ At("discover") \/ At("fetch_discovery")
                              \/ At("client") \/ At("idle") \/ Answering(w))'
        /\ At("fetch_discovery") => (\/ At("fetch_discovery") \/ At("client")
                                     \/ At("idle") \/ Answering(w))'
        /\ At("client") => (\/ At("client") \/ At("find_key") \/ At("idle")
                            \/ Answering(w))'
        /\ At("find_key") => (\/ At("find_key") \/ At("fetch_jwks") \/ At("idle")
                              \/ Closing(w) \/ Answering(w))'
        /\ At("fetch_jwks") => (\/ At("fetch_jwks") \/ At("idle")
                                \/ Closing(w) \/ Answering(w))'
        /\ Closing(w) => (At("idle") \/ Closing(w) \/ Answering(w))'
        /\ Answering(w) => (At("idle") \/ Answering(w))'
  BY PointsFollow
<1>2. TypeOK /\ <<ThreadStep(w)>>_vars =>
        /\ At("fetch_discovery") => ~At("fetch_discovery")'
        /\ At("find_key") => ~At("find_key")'
        /\ At("fetch_jwks") => ~At("fetch_jwks")'
        /\ Closing(w) => ~Closing(w)'
        /\ Answering(w) => ~Answering(w)'
  BY ThreadMoves
<1>3. TypeOK =>
        /\ At("discover") /\ <<WithLock(w)>>_vars => ~At("discover")'
        /\ At("client") /\ <<WithClient(w)>>_vars => ~At("client")'
  BY LockMoves
<1>4. AttemptsGoOn =>
        /\ (\/ At("fetch_discovery") \/ At("find_key") \/ At("fetch_jwks")
            \/ Closing(w) \/ Answering(w)) => ENABLED <<ThreadStep(w)>>_vars
        /\ At("discover") /\ cache_lock = None => ENABLED <<WithLock(w)>>_vars
        /\ At("client") /\ cache_lock = None => ENABLED <<WithClient(w)>>_vars
  BY DEF AttemptsGoOn, Answering, Closing
<1>5. TypeOK /\ ~At("idle") =>
        \/ At("discover") \/ At("fetch_discovery") \/ At("client")
        \/ At("find_key") \/ At("fetch_jwks") \/ Closing(w) \/ Answering(w)
  BY DEF TypeOK, Upstream!TypeOK, Upstream!Job, Upstream!PC, Answering, Closing
<1> DEFINE Fair == /\ Spec /\ []AttemptsGoOn
                   /\ []<>(cache_lock = None) /\ FairThread(w)
<1>6. Fair => (Answering(w) ~> At("idle"))
  BY <1>1, <1>2, <1>4, TypeCorrect, PTL DEF Spec, FairThread
<1>7. Fair => (Closing(w) ~> At("idle"))
  BY <1>1, <1>2, <1>4, <1>6, TypeCorrect, PTL DEF Spec, FairThread
<1>8. Fair => (At("fetch_jwks") ~> At("idle"))
  BY <1>1, <1>2, <1>4, <1>6, <1>7, TypeCorrect, PTL DEF Spec, FairThread
<1>9. Fair => (At("find_key") ~> At("idle"))
  BY <1>1, <1>2, <1>4, <1>6, <1>8, <1>7, TypeCorrect, PTL DEF Spec, FairThread
<1>10. Fair => (At("client") ~> At("idle"))
  BY <1>1, <1>3, <1>4, <1>6, <1>9, TypeCorrect, PTL DEF Spec, FairThread
<1>11. Fair => (At("fetch_discovery") ~> At("idle"))
  BY <1>1, <1>2, <1>4, <1>6, <1>10, TypeCorrect, PTL DEF Spec, FairThread
<1>12. Fair => (At("discover") ~> At("idle"))
  BY <1>1, <1>3, <1>4, <1>6, <1>10, <1>11, TypeCorrect, PTL DEF Spec, FairThread
<1> QED
  BY <1>5, <1>6, <1>8, <1>9, <1>10, <1>11, <1>12, <1>7, TypeCorrect, PTL

At(w, s, stage) == subject[w] = s /\ Stage(w) = stage

\* At every stage but those of a closing request, a thread is where its
\* handler's program counter says.
LEMMA StagePoints ==
    ASSUME TypeOK, NEW w \in Worker
    PROVE  /\ Stage(w) \in {"idle", "discover", "client", "find_key", "refused",
                           "unavailable", "redirect"}
                <=> /\ job[w].pc = Stage(w)
                    /\ job[w].pc \notin {"fetch_discovery", "fetch_jwks", "accepted"}
           /\ Stage(w) = "fetch_discovery"
                <=> job[w].pc = "fetch_discovery" /\ job[w].document = None
           /\ Stage(w) = "store_discovery"
                <=> job[w].pc = "fetch_discovery" /\ job[w].document # None
           /\ Stage(w) = "fetch_jwks"
                <=> job[w].pc = "fetch_jwks" /\ job[w].keys = {}
           /\ Stage(w) = "store_jwks"
                <=> job[w].pc = "fetch_jwks" /\ job[w].keys # {}
           /\ Stage(w) = "close" <=> Closing(w)
           /\ Stage(w) = "accepted" <=> job[w].pc = "accepted" /\ due[w] = None
BY DEF TypeOK, Upstream!TypeOK, Upstream!Job, Upstream!PC, Stage, Closing

\* The token is verified, or refused.
Judged(w, s) == At(w, s, "close") \/ At(w, s, "accepted") \/ At(w, s, "refused")

\* An attempt that comes through a stage is at one further on; through the last
\* one, it has brought the delivery to its end.
LEMMA ThroughLeads ==
    ASSUME TypeOK, NEW w \in Worker, NEW s \in Sid
    PROVE  /\ <<Through(w, s, "discover")>>_vars => ~At(w, s, "discover")'
           /\ <<Through(w, s, "fetch_discovery")>>_vars
                => At(w, s, "store_discovery")'
           /\ <<Through(w, s, "store_discovery")>>_vars => At(w, s, "client")'
           /\ <<Through(w, s, "client")>>_vars => At(w, s, "find_key")'
           /\ <<Through(w, s, "find_key")>>_vars
                => (\/ At(w, s, "fetch_jwks") \/ At(w, s, "store_jwks")
                    \/ Judged(w, s))'
           /\ <<Through(w, s, "fetch_jwks")>>_vars => At(w, s, "store_jwks")'
           /\ <<Through(w, s, "store_jwks")>>_vars => Judged(w, s)'
           /\ <<Through(w, s, "close")>>_vars => At(w, s, "accepted")'
           /\ <<Through(w, s, "accepted")>>_vars => ~(delivery[s] = "pending")'
           /\ <<Through(w, s, "refused")>>_vars => ~(delivery[s] = "pending")'
<1> SUFFICES ASSUME NEW stage \in Stages, <<Through(w, s, stage)>>_vars
             PROVE  /\ stage = "discover" => ~At(w, s, "discover")'
                    /\ stage = "fetch_discovery" => At(w, s, "store_discovery")'
                    /\ stage = "store_discovery" => At(w, s, "client")'
                    /\ stage = "client" => At(w, s, "find_key")'
                    /\ stage = "find_key" =>
                        (\/ At(w, s, "fetch_jwks") \/ At(w, s, "store_jwks")
                         \/ Judged(w, s))'
                    /\ stage = "fetch_jwks" => At(w, s, "store_jwks")'
                    /\ stage = "store_jwks" => Judged(w, s)'
                    /\ stage = "close" => At(w, s, "accepted")'
                    /\ stage \in {"accepted", "refused"} =>
                        ~(delivery[s] = "pending")'
  BY DEF Stages
<1>1. subject[w] = s /\ Stage(w) = stage /\ job'[w].pc # "unavailable"
  BY DEF Through
<1>2. job[w].kid # None /\ s # None
  BY <1>1, NoneAssumption DEF TypeOK
<1>3. CASE UpstreamStep(w)
  <2>1. /\ subject'[w] = s /\ due'[w] = due[w]
        /\ job'[w].pc # "accepted" /\ job'[w].pc # "idle"
        /\ job[w].pc # "accepted"
        /\ Upstream!Discovered(w) = "client"
    BY <1>1, <1>2, <1>3, UpstreamStepJobs
       DEF UpstreamStep, sessions, deliveries, Upstream!Discovered, TypeOK
  <2>2. due'[w] = None
    BY <2>1 DEF TypeOK
  <2>3. ASSUME stage = "fetch_jwks"
        PROVE  job'[w].pc = "fetch_jwks" /\ job'[w].keys # {}
    <3>1. job[w].pc = "fetch_jwks" /\ job[w].keys = {}
      BY <1>1, <2>3, StagePoints
    <3>2. /\ job'[w].pc = "fetch_jwks"
          /\ job' = [job EXCEPT ![w].keys = published]
      BY <1>1, <1>3, <3>1, UpstreamMoves
    <3>3. Upstream!AnswerJwks(w)
      <4>1. ~Upstream!UpstreamFails(w)
        BY <3>2 DEF Upstream!UpstreamFails, TypeOK, Upstream!TypeOK, Upstream!Job
      <4> QED
        BY <1>3, <3>1, <4>1 DEF UpstreamStep, Upstream!ReadDiscovery,
           Upstream!FetchDiscovery, Upstream!AnswerDiscovery,
           Upstream!StoreDiscovery, Upstream!JwkClient,
           Upstream!RefuseUnknownKid, Upstream!FetchJwks
    <3>4. job' # job
      <4>1. ~UNCHANGED vars
        OBVIOUS
      <4> QED
        BY <1>3, <3>3, <4>1 DEF UpstreamStep, Upstream!AnswerJwks,
           Upstream!portal, vars, upstream
    <3>5. [job[w] EXCEPT !.keys = {}] = job[w]
      BY <3>1 DEF TypeOK, Upstream!TypeOK, Upstream!Job
    <3>6. published # {}
      BY <3>2, <3>4, <3>5 DEF TypeOK, Upstream!TypeOK
    <3> QED
      BY <3>2, <3>6 DEF TypeOK, Upstream!TypeOK, Upstream!Job
  <2>4. CASE stage \in {"discover", "fetch_discovery", "store_discovery"}
    BY <1>1, <1>3, <2>1, <2>2, <2>4, UpstreamMoves, StagePoints DEF At, Stage
  <2>5. CASE stage \in {"client", "find_key"}
    BY <1>1, <1>3, <2>1, <2>2, <2>5, UpstreamMoves, StagePoints
       DEF At, Stage, Judged
  <2>6. CASE stage \in {"fetch_jwks", "store_jwks"}
    BY <1>1, <1>3, <2>1, <2>2, <2>3, <2>6, UpstreamMoves, StagePoints
       DEF At, Stage
  <2>7. CASE stage \in {"close", "accepted", "refused"}
    BY <1>1, <1>3, <2>1, <2>7, UpstreamMoves, StagePoints DEF Closing
  <2> QED
    BY <2>4, <2>5, <2>6, <2>7 DEF Stages
<1>4. CASE VerifyToken(w)
  <2>1. subject'[w] = s
    BY <1>1, <1>4 DEF VerifyToken, deliveries
  <2>2. stage \in {"find_key", "store_jwks"}
    BY <1>1, <1>4, VerifyTokenMoves, StagePoints DEF Stages, Closing
  <2>3. Judged(w, s)'
    BY <1>4, <2>1, VerifyTokenMoves DEF Judged, At, Stage
  <2> QED
    BY <2>2, <2>3
<1>5. CASE CloseSessions(w)
  <2>1. stage = "close"
    BY <1>1, <1>5, ClosingMoves, StagePoints DEF Closing
  <2> QED
    BY <1>1, <1>5, <2>1, ClosingMoves DEF At, Stage
<1>6. CASE Respond(w)
  <2>1. stage \in {"accepted", "refused"}
    BY <1>1, <1>6, ClosingMoves, StagePoints DEF Stages, Closing
  <2>2. job[w].pc = stage
    BY <1>1, <2>1, StagePoints
  <2>3. ~(delivery[s] = "pending")'
    BY <1>1, <1>2, <1>6, <2>1, <2>2 DEF Respond, Outcome, TypeOK
  <2> QED
    BY <2>1, <2>3
<1> QED
  BY <1>3, <1>4, <1>5, <1>6 DEF Through

\* An attempt that waits for the lock stays where it is, and one that gets it
\* for the document does not fail there.
LEMMA WaitsStay ==
    ASSUME TypeOK, [Next]_vars, [~Restart]_vars, NEW w \in Worker, NEW s \in Sid
    PROVE  /\ At(w, s, "discover")
                => (\/ At(w, s, "discover") \/ At(w, s, "fetch_discovery")
                    \/ At(w, s, "store_discovery") \/ At(w, s, "client"))'
           /\ At(w, s, "client") /\ ~(cache_lock = None) => At(w, s, "client")'
<1> USE DEF At
<1>1. CASE UNCHANGED vars
  BY <1>1 DEF vars, upstream, sessions, deliveries, Stage
<1>2. CASE job'[w] = job[w] /\ subject'[w] = subject[w] /\ due'[w] = due[w]
  BY <1>2 DEF Stage
<1>3. ASSUME HandlerStep(w), subject[w] = s,
             \/ Stage(w) = "discover"
             \/ Stage(w) = "client" /\ cache_lock # None
      PROVE  /\ Stage(w) = "discover" /\ subject'[w] = s
             /\ (Stage(w) \in {"fetch_discovery", "store_discovery", "client"})'
  <2>1. job[w].pc = Stage(w) /\ job[w].kid # None
    BY <1>3, StagePoints, NoneAssumption DEF TypeOK
  <2>2. UpstreamStep(w)
    BY <1>3, <2>1, VerifyTokenMoves, ClosingMoves DEF HandlerStep
  <2>3. subject'[w] = s /\ Upstream!Discovered(w) = "client"
    BY <1>3, <2>1, <2>2 DEF UpstreamStep, deliveries, Upstream!Discovered
  <2> QED
    BY <1>3, <2>1, <2>2, <2>3, UpstreamMoves DEF Stage
<1>4. CASE job[w].pc = "idle"
  BY <1>4, StagePoints
<1> QED
  BY <1>1, <1>2, <1>3, <1>4, OwnMoves

\* The portal's attempt starts at the first stage; a delivery ends in a 200 or
\* a 400, and a 200 leaves nothing open.
LEMMA Deliveries ==
    ASSUME IInv, NEW w \in Worker, NEW s \in Sid
    PROVE  /\ Deliver(w, s) => At(w, s, "discover")'
           /\ [Next]_vars /\ ~(delivery[s] = "open") => ~(delivery[s] = "open")'
           /\ \/ delivery[s] = "open"
              \/ delivery[s] = "pending"
              \/ delivery[s] = "done" /\ Settled(s)
              \/ delivery[s] = "dropped"
<1> USE DEF IInv, TypeOK
<1>1. ASSUME Deliver(w, s)
      PROVE  At(w, s, "discover")'
  <2>1. subject'[w] = s
    BY <1>1 DEF Deliver
  <2> QED
    BY <1>1, <2>1, StartingJobs DEF At, Stage
<1>2. ASSUME [Next]_vars, ~(delivery[s] = "open")
      PROVE  ~(delivery[s] = "open")'
  <2>1. CASE \E v \in Worker : Respond(v)
    <3>1. \A v \in Worker : Outcome(v) # "open"
      BY DEF Outcome
    <3> QED
      BY <1>2, <2>1, <3>1 DEF Respond
  <2>2. CASE \E r \in Sid : PortalEnds(r)
    BY <1>2, <2>2 DEF PortalEnds
  <2>3. CASE UNCHANGED delivery
    BY <1>2, <2>3
  <2> QED
    BY <1>2, <2>1, <2>2, <2>3
       DEF Next, LogIn, SessionEnds, LosesTrack, GlobalLogout, Deliver,
           UpstreamStep, VerifyToken, CloseSessions, AnswerLost, Restart,
           Environment, deliveries, vars
<1>3. \/ delivery[s] = "open"
      \/ delivery[s] = "pending"
      \/ delivery[s] = "done" /\ Settled(s)
      \/ delivery[s] = "dropped"
  BY DEF AcknowledgedMeansClosed
<1> QED
  BY <1>1, <1>2, <1>3

\* What AttemptsGoOn says of one thread and one logout.
LEMMA AttemptsCan ==
    ASSUME TypeOK, AttemptsGoOn, NEW w \in Worker, NEW s \in Sid
    PROVE  /\ job[w].pc = "idle" /\ delivery[s] = "pending" /\ published # {}
                => ENABLED <<Deliver(w, s)>>_vars
           /\ cache_lock = None =>
                /\ At(w, s, "discover") => CanGetThrough(w, s, "discover")
                /\ At(w, s, "client") => CanGetThrough(w, s, "client")
           /\ published # {} /\ At(w, s, "fetch_jwks")
                => CanGetThrough(w, s, "fetch_jwks")
           /\ \A stage \in Stages \ {"discover", "client", "fetch_jwks"} :
                At(w, s, stage) => CanGetThrough(w, s, stage)
<1>1. \A stage \in Stages :
        At(w, s, stage) /\ ~Waits(w) => CanGetThrough(w, s, stage)
  BY DEF AttemptsGoOn, At
<1>2. job[w].pc = "idle" /\ delivery[s] = "pending" /\ published # {}
        => ENABLED <<Deliver(w, s)>>_vars
  BY DEF AttemptsGoOn
<1>3. Waits(w) =>
        \/ Stage(w) \in {"discover", "client"} /\ cache_lock # None
        \/ Stage(w) = "fetch_jwks" /\ published = {}
  BY DEF Waits, Stage
<1>4. {"discover", "client", "fetch_jwks"} \subseteq Stages
  BY DEF Stages
<1>5. \A stage \in Stages \ {"discover", "client", "fetch_jwks"} :
        At(w, s, stage) => ~Waits(w)
  BY <1>3 DEF At
<1>6. /\ cache_lock = None /\ (At(w, s, "discover") \/ At(w, s, "client"))
            => ~Waits(w)
      /\ published # {} /\ At(w, s, "fetch_jwks") => ~Waits(w)
  BY <1>3 DEF At
<1> QED
  BY <1>1, <1>2, <1>4, <1>5, <1>6

\* The fairness of each stage of an attempt, and of the attempts themselves.
LEMMA FairStages ==
    ASSUME NEW w \in Worker, NEW s \in Sid
    PROVE  FairAttempts(w, s) =>
            /\ FairDelivery(w, s)
            /\ FairStage(w, s, "discover")
            /\ FairStage(w, s, "fetch_discovery")
            /\ FairStage(w, s, "store_discovery")
            /\ FairStage(w, s, "client")
            /\ FairStage(w, s, "find_key")
            /\ FairStage(w, s, "fetch_jwks")
            /\ FairStage(w, s, "store_jwks")
            /\ FairStage(w, s, "close")
            /\ FairStage(w, s, "accepted")
            /\ FairStage(w, s, "refused")
<1>1. FairAttempts(w, s) =>
        FairDelivery(w, s) /\ \A stage \in Stages : FairStage(w, s, stage)
  BY DEF FairAttempts
<1>2. {"discover", "fetch_discovery", "store_discovery", "client", "find_key",
       "fetch_jwks", "store_jwks", "close", "accepted", "refused"} \subseteq Stages
  BY DEF Stages
<1> QED
  BY <1>1, <1>2

\* As long as a delivery is pending its attempts come through one stage after
\* another, each again and again, so that it does not stay pending for ever.
LEMMA AttemptsComeThrough ==
    ASSUME NEW w \in Worker, NEW s \in Sid
    PROVE  /\ Spec /\ []AttemptsGoOn
           /\ []<>(cache_lock = None) /\ []<>(job[w].pc = "idle")
           /\ FairAttempts(w, s)
           /\ <>[][~Restart]_vars /\ <>[](published # {})
           => Delivered(s)
<1> DEFINE D(stage) == At(w, s, stage)
           Pending == delivery[s] = "pending"
           Keys == published # {}
           Fair == /\ Spec /\ []AttemptsGoOn
                   /\ []<>(cache_lock = None) /\ []<>(job[w].pc = "idle")
                   /\ FairAttempts(w, s)
                   /\ <>[][~Restart]_vars /\ <>[]Keys
<1>1. TypeOK =>
        /\ <<Through(w, s, "discover")>>_vars => ~D("discover")'
        /\ <<Through(w, s, "fetch_discovery")>>_vars => D("store_discovery")'
        /\ <<Through(w, s, "store_discovery")>>_vars => D("client")'
        /\ <<Through(w, s, "client")>>_vars => D("find_key")'
        /\ <<Through(w, s, "find_key")>>_vars
             => (D("fetch_jwks") \/ D("store_jwks") \/ Judged(w, s))'
        /\ <<Through(w, s, "fetch_jwks")>>_vars => D("store_jwks")'
        /\ <<Through(w, s, "store_jwks")>>_vars => Judged(w, s)'
        /\ <<Through(w, s, "close")>>_vars => D("accepted")'
        /\ <<Through(w, s, "accepted")>>_vars => ~Pending'
        /\ <<Through(w, s, "refused")>>_vars => ~Pending'
  BY ThroughLeads
<1>2. TypeOK /\ [Next]_vars /\ [~Restart]_vars =>
        /\ D("discover") => (\/ D("discover") \/ D("fetch_discovery")
                             \/ D("store_discovery") \/ D("client"))'
        /\ D("client") /\ ~(cache_lock = None) => D("client")'
  BY WaitsStay
<1>3. TypeOK /\ AttemptsGoOn =>
        /\ job[w].pc = "idle" /\ Pending /\ Keys => ENABLED <<Deliver(w, s)>>_vars
        /\ cache_lock = None =>
             /\ D("discover") => CanGetThrough(w, s, "discover")
             /\ D("client") => CanGetThrough(w, s, "client")
        /\ Keys /\ D("fetch_jwks") => CanGetThrough(w, s, "fetch_jwks")
        /\ D("fetch_discovery") => CanGetThrough(w, s, "fetch_discovery")
        /\ D("store_discovery") => CanGetThrough(w, s, "store_discovery")
        /\ D("find_key") => CanGetThrough(w, s, "find_key")
        /\ D("store_jwks") => CanGetThrough(w, s, "store_jwks")
        /\ D("close") => CanGetThrough(w, s, "close")
        /\ D("accepted") => CanGetThrough(w, s, "accepted")
        /\ D("refused") => CanGetThrough(w, s, "refused")
  BY AttemptsCan DEF Stages
<1>4. IInv =>
        /\ <<Deliver(w, s)>>_vars => D("discover")'
        /\ [Next]_vars /\ ~(delivery[s] = "open") => ~(delivery[s] = "open")'
        /\ \/ delivery[s] = "open"
           \/ Pending
           \/ delivery[s] = "done" /\ Settled(s)
           \/ delivery[s] = "dropped"
        /\ Pending => ~(delivery[s] = "open")
        /\ TypeOK
  BY Deliveries DEF IInv
<1>5. Judged(w, s) <=> D("close") \/ D("accepted") \/ D("refused")
  BY DEF Judged
<1>6. Fair /\ <>[]Pending => []<>D("discover")
  BY <1>3, <1>4, FairStages, InvariantHolds, PTL DEF Spec, FairDelivery
<1>7. Fair /\ []<>D("discover")
        => []<>(D("fetch_discovery") \/ D("store_discovery") \/ D("client"))
  BY <1>1, <1>2, <1>3, FairStages, TypeCorrect, PTL
     DEF Spec, FairStage, CanGetThrough
<1>8. /\ Fair /\ []<>D("fetch_discovery") => []<>D("store_discovery")
      /\ Fair /\ []<>D("store_discovery") => []<>D("client")
  BY <1>1, <1>3, FairStages, TypeCorrect, PTL DEF Spec, FairStage, CanGetThrough
<1>9. Fair /\ []<>D("client") => []<>D("find_key")
  BY <1>1, <1>2, <1>3, FairStages, TypeCorrect, PTL
     DEF Spec, FairStage, CanGetThrough
<1>10. Fair /\ []<>D("find_key")
        => []<>(D("fetch_jwks") \/ D("store_jwks") \/ Judged(w, s))
  BY <1>1, <1>3, FairStages, TypeCorrect, PTL DEF Spec, FairStage, CanGetThrough
<1>11. /\ Fair /\ []<>D("fetch_jwks") => []<>D("store_jwks")
       /\ Fair /\ []<>D("store_jwks") => []<>Judged(w, s)
  BY <1>1, <1>3, FairStages, TypeCorrect, PTL DEF Spec, FairStage, CanGetThrough
<1>12. /\ Fair /\ []<>D("close") => []<>D("accepted")
       /\ Fair /\ []<>D("accepted") => []<>~Pending
       /\ Fair /\ []<>D("refused") => []<>~Pending
  BY <1>1, <1>3, FairStages, TypeCorrect, PTL DEF Spec, FairStage, CanGetThrough
<1>13. Fair => []<>~Pending
  BY <1>5, <1>6, <1>7, <1>8, <1>9, <1>10, <1>11, <1>12, PTL
<1> QED
  BY <1>4, <1>13, InvariantHolds, PTL DEF Spec, Delivered

\* Every logout of a session that the portal has ended comes to its end, over all
\* failures, lost answers and restarts of backchannel_logout: acknowledged with
\* all that was open then closed or lost, or refused with a 400.
THEOREM EveryLogoutDelivered == FairSpec /\ []AttemptsGoOn => LogoutsDelivered
<1> SUFFICES ASSUME Spec, Fairness, []AttemptsGoOn, NEW s \in Sid
             PROVE  Delivered(s)
  BY DEF LogoutsDelivered, FairSpec
<1>1. PICK w \in Worker : FairAttempts(w, s)
  BY DEF Fairness
<1>2. /\ FairHolder /\ FairThread(w)
      /\ <>[][~Restart]_vars /\ <>[](published # {})
  BY DEF Fairness
<1>3. []<>(cache_lock = None)
  BY <1>2, LockIsFreed
<1>4. []<>(job[w].pc = "idle")
  BY <1>2, <1>3, ThreadIsFreed
<1> QED
  BY <1>1, <1>2, <1>3, <1>4, AttemptsComeThrough
===============================================================================
