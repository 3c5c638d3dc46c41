----------------------- MODULE LogoutUpstreamProofs -----------------------
(* Proofs about LogoutUpstream for any keys, threads, lifetimes and timeout. *)
EXTENDS LogoutUpstream, TLAPS

-----------------------------------------------------------------------------
(* The inductive invariant, in parts: what is in hand or cached is as old as *)
(* it may be, and the portal has changed since if it differs.                *)

FetchesInTime ==
    \A w \in Worker :
        /\ Fetching(w) => now \in job[w].since .. job[w].since + FetchTimeout
        /\ job[w].pc # "fetch_discovery" => job[w].document = None
        /\ job[w].pc # "fetch_jwks" => job[w].keys = {}

Differs(keys, k) == (k \in keys) # (k \in published)

RepliesCurrent ==
    \A w \in Worker :
        /\ job[w].document \notin {None, jwks_uri} => job[w].since <= moved
        /\ job[w].keys # {} =>
            \A k \in Kid : Differs(job[w].keys, k) => job[w].since <= changed[k]

SetsCurrent ==
    \A u \in Uri :
        clients[u].keys # {} =>
            /\ clients[u].fetched <= now
            /\ \A k \in Kid : Differs(clients[u].keys, k)
                    => clients[u].fetched <= changed[k] + FetchTimeout

DocumentCurrent ==
    discovery # None =>
        /\ discovery.until <= now + DiscoveryTTL
        /\ discovery.uri # jwks_uri
            => discovery.until <= moved + DiscoveryTTL + FetchTimeout

IInv ==
    /\ TypeOK
    /\ FetchesInTime
    /\ RepliesCurrent
    /\ SetsCurrent
    /\ DocumentCurrent

-----------------------------------------------------------------------------
\* The updates of a job that the steps make are jobs again.
LEMMA JobUpdates ==
    ASSUME NEW j \in Job
    PROVE  /\ \A u \in Uri :
                /\ [j EXCEPT !.pc = "client", !.uri = u] \in Job
                /\ [j EXCEPT !.pc = "redirect", !.uri = u] \in Job
           /\ [j EXCEPT !.pc = "refused"] \in Job
           /\ \A t \in Nat :
                /\ [j EXCEPT !.pc = "fetch_discovery", !.since = t] \in Job
                /\ [j EXCEPT !.pc = "fetch_jwks", !.since = t] \in Job
           /\ [j EXCEPT !.pc = "unavailable", !.document = None,
                         !.keys = {}, !.since = 0] \in Job
           /\ \A keys \in SUBSET Kid : [j EXCEPT !.keys = keys] \in Job
BY DEF Job, PC

LEMMA InitInv == Init => IInv
BY NoneAssumption, TimeAssumption
   DEF Init, IInv, TypeOK, FetchesInTime, RepliesCurrent, SetsCurrent,
       DocumentCurrent, Idle, NoSet, JwkSet, Job, PC, Fetching, Document

LEMMA StartLogoutInv ==
    ASSUME IInv, NEW w \in Worker, NEW k \in Kid, StartLogout(w, k)
    PROVE  IInv'
<1> USE NoneAssumption, TimeAssumption, KidAssumption DEF IInv, portal
<1>1. TypeOK'
  BY DEF StartLogout, TypeOK, Job, JwkSet, Document, PC, Idle
<1>2. FetchesInTime'
  BY DEF StartLogout, FetchesInTime, Fetching, TypeOK, Job, PC, Idle
<1>3. RepliesCurrent'
  BY DEF StartLogout, RepliesCurrent, FetchesInTime, Fetching, Differs,
         TypeOK, Job, PC, Idle
<1>4. SetsCurrent'
  BY DEF StartLogout, SetsCurrent, RepliesCurrent, FetchesInTime, Fetching,
         Differs, TypeOK, Job, JwkSet, PC, Idle
<1>5. DocumentCurrent'
  BY DEF StartLogout, DocumentCurrent, RepliesCurrent, FetchesInTime,
         Fetching, TypeOK, Job, Document, PC, Idle
<1> QED
  BY <1>1, <1>2, <1>3, <1>4, <1>5

LEMMA StartGlobalLogoutInv ==
    ASSUME IInv, NEW w \in Worker, StartGlobalLogout(w)
    PROVE  IInv'
<1> USE NoneAssumption, TimeAssumption, KidAssumption DEF IInv, portal
<1>1. TypeOK'
  BY DEF StartGlobalLogout, TypeOK, Job, JwkSet, Document, PC, Idle
<1>2. FetchesInTime'
  BY DEF StartGlobalLogout, FetchesInTime, Fetching, TypeOK, Job, PC, Idle
<1>3. RepliesCurrent'
  BY DEF StartGlobalLogout, RepliesCurrent, FetchesInTime, Fetching, Differs,
         TypeOK, Job, PC, Idle
<1>4. SetsCurrent'
  BY DEF StartGlobalLogout, SetsCurrent, RepliesCurrent, FetchesInTime, Fetching,
         Differs, TypeOK, Job, JwkSet, PC, Idle
<1>5. DocumentCurrent'
  BY DEF StartGlobalLogout, DocumentCurrent, RepliesCurrent, FetchesInTime,
         Fetching, TypeOK, Job, Document, PC, Idle
<1> QED
  BY <1>1, <1>2, <1>3, <1>4, <1>5

LEMMA ReadDiscoveryInv ==
    ASSUME IInv, NEW w \in Worker, ReadDiscovery(w)
    PROVE  IInv'
<1> USE NoneAssumption, TimeAssumption, KidAssumption DEF IInv, portal
<1>1. TypeOK'
  <2>1. job' \in [Worker -> Job]
    <3>1. [job[w] EXCEPT !.pc = Discovered(w), !.uri = discovery.uri] \in Job
      BY JobUpdates DEF ReadDiscovery, Discovered, TypeOK, Document
    <3> QED
      BY <3>1 DEF ReadDiscovery, TypeOK
  <2>2. \A v \in Worker : v # w => job'[v] = job[v]
    BY DEF ReadDiscovery, TypeOK
  <2>3. /\ job'[w].pc = Discovered(w) /\ job'[w].uri = discovery.uri
        /\ job'[w].kid = job[w].kid /\ job[w].kid \in Kid \union {None}
    BY DEF ReadDiscovery, TypeOK, Job
  <2> QED
    BY <2>1, <2>2, <2>3
       DEF ReadDiscovery, Discovered, TypeOK, Document, JwkSet, NoSet
<1>2. FetchesInTime'
  BY DEF ReadDiscovery, Discovered, FetchesInTime, Fetching, TypeOK, Job, PC
<1>3. RepliesCurrent'
  BY DEF ReadDiscovery, RepliesCurrent, FetchesInTime, Fetching, Differs,
         TypeOK, Job, PC
<1>4. SetsCurrent'
  BY DEF ReadDiscovery, SetsCurrent, RepliesCurrent, FetchesInTime, Fetching,
         Differs, TypeOK, Job, JwkSet, PC
<1>5. DocumentCurrent'
  BY DEF ReadDiscovery, DocumentCurrent, RepliesCurrent, FetchesInTime,
         Fetching, TypeOK, Job, Document, PC
<1> QED
  BY <1>1, <1>2, <1>3, <1>4, <1>5

LEMMA FetchDiscoveryInv ==
    ASSUME IInv, NEW w \in Worker, FetchDiscovery(w)
    PROVE  IInv'
<1> USE NoneAssumption, TimeAssumption, KidAssumption DEF IInv, portal
<1>1. TypeOK'
  <2>1. job' \in [Worker -> Job]
    <3>1. [job[w] EXCEPT !.pc = "fetch_discovery", !.since = now] \in Job
      BY JobUpdates DEF FetchDiscovery, TypeOK, Document
    <3> QED
      BY <3>1 DEF FetchDiscovery, TypeOK
  <2>2. \A v \in Worker : v # w => job'[v] = job[v]
    BY DEF FetchDiscovery, TypeOK
  <2>3. job'[w].pc = "fetch_discovery" /\ job'[w].kid = job[w].kid
    BY DEF FetchDiscovery, TypeOK
  <2> QED
    BY <2>1, <2>2, <2>3 DEF FetchDiscovery, TypeOK
<1>2. FetchesInTime'
  BY DEF FetchDiscovery, FetchesInTime, Fetching, TypeOK, Job, PC
<1>3. RepliesCurrent'
  BY DEF FetchDiscovery, RepliesCurrent, FetchesInTime, Fetching, Differs,
         TypeOK, Job, PC
<1>4. SetsCurrent'
  BY DEF FetchDiscovery, SetsCurrent, RepliesCurrent, FetchesInTime, Fetching,
         Differs, TypeOK, Job, JwkSet, PC
<1>5. DocumentCurrent'
  BY DEF FetchDiscovery, DocumentCurrent, RepliesCurrent, FetchesInTime,
         Fetching, TypeOK, Job, Document, PC
<1> QED
  BY <1>1, <1>2, <1>3, <1>4, <1>5

LEMMA StoreDiscoveryInv ==
    ASSUME IInv, NEW w \in Worker, StoreDiscovery(w)
    PROVE  IInv'
<1> USE NoneAssumption, TimeAssumption, KidAssumption DEF IInv, portal
<1>1. TypeOK'
  <2>1. /\ job[w] \in Job /\ job[w].document \in Uri
        /\ Discovered(w) \in {"client", "redirect"}
        /\ Discovered(w) = "redirect" => job[w].kid = None
        /\ Discovered(w) = "client" => job[w].kid \in Kid
    BY DEF StoreDiscovery, Discovered, TypeOK, Job
  <2> DEFINE j == [job[w] EXCEPT !.pc = Discovered(w),
                                 !.uri = job[w].document,
                                 !.document = None, !.since = 0]
  <2>2. j \in Job /\ j.pc = Discovered(w) /\ j.uri \in Uri /\ j.kid = job[w].kid
    BY <2>1 DEF Job, PC
  <2>3. job' = [job EXCEPT ![w] = j] /\ job'[w] = j
    BY DEF StoreDiscovery, TypeOK
  <2> HIDE DEF j
  <2>4. /\ job' \in [Worker -> Job]
        /\ \A v \in Worker : v # w => job'[v] = job[v]
    BY <2>2, <2>3 DEF TypeOK
  <2>5. discovery' \in Document \union {None} /\ cache_lock' = None
    BY <2>1 DEF StoreDiscovery, TypeOK, Document
  <2> QED
    BY <2>1, <2>2, <2>3, <2>4, <2>5 DEF StoreDiscovery, TypeOK
<1>2. FetchesInTime'
  BY DEF StoreDiscovery, FetchesInTime, Fetching, TypeOK, Job, PC
<1>3. RepliesCurrent'
  BY DEF StoreDiscovery, RepliesCurrent, FetchesInTime, Fetching, Differs,
         TypeOK, Job, PC
<1>4. SetsCurrent'
  BY DEF StoreDiscovery, SetsCurrent, RepliesCurrent, FetchesInTime, Fetching,
         Differs, TypeOK, Job, JwkSet, PC
<1>5. DocumentCurrent'
  BY DEF StoreDiscovery, DocumentCurrent, RepliesCurrent, FetchesInTime,
         Fetching, TypeOK, Job, Document, PC
<1> QED
  BY <1>1, <1>2, <1>3, <1>4, <1>5

LEMMA JwkClientInv ==
    ASSUME IInv, NEW w \in Worker, JwkClient(w)
    PROVE  IInv'
<1> USE NoneAssumption, TimeAssumption, KidAssumption DEF IInv, portal
<1>1. TypeOK'
  <2>1. /\ job[w] \in Job /\ [job[w] EXCEPT !.pc = "find_key"] \in Job
        /\ job[w].kid \in Kid /\ job[w].uri \in Uri
    BY DEF JwkClient, TypeOK, Job, PC
  <2>2. /\ job' \in [Worker -> Job]
        /\ \A v \in Worker : v # w => job'[v] = job[v]
        /\ job'[w].pc = "find_key"
        /\ job'[w].kid = job[w].kid /\ job'[w].uri = job[w].uri
    BY <2>1 DEF JwkClient, TypeOK, Job
  <2> QED
    BY <2>1, <2>2 DEF JwkClient, TypeOK
<1>2. FetchesInTime'
  BY DEF JwkClient, FetchesInTime, Fetching, TypeOK, Job, PC
<1>3. RepliesCurrent'
  BY DEF JwkClient, RepliesCurrent, FetchesInTime, Fetching, Differs, TypeOK,
         Job, PC
<1>4. SetsCurrent'
  BY DEF JwkClient, SetsCurrent, RepliesCurrent, FetchesInTime, Fetching,
         Differs, TypeOK, Job, JwkSet, PC
<1>5. DocumentCurrent'
  BY DEF JwkClient, DocumentCurrent, RepliesCurrent, FetchesInTime, Fetching,
         TypeOK, Job, Document, PC
<1> QED
  BY <1>1, <1>2, <1>3, <1>4, <1>5

LEMMA FindKeyInv ==
    ASSUME IInv, NEW w \in Worker, FindKey(w)
    PROVE  IInv'
<1> USE NoneAssumption, TimeAssumption, KidAssumption DEF IInv, portal
<1>1. TypeOK'
  BY DEF FindKey, TypeOK, Job, JwkSet, Document, PC
<1>2. FetchesInTime'
  BY DEF FindKey, FetchesInTime, Fetching, TypeOK, Job, PC
<1>3. RepliesCurrent'
  BY DEF FindKey, RepliesCurrent, FetchesInTime, Fetching, Differs, TypeOK,
         Job, PC
<1>4. SetsCurrent'
  BY DEF FindKey, SetsCurrent, RepliesCurrent, FetchesInTime, Fetching,
         Differs, TypeOK, Job, JwkSet, PC
<1>5. DocumentCurrent'
  BY DEF FindKey, DocumentCurrent, RepliesCurrent, FetchesInTime, Fetching,
         TypeOK, Job, Document, PC
<1> QED
  BY <1>1, <1>2, <1>3, <1>4, <1>5

LEMMA RefuseUnknownKidInv ==
    ASSUME IInv, NEW w \in Worker, RefuseUnknownKid(w)
    PROVE  IInv'
<1> USE NoneAssumption, TimeAssumption, KidAssumption DEF IInv, portal
<1>1. TypeOK'
  <2>1. job' \in [Worker -> Job]
    <3>1. [job[w] EXCEPT !.pc = "refused"] \in Job
      BY JobUpdates DEF RefuseUnknownKid, TypeOK, Document
    <3> QED
      BY <3>1 DEF RefuseUnknownKid, TypeOK
  <2>2. \A v \in Worker : v # w => job'[v] = job[v]
    BY DEF RefuseUnknownKid, TypeOK
  <2>3. job'[w].pc = "refused" /\ job'[w].kid = job[w].kid
    BY DEF RefuseUnknownKid, TypeOK
  <2> QED
    BY <2>1, <2>2, <2>3 DEF RefuseUnknownKid, TypeOK
<1>2. FetchesInTime'
  BY DEF RefuseUnknownKid, FetchesInTime, Fetching, TypeOK, Job, PC
<1>3. RepliesCurrent'
  BY DEF RefuseUnknownKid, RepliesCurrent, FetchesInTime, Fetching, Differs,
         TypeOK, Job, PC
<1>4. SetsCurrent'
  BY DEF RefuseUnknownKid, SetsCurrent, RepliesCurrent, FetchesInTime,
         Fetching, Differs, TypeOK, Job, JwkSet, PC
<1>5. DocumentCurrent'
  BY DEF RefuseUnknownKid, DocumentCurrent, RepliesCurrent, FetchesInTime,
         Fetching, TypeOK, Job, Document, PC
<1> QED
  BY <1>1, <1>2, <1>3, <1>4, <1>5

LEMMA FetchJwksInv ==
    ASSUME IInv, NEW w \in Worker, FetchJwks(w)
    PROVE  IInv'
<1> USE NoneAssumption, TimeAssumption, KidAssumption DEF IInv, portal
<1>1. TypeOK'
  <2>1. job' \in [Worker -> Job]
    <3>1. [job[w] EXCEPT !.pc = "fetch_jwks", !.since = now] \in Job
      BY JobUpdates DEF FetchJwks, TypeOK, Document
    <3> QED
      BY <3>1 DEF FetchJwks, TypeOK
  <2>2. \A v \in Worker : v # w => job'[v] = job[v]
    BY DEF FetchJwks, TypeOK
  <2>3. /\ job'[w].pc = "fetch_jwks" /\ job'[w].uri = job[w].uri
        /\ job'[w].kid = job[w].kid
    BY DEF FetchJwks, TypeOK
  <2> QED
    BY <2>1, <2>2, <2>3 DEF FetchJwks, TypeOK
<1>2. FetchesInTime'
  BY DEF FetchJwks, FetchesInTime, Fetching, TypeOK, Job, PC
<1>3. RepliesCurrent'
  BY DEF FetchJwks, RepliesCurrent, FetchesInTime, Fetching, Differs, TypeOK,
         Job, PC
<1>4. SetsCurrent'
  BY DEF FetchJwks, SetsCurrent, RepliesCurrent, FetchesInTime, Fetching,
         Differs, TypeOK, Job, JwkSet, PC
<1>5. DocumentCurrent'
  BY DEF FetchJwks, DocumentCurrent, RepliesCurrent, FetchesInTime, Fetching,
         TypeOK, Job, Document, PC
<1> QED
  BY <1>1, <1>2, <1>3, <1>4, <1>5

LEMMA StoreJwksInv ==
    ASSUME IInv, NEW w \in Worker, StoreJwks(w)
    PROVE  IInv'
<1> USE NoneAssumption, TimeAssumption, KidAssumption DEF IInv, portal
<1>1. TypeOK'
  BY DEF StoreJwks, TypeOK, Job, JwkSet, Document, PC
<1>2. FetchesInTime'
  BY DEF StoreJwks, FetchesInTime, Fetching, TypeOK, Job, PC
<1>3. RepliesCurrent'
  BY DEF StoreJwks, RepliesCurrent, FetchesInTime, Fetching, Differs, TypeOK,
         Job, PC
<1>4. SetsCurrent'
  BY DEF StoreJwks, SetsCurrent, RepliesCurrent, FetchesInTime, Fetching,
         Differs, TypeOK, Job, JwkSet, PC
<1>5. DocumentCurrent'
  BY DEF StoreJwks, DocumentCurrent, RepliesCurrent, FetchesInTime, Fetching,
         TypeOK, Job, Document, PC
<1> QED
  BY <1>1, <1>2, <1>3, <1>4, <1>5

LEMMA UpstreamFailsInv ==
    ASSUME IInv, NEW w \in Worker, UpstreamFails(w)
    PROVE  IInv'
<1> USE NoneAssumption, TimeAssumption, KidAssumption DEF IInv, portal
<1>1. TypeOK'
  <2>1. job' \in [Worker -> Job]
    <3>1. [job[w] EXCEPT !.pc = "unavailable", !.document = None,
                         !.keys = {}, !.since = 0] \in Job
      BY JobUpdates DEF UpstreamFails, TypeOK, Document
    <3> QED
      BY <3>1 DEF UpstreamFails, TypeOK
  <2>2. \A v \in Worker : v # w => job'[v] = job[v]
    BY DEF UpstreamFails, TypeOK
  <2>3. /\ job'[w].pc = "unavailable" /\ job'[w].kid = job[w].kid
        /\ job[w].pc # "idle"
    BY DEF UpstreamFails, TypeOK, Fetching
  <2>4. clients' \in [Uri -> JwkSet]
    <3>1. NoSet \in JwkSet
      BY DEF NoSet, JwkSet
    <3> QED
      BY <3>1 DEF UpstreamFails, TypeOK
  <2>5. /\ cache_lock' \in Worker \union {None}
        /\ \A v \in Worker : cache_lock' = v <=> job'[v].pc = "fetch_discovery"
    BY <2>2, <2>3 DEF UpstreamFails, TypeOK
  <2> QED
    BY <2>1, <2>2, <2>3, <2>4, <2>5 DEF UpstreamFails, TypeOK
<1>2. FetchesInTime'
  BY DEF UpstreamFails, FetchesInTime, Fetching, TypeOK, Job, PC, NoSet
<1>3. RepliesCurrent'
  BY DEF UpstreamFails, RepliesCurrent, FetchesInTime, Fetching, Differs,
         TypeOK, Job, PC, NoSet
<1>4. SetsCurrent'
  <2>1. ASSUME NEW u \in Uri, clients'[u].keys # {}
        PROVE  clients'[u] = clients[u]
    BY <2>1 DEF UpstreamFails, TypeOK, NoSet
  <2> QED
    BY <2>1 DEF UpstreamFails, SetsCurrent, Differs
<1>5. DocumentCurrent'
  BY DEF UpstreamFails, DocumentCurrent, RepliesCurrent, FetchesInTime,
         Fetching, TypeOK, Job, Document, PC, NoSet
<1> QED
  BY <1>1, <1>2, <1>3, <1>4, <1>5

LEMMA RespondInv ==
    ASSUME IInv, NEW w \in Worker, Respond(w)
    PROVE  IInv'
<1> USE NoneAssumption, TimeAssumption, KidAssumption DEF IInv, portal
<1>1. TypeOK'
  BY DEF Respond, TypeOK, Job, JwkSet, Document, PC, Idle
<1>2. FetchesInTime'
  BY DEF Respond, FetchesInTime, Fetching, TypeOK, Job, PC, Idle
<1>3. RepliesCurrent'
  BY DEF Respond, RepliesCurrent, FetchesInTime, Fetching, Differs, TypeOK,
         Job, PC, Idle
<1>4. SetsCurrent'
  BY DEF Respond, SetsCurrent, RepliesCurrent, FetchesInTime, Fetching,
         Differs, TypeOK, Job, JwkSet, PC, Idle
<1>5. DocumentCurrent'
  BY DEF Respond, DocumentCurrent, RepliesCurrent, FetchesInTime, Fetching,
         TypeOK, Job, Document, PC, Idle
<1> QED
  BY <1>1, <1>2, <1>3, <1>4, <1>5

LEMMA AnswerDiscoveryInv ==
    ASSUME IInv, NEW w \in Worker, AnswerDiscovery(w)
    PROVE  IInv'
<1> USE NoneAssumption, TimeAssumption, KidAssumption DEF IInv, portal
<1>1. TypeOK'
  BY DEF AnswerDiscovery, TypeOK, Job, JwkSet, Document, PC
<1>2. FetchesInTime'
  BY DEF AnswerDiscovery, FetchesInTime, Fetching, TypeOK, Job, PC
<1>3. RepliesCurrent'
  BY DEF AnswerDiscovery, RepliesCurrent, FetchesInTime, Fetching, Differs,
         TypeOK, Job, PC
<1>4. SetsCurrent'
  BY DEF AnswerDiscovery, SetsCurrent, RepliesCurrent, FetchesInTime,
         Fetching, Differs, TypeOK, Job, JwkSet, PC
<1>5. DocumentCurrent'
  BY DEF AnswerDiscovery, DocumentCurrent, RepliesCurrent, FetchesInTime,
         Fetching, TypeOK, Job, Document, PC
<1> QED
  BY <1>1, <1>2, <1>3, <1>4, <1>5

LEMMA AnswerJwksInv ==
    ASSUME IInv, NEW w \in Worker, AnswerJwks(w)
    PROVE  IInv'
<1> USE NoneAssumption, TimeAssumption, KidAssumption DEF IInv, portal
<1>1. TypeOK'
  <2>1. job' \in [Worker -> Job]
    <3>1. [job[w] EXCEPT !.keys = published] \in Job
      BY JobUpdates DEF AnswerJwks, TypeOK, Document
    <3> QED
      BY <3>1 DEF AnswerJwks, TypeOK
  <2>2. \A v \in Worker : v # w => job'[v] = job[v]
    BY DEF AnswerJwks, TypeOK
  <2>3. /\ job'[w].pc = "fetch_jwks" /\ job'[w].uri = job[w].uri
        /\ job'[w].kid = job[w].kid
    BY DEF AnswerJwks, TypeOK
  <2> QED
    BY <2>1, <2>2, <2>3 DEF AnswerJwks, TypeOK
<1>2. FetchesInTime'
  BY DEF AnswerJwks, FetchesInTime, Fetching, TypeOK, Job, PC
<1>3. RepliesCurrent'
  BY DEF AnswerJwks, RepliesCurrent, FetchesInTime, Fetching, Differs, TypeOK,
         Job, PC
<1>4. SetsCurrent'
  BY DEF AnswerJwks, SetsCurrent, RepliesCurrent, FetchesInTime, Fetching,
         Differs, TypeOK, Job, JwkSet, PC
<1>5. DocumentCurrent'
  BY DEF AnswerJwks, DocumentCurrent, RepliesCurrent, FetchesInTime, Fetching,
         TypeOK, Job, Document, PC
<1> QED
  BY <1>1, <1>2, <1>3, <1>4, <1>5

LEMMA RestartInv ==
    ASSUME IInv, Restart
    PROVE  IInv'
<1> USE NoneAssumption, TimeAssumption, KidAssumption DEF IInv, portal
<1>1. TypeOK'
  BY DEF Restart, TypeOK, Job, JwkSet, Document, PC, Idle, NoSet
<1>2. FetchesInTime'
  BY DEF Restart, FetchesInTime, Fetching, TypeOK, Job, PC, Idle, NoSet
<1>3. RepliesCurrent'
  BY DEF Restart, RepliesCurrent, FetchesInTime, Fetching, Differs, TypeOK,
         Job, PC, Idle, NoSet
<1>4. SetsCurrent'
  BY DEF Restart, SetsCurrent, RepliesCurrent, FetchesInTime, Fetching,
         Differs, TypeOK, Job, JwkSet, PC, Idle, NoSet
<1>5. DocumentCurrent'
  BY DEF Restart, DocumentCurrent, RepliesCurrent, FetchesInTime, Fetching,
         TypeOK, Job, Document, PC, Idle, NoSet
<1> QED
  BY <1>1, <1>2, <1>3, <1>4, <1>5

LEMMA RotateKeyInv ==
    ASSUME IInv, NEW k \in Rotated, RotateKey(k)
    PROVE  IInv'
<1> USE NoneAssumption, TimeAssumption, KidAssumption DEF IInv, portal
<1>1. TypeOK'
  BY DEF RotateKey, TypeOK, Job, JwkSet, Document, PC
<1>2. FetchesInTime'
  BY DEF RotateKey, FetchesInTime, Fetching, TypeOK, Job, PC
<1>3. RepliesCurrent'
  BY DEF RotateKey, RepliesCurrent, FetchesInTime, Fetching, Differs, TypeOK,
         Job, PC
<1>4. SetsCurrent'
  BY DEF RotateKey, SetsCurrent, RepliesCurrent, FetchesInTime, Fetching,
         Differs, TypeOK, Job, JwkSet, PC
<1>5. DocumentCurrent'
  BY DEF RotateKey, DocumentCurrent, RepliesCurrent, FetchesInTime, Fetching,
         TypeOK, Job, Document, PC
<1> QED
  BY <1>1, <1>2, <1>3, <1>4, <1>5

LEMMA MoveJwksInv ==
    ASSUME IInv, NEW u \in Uri, MoveJwks(u)
    PROVE  IInv'
<1> USE NoneAssumption, TimeAssumption, KidAssumption DEF IInv, portal
<1>1. TypeOK'
  BY DEF MoveJwks, TypeOK, Job, JwkSet, Document, PC
<1>2. FetchesInTime'
  BY DEF MoveJwks, FetchesInTime, Fetching, TypeOK, Job, PC
<1>3. RepliesCurrent'
  BY DEF MoveJwks, RepliesCurrent, FetchesInTime, Fetching, Differs, TypeOK,
         Job, PC
<1>4. SetsCurrent'
  BY DEF MoveJwks, SetsCurrent, RepliesCurrent, FetchesInTime, Fetching,
         Differs, TypeOK, Job, JwkSet, PC
<1>5. DocumentCurrent'
  BY DEF MoveJwks, DocumentCurrent, RepliesCurrent, FetchesInTime, Fetching,
         TypeOK, Job, Document, PC
<1> QED
  BY <1>1, <1>2, <1>3, <1>4, <1>5

LEMMA TickInv ==
    ASSUME IInv, Tick
    PROVE  IInv'
<1> USE NoneAssumption, TimeAssumption, KidAssumption DEF IInv, portal
<1>1. TypeOK'
  BY DEF Tick, TypeOK, Job, JwkSet, Document, PC
<1>2. FetchesInTime'
  BY DEF Tick, FetchesInTime, Fetching, TypeOK, Job, PC
<1>3. RepliesCurrent'
  BY DEF Tick, RepliesCurrent, FetchesInTime, Fetching, Differs, TypeOK, Job,
         PC
<1>4. SetsCurrent'
  BY DEF Tick, SetsCurrent, RepliesCurrent, FetchesInTime, Fetching, Differs,
         TypeOK, Job, JwkSet, PC
<1>5. DocumentCurrent'
  BY DEF Tick, DocumentCurrent, RepliesCurrent, FetchesInTime, Fetching,
         TypeOK, Job, Document, PC
<1> QED
  BY <1>1, <1>2, <1>3, <1>4, <1>5

\* The invariant is inductive: one lemma per action.
LEMMA NextInv == IInv /\ [Next]_vars => IInv'
<1> SUFFICES ASSUME IInv, [Next]_vars PROVE IInv'
  OBVIOUS
<1>1. CASE UNCHANGED vars
  BY <1>1 DEF vars, portal, IInv, TypeOK, FetchesInTime, Fetching,
              RepliesCurrent, SetsCurrent, DocumentCurrent, Differs
<1>2. CASE Next
  BY <1>2, StartLogoutInv, StartGlobalLogoutInv, ReadDiscoveryInv, FetchDiscoveryInv,
           StoreDiscoveryInv, JwkClientInv, FindKeyInv, RefuseUnknownKidInv,
           FetchJwksInv, StoreJwksInv, UpstreamFailsInv, RespondInv,
           AnswerDiscoveryInv, AnswerJwksInv, RestartInv, RotateKeyInv,
           MoveJwksInv, TickInv
     DEF Next, HandlerStep
<1> QED
  BY <1>1, <1>2


-----------------------------------------------------------------------------

\* The three properties follow from this: a set or document in use was fetched
\* less than its lifetime ago, and was true at most one fetch before that.
THEOREM InvariantHolds == Spec => []IInv
BY InitInv, NextInv, PTL DEF Spec

\* The caches and jobs keep their shape, and the lock is held by exactly the
\* thread that fetches the discovery document.
THEOREM TypeCorrect == Spec => []TypeOK
BY InvariantHolds, PTL DEF IInv

\* A job comes to a new point only by a step of its own thread.
LEMMA OwnSteps ==
    ASSUME IInv, [Next]_vars, NEW w \in Worker,
           job'[w].pc # job[w].pc, job'[w].pc # "idle"
    PROVE  \/ HandlerStep(w)
           \/ job[w].pc = "idle" /\ job'[w].pc = "discover"
<1> USE DEF IInv, TypeOK
<1>1. ASSUME NEW v \in Worker, NEW k \in Kid, StartLogout(v, k)
      PROVE  job[w].pc = "idle" /\ job'[w].pc = "discover"
  BY <1>1 DEF StartLogout, Idle
<1>6. ASSUME NEW v \in Worker, StartGlobalLogout(v)
      PROVE  job[w].pc = "idle" /\ job'[w].pc = "discover"
  BY <1>6 DEF StartGlobalLogout, Idle
<1>2. ASSUME NEW v \in Worker, HandlerStep(v), v # w
      PROVE  job'[w] = job[w]
  BY <1>2 DEF HandlerStep, ReadDiscovery, FetchDiscovery, StoreDiscovery,
              JwkClient, FindKey, RefuseUnknownKid, FetchJwks, StoreJwks,
              UpstreamFails, Respond
<1>3. ASSUME NEW v \in Worker, AnswerDiscovery(v) \/ AnswerJwks(v)
      PROVE  job'[w].pc = job[w].pc
  BY <1>3 DEF AnswerDiscovery, AnswerJwks, Job
<1>4. CASE Restart
  BY <1>4 DEF Restart, Idle
<1>5. ASSUME \/ \E k \in Rotated : RotateKey(k)
             \/ \E u \in Uri : MoveJwks(u)
             \/ Tick
             \/ UNCHANGED vars
      PROVE  job' = job
  BY <1>5 DEF RotateKey, MoveJwks, Tick, vars
<1> QED
  BY <1>1, <1>2, <1>3, <1>4, <1>5, <1>6 DEF Next

\* Where each handler step leads.
LEMMA StepTargets ==
    ASSUME TypeOK, NEW w \in Worker
    PROVE  /\ ReadDiscovery(w) \/ StoreDiscovery(w)
                => job'[w].pc \in {"client", "redirect"}
           /\ FetchDiscovery(w) => job'[w].pc = "fetch_discovery"
           /\ JwkClient(w) => job'[w].pc = "find_key"
           /\ FindKey(w) => job'[w].pc = "accepted"
           /\ RefuseUnknownKid(w) => job'[w].pc = "refused"
           /\ FetchJwks(w) => job'[w].pc = "fetch_jwks"
           /\ StoreJwks(w) => job'[w].pc \in {"accepted", "refused"}
           /\ UpstreamFails(w) => job'[w].pc = "unavailable"
           /\ Respond(w) => job'[w].pc = "idle"
<1> USE DEF TypeOK
<1>1. /\ ReadDiscovery(w) \/ StoreDiscovery(w)
            => job'[w].pc \in {"client", "redirect"}
      /\ FetchDiscovery(w) => job'[w].pc = "fetch_discovery"
      /\ JwkClient(w) => job'[w].pc = "find_key"
  BY DEF ReadDiscovery, StoreDiscovery, Discovered, FetchDiscovery, JwkClient,
         Job
<1>2. /\ FindKey(w) => job'[w].pc = "accepted"
      /\ RefuseUnknownKid(w) => job'[w].pc = "refused"
      /\ FetchJwks(w) => job'[w].pc = "fetch_jwks"
  BY DEF FindKey, RefuseUnknownKid, FetchJwks, Job
<1>3. StoreJwks(w) => job'[w].pc \in {"accepted", "refused"}
  BY DEF StoreJwks, Job
<1>4. /\ UpstreamFails(w) => job'[w].pc = "unavailable"
      /\ Respond(w) => job'[w].pc = "idle"
  BY DEF UpstreamFails, Respond, Idle, Job
<1> QED
  BY <1>1, <1>2, <1>3, <1>4

\* Two steps accept a token, two refuse one and two come by a document.
LEMMA DecidingSteps ==
    ASSUME IInv, [Next]_vars, NEW w \in Worker
    PROVE  /\ Accepts(w) => FindKey(w) \/ StoreJwks(w)
           /\ Refuses(w) => RefuseUnknownKid(w) \/ StoreJwks(w)
           /\ Discovers(w) => ReadDiscovery(w) \/ StoreDiscovery(w)
BY OwnSteps, StepTargets DEF Accepts, Refuses, Discovers, HandlerStep, IInv

\* Lifespan and one fetch after the portal has retired a key, no thread accepts
\* a token signed with it.
THEOREM RetiredKeysRejected == Spec => RetiredKeysExpire
<1>1. ASSUME IInv, [Next]_vars, NEW w \in Worker, Accepts(w),
             job[w].kid \notin published
      PROVE  now - changed[job[w].kid] <= Lifespan + FetchTimeout
  <2> USE TimeAssumption DEF IInv, TypeOK, Differs
  <2>1. CASE FindKey(w)
    <3>1. job[w].kid \in Kid /\ job[w].uri \in Uri
      BY <1>1, <2>1 DEF FindKey
    <3>2. clients[job[w].uri].fetched <= changed[job[w].kid] + FetchTimeout
      BY <1>1, <2>1, <3>1 DEF FindKey, Cached, Known, Client, SetsCurrent
    <3>3. now < clients[job[w].uri].fetched + Lifespan
      BY <1>1, <2>1 DEF FindKey, Cached, Client
    <3> QED
      BY <1>1, <3>1, <3>2, <3>3 DEF JwkSet
  <2>2. CASE StoreJwks(w)
    <3>1. job[w].kid \in Kid /\ job[w].kid \in job[w].keys
      BY <1>1, <2>2 DEF StoreJwks, Accepts
    <3>2. job[w].since <= changed[job[w].kid]
      BY <1>1, <2>2, <3>1 DEF RepliesCurrent
    <3>3. now <= job[w].since + FetchTimeout
      BY <1>1, <2>2 DEF StoreJwks, FetchesInTime, Fetching
    <3> QED
      BY <1>1, <3>1, <3>2, <3>3 DEF Job
  <2> QED
    BY <1>1, <2>1, <2>2, DecidingSteps
<1>2. IInv /\ [Next]_vars => [\A w \in Worker : NotLongRetired(w)]_vars
  BY <1>1 DEF NotLongRetired
<1> QED
  BY <1>2, InvariantHolds, PTL DEF RetiredKeysExpire, Spec

\* Cooldown and one fetch after the portal has published a key, no thread
\* refuses a token for it.
THEOREM NewKeysAdopted == Spec => NewKeysAccepted
<1>1. ASSUME IInv, [Next]_vars, NEW w \in Worker, Refuses(w),
             job[w].kid \in published
      PROVE  now - changed[job[w].kid] <= Cooldown + FetchTimeout
  <2> USE TimeAssumption DEF IInv, TypeOK, Differs
  <2>1. CASE RefuseUnknownKid(w)
    <3>1. job[w].kid \in Kid /\ job[w].uri \in Uri
      BY <1>1, <2>1 DEF RefuseUnknownKid
    <3>2. clients[job[w].uri].fetched <= changed[job[w].kid] + FetchTimeout
      BY <1>1, <2>1, <3>1
         DEF RefuseUnknownKid, CoolingDown, Known, Client, SetsCurrent
    <3>3. now < clients[job[w].uri].fetched + Cooldown
      BY <1>1, <2>1 DEF RefuseUnknownKid, CoolingDown, Client
    <3> QED
      BY <1>1, <3>1, <3>2, <3>3 DEF JwkSet
  <2>2. CASE StoreJwks(w)
    <3>1. job[w].kid \in Kid /\ job[w].kid \notin job[w].keys
      BY <1>1, <2>2 DEF StoreJwks, Refuses
    <3>2. job[w].since <= changed[job[w].kid]
      BY <1>1, <2>2, <3>1 DEF RepliesCurrent, StoreJwks
    <3>3. now <= job[w].since + FetchTimeout
      BY <1>1, <2>2 DEF StoreJwks, FetchesInTime, Fetching
    <3> QED
      BY <1>1, <3>1, <3>2, <3>3 DEF Job
  <2> QED
    BY <1>1, <2>1, <2>2, DecidingSteps
<1>2. IInv /\ [Next]_vars => [\A w \in Worker : NotLongPublished(w)]_vars
  BY <1>1 DEF NotLongPublished
<1> QED
  BY <1>2, InvariantHolds, PTL DEF NewKeysAccepted, Spec

\* DISCOVERY_CACHE_SECONDS and one fetch after the portal has moved its JWKS, no
\* thread goes to the former address any more.
THEOREM FormerJwksAbandoned == Spec => MovedJwksFollowed
<1>1. ASSUME IInv, [Next]_vars, NEW w \in Worker, Discovers(w),
             job'[w].uri # jwks_uri
      PROVE  now - moved <= DiscoveryTTL + FetchTimeout
  <2> USE TimeAssumption, NoneAssumption DEF IInv, TypeOK
  <2>1. CASE ReadDiscovery(w)
    <3>1. job'[w].uri = discovery.uri
      BY <1>1, <2>1 DEF ReadDiscovery, Job
    <3>2. discovery.until <= moved + DiscoveryTTL + FetchTimeout
      BY <1>1, <2>1, <3>1 DEF ReadDiscovery, DocumentCurrent
    <3>3. now < discovery.until /\ discovery \in Document
      BY <1>1, <2>1 DEF ReadDiscovery
    <3> QED
      BY <1>1, <3>2, <3>3 DEF Document
  <2>2. CASE StoreDiscovery(w)
    <3>1. job'[w].uri = job[w].document
      BY <1>1, <2>2 DEF StoreDiscovery, Job
    <3>2. job[w].since <= moved
      BY <1>1, <2>2, <3>1 DEF StoreDiscovery, RepliesCurrent
    <3>3. now <= job[w].since + FetchTimeout /\ job[w].since \in Nat
      BY <1>1, <2>2 DEF StoreDiscovery, FetchesInTime, Fetching, Job
    <3> QED
      BY <1>1, <3>2, <3>3
  <2> QED
    BY <1>1, <2>1, <2>2, DecidingSteps
<1>2. IInv /\ [Next]_vars => [\A w \in Worker : NotLongMoved(w)]_vars
  BY <1>1 DEF NotLongMoved
<1> QED
  BY <1>2, InvariantHolds, PTL DEF MovedJwksFollowed, Spec


-----------------------------------------------------------------------------
(* Liveness. ENABLED is beyond the prover, so what a thread can do at each   *)
(* point of its handler is taken from NobodyStuck, a state predicate; the    *)
(* steps, the fairness and the argument over time are proved.                *)

Answering(w) == job[w].pc \in {"accepted", "refused", "unavailable", "redirect"}

\* Where a thread's handler can be next, whoever takes the step.
LEMMA PointsFollow ==
    ASSUME IInv, [Next]_vars, NEW w \in Worker
    PROVE  /\ job[w].pc = "discover"
                => (\/ job[w].pc \in {"discover", "fetch_discovery", "client", "idle"}
                    \/ Answering(w))'
           /\ job[w].pc = "fetch_discovery"
                => (\/ job[w].pc \in {"fetch_discovery", "client", "idle"}
                    \/ Answering(w))'
           /\ job[w].pc = "client"
                => (job[w].pc \in {"client", "find_key", "idle"} \/ Answering(w))'
           /\ job[w].pc = "find_key"
                => (job[w].pc \in {"find_key", "fetch_jwks", "idle"} \/ Answering(w))'
           /\ job[w].pc = "fetch_jwks"
                => (job[w].pc \in {"fetch_jwks", "idle"} \/ Answering(w))'
           /\ Answering(w) => (job[w].pc = "idle" \/ Answering(w))'
<1> USE DEF Answering
<1>1. CASE job'[w].pc = job[w].pc \/ job'[w].pc = "idle"
  BY <1>1
<1>2. CASE job[w].pc = "idle" /\ job'[w].pc = "discover"
  BY <1>2
<1>3. CASE HandlerStep(w)
  BY <1>3, StepTargets DEF IInv, HandlerStep, ReadDiscovery, FetchDiscovery,
     StoreDiscovery, JwkClient, FindKey, RefuseUnknownKid, FetchJwks,
     StoreJwks, UpstreamFails, Respond, Fetching
<1> QED
  BY <1>1, <1>2, <1>3, OwnSteps

\* A handler step always goes on to another point.
LEMMA HandlerMoves ==
    ASSUME IInv, NEW w \in Worker, HandlerStep(w)
    PROVE  /\ job'[w].pc # job[w].pc
           /\ Answering(w) => ~Answering(w)'
BY StepTargets DEF IInv, HandlerStep, ReadDiscovery, FetchDiscovery,
   StoreDiscovery, JwkClient, FindKey, RefuseUnknownKid, FetchJwks,
   StoreJwks, UpstreamFails, Respond, Fetching, Answering

\* The holder of the lock, in its next step, gives it back.
LEMMA HolderReleases ==
    ASSUME IInv, HolderStep
    PROVE  (cache_lock = None)'
<1>1. PICK v \in Worker : cache_lock = v /\ HandlerStep(v)
  BY DEF HolderStep
<1>2. job[v].pc = "fetch_discovery"
  BY <1>1 DEF IInv, TypeOK
<1>3. StoreDiscovery(v) \/ UpstreamFails(v)
  BY <1>1, <1>2 DEF HandlerStep, ReadDiscovery, FetchDiscovery, JwkClient,
     FindKey, RefuseUnknownKid, FetchJwks, StoreJwks, Respond
<1> QED
  BY <1>1, <1>3 DEF StoreDiscovery, UpstreamFails

\* So the lock is free again and again: no fetch keeps it for ever.
LEMMA LockIsFreed ==
    Spec /\ FairHolder /\ []NobodyStuck => []<>(cache_lock = None)
<1>1. IInv /\ <<HolderStep>>_vars => (cache_lock = None)'
  BY HolderReleases
<1>2. NobodyStuck /\ ~(cache_lock = None) => ENABLED <<HolderStep>>_vars
  BY DEF NobodyStuck
<1> QED
  BY <1>1, <1>2, InvariantHolds, PTL DEF FairHolder

\* Point by point, a thread leaves for one further on, and ends up idle.
LEMMA ThreadAnswers ==
    ASSUME NEW w \in Worker
    PROVE  Spec /\ []NobodyStuck /\ []<>(cache_lock = None) /\ FairThread(w)
                => Answered(w)
<1> DEFINE At(p) == job[w].pc = p
<1>1. IInv /\ [Next]_vars =>
        /\ At("discover") => (\/ At("discover") \/ At("fetch_discovery")
                              \/ At("client") \/ At("idle") \/ Answering(w))'
        /\ At("fetch_discovery") => (\/ At("fetch_discovery") \/ At("client")
                                     \/ At("idle") \/ Answering(w))'
        /\ At("client") => (\/ At("client") \/ At("find_key") \/ At("idle")
                            \/ Answering(w))'
        /\ At("find_key") => (\/ At("find_key") \/ At("fetch_jwks") \/ At("idle")
                              \/ Answering(w))'
        /\ At("fetch_jwks") => (At("fetch_jwks") \/ At("idle") \/ Answering(w))'
        /\ Answering(w) => (At("idle") \/ Answering(w))'
  BY PointsFollow
<1>2. IInv /\ <<HandlerStep(w)>>_vars =>
        /\ At("fetch_discovery") => ~At("fetch_discovery")'
        /\ At("find_key") => ~At("find_key")'
        /\ At("fetch_jwks") => ~At("fetch_jwks")'
        /\ Answering(w) => ~Answering(w)'
  BY HandlerMoves
<1>3. IInv =>
        /\ At("discover") /\ <<WithLock(w)>>_vars => ~At("discover")'
        /\ At("client") /\ <<JwkClient(w)>>_vars => ~At("client")'
  BY HandlerMoves DEF WithLock, HandlerStep
<1>4. NobodyStuck => 
        /\ (At("fetch_discovery") \/ At("find_key") \/ At("fetch_jwks")
              \/ Answering(w)) => ENABLED <<HandlerStep(w)>>_vars
        /\ At("discover") /\ cache_lock = None => ENABLED <<WithLock(w)>>_vars
        /\ At("client") /\ cache_lock = None => ENABLED <<JwkClient(w)>>_vars
  BY DEF NobodyStuck, Answering
<1>5. IInv /\ ~At("idle") =>
        \/ At("discover") \/ At("fetch_discovery") \/ At("client")
        \/ At("find_key") \/ At("fetch_jwks") \/ Answering(w)
  BY DEF IInv, TypeOK, Job, PC, Answering
<1> DEFINE Fair == Spec /\ []NobodyStuck /\ []<>(cache_lock = None) /\ FairThread(w)
<1>6. Fair => (Answering(w) ~> At("idle"))
  BY <1>1, <1>2, <1>4, InvariantHolds, PTL DEF Spec, FairThread
<1>7. Fair => (At("fetch_jwks") ~> At("idle"))
  BY <1>1, <1>2, <1>4, <1>6, InvariantHolds, PTL DEF Spec, FairThread
<1>8. Fair => (At("find_key") ~> At("idle"))
  BY <1>1, <1>2, <1>4, <1>6, <1>7, InvariantHolds, PTL DEF Spec, FairThread
<1>9. Fair => (At("client") ~> At("idle"))
  BY <1>1, <1>3, <1>4, <1>6, <1>8, InvariantHolds, PTL DEF Spec, FairThread
<1>10. Fair => (At("fetch_discovery") ~> At("idle"))
  BY <1>1, <1>2, <1>4, <1>6, <1>9, InvariantHolds, PTL DEF Spec, FairThread
<1>11. Fair => (At("discover") ~> At("idle"))
  BY <1>1, <1>3, <1>4, <1>6, <1>9, <1>10, InvariantHolds, PTL
     DEF Spec, FairThread
<1>12. job[w].pc # "idle" <=> ~At("idle")
  OBVIOUS
<1> QED
  BY <1>5, <1>6, <1>7, <1>8, <1>9, <1>10, <1>11, <1>12, InvariantHolds, PTL
     DEF Answered

\* Every back-channel and every global logout is answered, for any number of
\* threads: whatever fails, moves or restarts meanwhile, the lock comes round.
THEOREM EveryLogoutAnswered == FairSpec /\ []NobodyStuck => LogoutsAnswered
<1> SUFFICES ASSUME Spec, Fairness, []NobodyStuck, NEW w \in Worker
             PROVE  Answered(w)
  BY DEF FairSpec, LogoutsAnswered
<1>1. FairHolder
  BY DEF Fairness
<1>2. FairThread(w)
  BY DEF Fairness
<1> QED
  BY <1>1, <1>2, LockIsFreed, ThreadAnswers, PTL
=============================================================================
