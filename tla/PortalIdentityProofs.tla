------------------------ MODULE PortalIdentityProofs ------------------------
(* Proofs about PortalIdentity for any portal users, names, rows, workers.   *)
EXTENDS PortalIdentity, TLAPS

USE DEF settings, rows

-----------------------------------------------------------------------------
(* The inductive invariant, in parts. *)

\* A signup under way has its own name, or another row has it; one under
\* preferred_username has the name of no sub, nor has a local user.
WellNamed(j) ==
    LET own == OwnName(j.sub)
        name == IF j.pc = "link" THEN auth_user[j.user] ELSE j.username
    IN  j.pc \in {"lookup", "clean", "insert", "link"} =>
          IF strategy = "preferred_username" THEN name \in Name \union {None}
          ELSE \/ name = own
               \/ /\ j.pc \notin {"lookup", "clean"}
                  /\ name \in Name \union {None}
                  /\ Taken(own)

NamesUnderWay ==
    /\ \A u \in local : auth_user[u] \in Name
    /\ \A w \in Worker : WellNamed(job[w])

\* Who connects an account has a password or an account.
SignedIn(j) ==
    j.pc \in {"userinfo", "populate", "lookup", "connect"} /\ j.user # None
        => j.user \in local \/ Linked(j.user) # {}

ConnectsAreSignedIn == \A w \in Worker : SignedIn(job[w])

\* A row called by a sub has no account, or is the user of that sub's account.
OwnNameHolders ==
    \A u \in User, s \in Sub :
        auth_user[u] = OwnName(s) /\ Linked(u) # {} => s \in Linked(u)

SignedUpNames ==
    \A s \in signedUp :
        LET name == auth_user[account[s].user] IN
        \/ name = OwnName(s)
        \/ name \in Name /\ Taken(OwnName(s))

LatestIsStored ==
    \A w \in Worker :
        job[w].pc = "synced" =>
            /\ job[w].sub \in Linked(job[w].user)
            /\ job[w].latest => account[job[w].sub].extra_data = job[w].data

IInv ==
    /\ TypeOK
    /\ NamesUnderWay
    /\ ConnectsAreSignedIn
    /\ OwnNameHolders
    /\ SignedUpNames
    /\ LatestIsStored

-----------------------------------------------------------------------------
\* What TypeOK says of one job.
JobOK(j) ==
    /\ j \in Job
    /\ j.pc # "idle" => j.sub \in Sub
    /\ j.pc = "userinfo" => /\ layout # "id_token"
                            /\ j.data = IdTokenOnly(j.data.id_token)
                            /\ layout = "flat" => j.data.id_token = None
    /\ j.pc \notin {"idle", "userinfo"} => j.data \in ExtraData
    /\ j.pc \in {"lookup", "clean"} => j.username # None
    /\ j.pc \in {"link", "connect", "synced"} => j.user # None /\ Exists(j.user)

\* And of the oldest accounts.
OldestOK ==
    /\ oldest_account \in [User -> Sub \union {None}]
    /\ \A u \in User :
        /\ oldest_account[u] = None => Linked(u) = {}
        /\ oldest_account[u] # None => oldest_account[u] \in Linked(u)

\* What a login puts together is in one of the layouts.
LEMMA LoginData ==
    ASSUME NEW n \in Name
    PROVE  /\ IdTokenOnly(n) \in ExtraData
           /\ \A m \in Claim \union {None} :
                /\ IdTokenOnly(m) \in Containers
                /\ IdTokenOnly(m).id_token = m
                /\ [IdTokenOnly(m) EXCEPT !.userinfo = n] \in ExtraData
           /\ [NoClaims EXCEPT !.flat = n] \in ExtraData
<1>1. n # None /\ n # Missing
  BY NoneAssumption DEF Username
<1>2. /\ NoClaims \in Containers /\ NoClaims.userinfo = None
      /\ NoClaims.id_token = None /\ NoClaims.flat = None
  BY DEF NoClaims, Containers
<1>3. ASSUME NEW m \in Claim \union {None}
      PROVE  /\ IdTokenOnly(m) \in Containers
             /\ IdTokenOnly(m).id_token = m
             /\ IdTokenOnly(m).userinfo = None /\ IdTokenOnly(m).flat = None
  BY <1>2 DEF IdTokenOnly, Containers
<1>4. IdTokenOnly(n) \in ExtraData
  BY <1>1, <1>3 DEF ExtraData, CommonName, Claim
<1>5. ASSUME NEW m \in Claim \union {None}
      PROVE  [IdTokenOnly(m) EXCEPT !.userinfo = n] \in ExtraData
  <2> DEFINE d == [IdTokenOnly(m) EXCEPT !.userinfo = n]
  <2>1. d \in Containers /\ d.userinfo = n /\ d.flat = None
    BY <1>3 DEF Containers, Claim
  <2> QED
    BY <1>1, <2>1 DEF ExtraData, CommonName
<1>6. [NoClaims EXCEPT !.flat = n] \in ExtraData
  <2> DEFINE d == [NoClaims EXCEPT !.flat = n]
  <2>1. /\ d \in Containers /\ d.userinfo = None /\ d.id_token = None
        /\ d.flat = n
    BY <1>2 DEF Containers, Claim
  <2> QED
    BY <1>1, <2>1 DEF ExtraData, CommonName
<1> QED
  BY <1>3, <1>4, <1>5, <1>6

\* A step that adds no account leaves the oldest ones as they are.
LEMMA OldestKept ==
    ASSUME TypeOK, UNCHANGED oldest_account,
           \A t \in Sub : /\ account'[t] # None <=> account[t] # None
                          /\ account[t] # None => account'[t].user = account[t].user
    PROVE  OldestOK'
<1>1. \A u \in User : Linked(u)' = Linked(u)
  BY DEF Linked
<1> QED
  BY <1>1 DEF TypeOK, OldestOK

\* A free worker is well typed.
LEMMA IdleOK == JobOK(Idle) /\ Idle.pc = "idle"
BY DEF JobOK, Idle, Job, PC, NoClaims, Containers

\* It holds at first: at most one row, under a name of a person.
LEMMA InitInv == Init => IInv
<1> SUFFICES ASSUME Init PROVE IInv
  OBVIOUS
<1> USE NoneAssumption, NameAssumption
<1>1. \A w \in Worker : job[w] = Idle
  BY DEF Init
<1>2. \A n \in Name : [NoClaims EXCEPT !.flat = n] \in ExtraData
  BY LoginData
<1>3. TypeOK
  <2>1. /\ auth_user \in [User -> Username \union {None}]
        /\ \A u, v \in User : Exists(u) /\ auth_user[u] = auth_user[v] => u = v
    BY DEF Init, Username, Exists
  <2>2. /\ account \in [Sub -> SocialAccount \union {None}]
        /\ \A s \in Sub : account[s] # None => Exists(account[s].user)
    BY <1>2 DEF Init, SocialAccount, Username, Exists
  <2>3. OldestOK
    <3>1. CASE /\ account = [s \in Sub |-> None]
               /\ oldest_account = [u \in User |-> None]
      BY <3>1 DEF OldestOK, Linked
    <3>2. ASSUME NEW u \in User, NEW s \in Sub, NEW n \in Name,
                 oldest_account = [v \in User |-> IF v = u THEN s ELSE None],
                 account = [t \in Sub |->
                   IF t = s THEN [user |-> u,
                                  extra_data |-> [NoClaims EXCEPT !.flat = n]]
                   ELSE None]
          PROVE  OldestOK
      <4> DEFINE row == [user |-> u, extra_data |-> [NoClaims EXCEPT !.flat = n]]
      <4>1. row \in SocialAccount /\ row.user = u
        BY <1>2 DEF SocialAccount
      <4>2. \A t \in Sub : account[t] = IF t = s THEN row ELSE None
        BY <3>2
      <4> HIDE DEF row
      <4>3. \A v \in User : Linked(v) = IF v = u THEN {s} ELSE {}
        BY <4>1, <4>2 DEF Linked
      <4> QED
        BY <3>2, <4>3 DEF OldestOK
    <3> QED
      BY <3>1, <3>2 DEF Init
  <2>4. \A w \in Worker : JobOK(job[w])
    BY <1>1, IdleOK
  <2>5. job \in [Worker -> Job]
    BY IdleOK DEF Init, JobOK
  <2> QED
    BY <2>1, <2>2, <2>3, <2>4, <2>5 DEF Init, TypeOK, JobOK, OldestOK
<1>4. NamesUnderWay /\ ConnectsAreSignedIn /\ LatestIsStored
  BY <1>1, IdleOK
     DEF Init, NamesUnderWay, WellNamed, ConnectsAreSignedIn, SignedIn,
         LatestIsStored
<1>5. OwnNameHolders
  <2>1. \A u \in User : auth_user[u] \in Name \union {None}
    BY DEF Init
  <2>2. \A s \in Sub : OwnName(s) \notin Name \union {None}
    BY DEF Username
  <2> QED
    BY <2>1, <2>2 DEF OwnNameHolders
<1>6. SignedUpNames
  BY DEF Init, SignedUpNames
<1> QED
  BY <1>3, <1>4, <1>5, <1>6 DEF IInv

\* A step that moves one login on and writes no table: all that can go wrong is
\* in its own job.
LEMMA JobStep ==
    ASSUME IInv, NEW w \in Worker, NEW j,
           job' = [job EXCEPT ![w] = j],
           UNCHANGED <<settings, rows>>,
           JobOK(j), WellNamed(j), SignedIn(j), j.pc # "synced"
    PROVE  IInv'
<1> USE DEF IInv
<1>1. /\ job \in [Worker -> Job]
      /\ \A v \in Worker : JobOK(job[v])
  BY DEF TypeOK, JobOK
<1>2. /\ DOMAIN job' = Worker
      /\ \A v \in Worker : job'[v] = IF v = w THEN j ELSE job[v]
  BY <1>1
<1>3. TypeOK'
  <2>1. \A v \in Worker : JobOK(job'[v])
    BY <1>1, <1>2
  <2>2. job' \in [Worker -> Job]
    BY <1>1, <2>1 DEF JobOK
  <2>3. OldestOK'
    BY OldestKept
  <2> QED
    BY <2>1, <2>2, <2>3 DEF TypeOK, JobOK, OldestOK, Exists
<1>4. NamesUnderWay'
  <2>1. \A v \in Worker : WellNamed(job'[v])
    BY <1>2 DEF NamesUnderWay
  <2> QED
    BY <2>1 DEF NamesUnderWay, WellNamed, Taken
<1>5. ConnectsAreSignedIn'
  <2>1. \A v \in Worker : SignedIn(job'[v])
    BY <1>2 DEF ConnectsAreSignedIn
  <2> QED
    BY <2>1 DEF ConnectsAreSignedIn, SignedIn, Linked
<1>6. OwnNameHolders' /\ SignedUpNames'
  BY DEF OwnNameHolders, SignedUpNames, Linked, Taken
<1>7. LatestIsStored'
  BY <1>2 DEF LatestIsStored, Linked
<1> QED
  BY <1>3, <1>4, <1>5, <1>6, <1>7

\* The five steps of a login that only move its job on, its start and its end.
LEMMA LoginMovesOn ==
    ASSUME IInv, NEW w \in Worker,
           \/ \E s \in Sub, n \in Name, u \in User \union {None} :
                StartLogin(w, s, n, u)
           \/ \E n \in Name : FetchUserinfo(w, n)
           \/ LookupFails(w)
           \/ PopulateUser(w)
           \/ CleanUsername(w)
           \/ HandlePortalLogin(w)
           \/ RequestEnds(w)
    PROVE  IInv'
<1> USE NoneAssumption
<1>1. /\ job \in [Worker -> Job]
      /\ JobOK(job[w]) /\ WellNamed(job[w]) /\ SignedIn(job[w])
  BY DEF IInv, TypeOK, JobOK, NamesUnderWay, ConnectsAreSignedIn
<1>2. JobOK(Idle) /\ WellNamed(Idle) /\ SignedIn(Idle) /\ Idle.pc # "synced"
  BY IdleOK DEF WellNamed, SignedIn
<1>3. CASE HandlePortalLogin(w) \/ RequestEnds(w)
  BY <1>2, <1>3, JobStep DEF HandlePortalLogin, RequestEnds
<1>4. ASSUME NEW s \in Sub, NEW n \in Name, NEW u \in User \union {None},
             StartLogin(w, s, n, u)
      PROVE  IInv'
  <2> DEFINE id == CASE layout \in {"both", "id_token"} -> n
                     [] layout = "slim" -> Missing
                     [] OTHER -> None
             j == [Idle EXCEPT
                     !.pc = IF layout = "id_token" THEN "populate"
                            ELSE "userinfo",
                     !.sub = s, !.user = u, !.data = IdTokenOnly(id)]
  <2>0. /\ id \in Claim \union {None}
        /\ layout = "id_token" => id = n
        /\ layout = "flat" => id = None
    BY DEF IInv, TypeOK, Layout, Claim
  <2> HIDE DEF id
  <2>1. /\ IdTokenOnly(id) \in Containers /\ IdTokenOnly(id).id_token = id
        /\ layout = "id_token" => IdTokenOnly(id) \in ExtraData
    BY <2>0, LoginData
  <2>5. /\ j \in Job /\ j.sub = s /\ j.user = u /\ j.data = IdTokenOnly(id)
        /\ j.pc = IF layout = "id_token" THEN "populate" ELSE "userinfo"
    BY <2>1, IdleOK DEF JobOK, Idle, Job, PC
  <2>2. JobOK(j) /\ j.pc \in {"userinfo", "populate"}
    BY <2>0, <2>1, <2>5 DEF JobOK
  <2>3. WellNamed(j) /\ SignedIn(j)
    BY <1>4, <2>2, <2>5 DEF WellNamed, SignedIn, StartLogin
  <2>4. job' = [job EXCEPT ![w] = j]
    BY <1>4 DEF StartLogin, id
  <2> HIDE DEF j
  <2> QED
    BY <1>4, <2>2, <2>3, <2>4, JobStep DEF StartLogin
<1>5. ASSUME NEW n \in Name, FetchUserinfo(w, n)
      PROVE  IInv'
  <2> DEFINE d == IF layout = "flat" THEN [NoClaims EXCEPT !.flat = n]
                  ELSE [job[w].data EXCEPT !.userinfo = n]
             j == [job[w] EXCEPT !.pc = "populate", !.data = d]
  <2>1. d \in ExtraData
    <3>1. /\ job[w].data = IdTokenOnly(job[w].data.id_token)
          /\ job[w].data.id_token \in Claim \union {None}
      BY <1>1, <1>5 DEF FetchUserinfo, JobOK, Job, Containers
    <3> QED
      BY <3>1, LoginData
  <2> HIDE DEF d
  <2>2. /\ job[w].pc = "userinfo" /\ j \in Job /\ j.pc = "populate"
        /\ j.user = job[w].user /\ j.sub = job[w].sub /\ j.data = d
    BY <1>1, <1>5, <2>1 DEF FetchUserinfo, JobOK, Job, PC, ExtraData
  <2>3. job' = [job EXCEPT ![w] = j]
    BY <1>1, <1>5 DEF FetchUserinfo, Job, d
  <2> HIDE DEF j
  <2>4. JobOK(j) /\ WellNamed(j) /\ SignedIn(j)
    BY <1>1, <2>1, <2>2 DEF JobOK, WellNamed, SignedIn
  <2> QED
    BY <1>5, <2>2, <2>3, <2>4, JobStep DEF FetchUserinfo
<1>6. CASE LookupFails(w)
  <2> DEFINE j == [job[w] EXCEPT !.pc = IF job[w].user = None THEN "clean"
                                        ELSE "connect"]
  <2>1. /\ j \in Job /\ j.sub = job[w].sub /\ j.user = job[w].user
        /\ j.username = job[w].username /\ j.data = job[w].data
        /\ j.pc = IF job[w].user = None THEN "clean" ELSE "connect"
        /\ job[w].pc = "lookup"
    BY <1>1, <1>6 DEF JobOK, Job, PC, LookupFails
  <2>2. WellNamed(j) /\ SignedIn(j)
    BY <1>1, <2>1 DEF WellNamed, SignedIn
  <2>3. JobOK(j)
    <3>1. job[w].user # None => Exists(job[w].user)
      BY <1>1, <2>1 DEF SignedIn, IInv, TypeOK, Linked, JobOK, Job
    <3> QED
      BY <1>1, <2>1, <3>1 DEF JobOK
  <2>4. job' = [job EXCEPT ![w] = j]
    BY <1>1, <1>6 DEF LookupFails
  <2> HIDE DEF j
  <2> QED
    BY <1>6, <2>1, <2>2, <2>3, <2>4, JobStep DEF LookupFails
<1>7. CASE PopulateUser(w)
  <2> DEFINE name == IF strategy = "preferred_username"
                     THEN CommonName(job[w].data) ELSE OwnName(job[w].sub)
             j == [job[w] EXCEPT !.pc = "lookup", !.username = name]
  <2>1. /\ job[w].pc = "populate" /\ job[w].sub \in Sub
        /\ CommonName(job[w].data) \in Name
    <3>1. /\ job[w].pc = "populate" /\ job[w].sub \in Sub
          /\ job[w].data \in ExtraData
      BY <1>1, <1>7 DEF PopulateUser, JobOK
    <3>2. \A d \in ExtraData : CommonName(d) \in Name
      BY DEF ExtraData, Containers, CommonName, Claim
    <3> QED
      BY <3>1, <3>2
  <2>2. name \in Username /\ name # None
    BY <2>1 DEF Username
  <2>3. /\ j \in Job /\ j.pc = "lookup" /\ j.username = name
        /\ j.sub = job[w].sub /\ j.data = job[w].data /\ j.user = job[w].user
    BY <1>1, <2>1, <2>2 DEF JobOK, Job, PC
  <2>4. JobOK(j)
    BY <1>1, <2>1, <2>2, <2>3 DEF JobOK, Username
  <2>5. WellNamed(j) /\ SignedIn(j)
    BY <1>1, <2>1, <2>3 DEF WellNamed, SignedIn
  <2>6. job' = [job EXCEPT ![w] = j]
    BY <1>7 DEF PopulateUser
  <2> HIDE DEF j, name
  <2> QED
    BY <1>7, <2>3, <2>4, <2>5, <2>6, JobStep DEF PopulateUser
<1>8. CASE CleanUsername(w)
  <2> DEFINE name == IF Taken(job[w].username) THEN None ELSE job[w].username
             j == [job[w] EXCEPT !.pc = "insert", !.username = name]
  <2>1. job[w].pc = "clean" /\ job[w].username \in Username
    BY <1>1, <1>8 DEF CleanUsername, JobOK, Job
  <2>2. /\ j \in Job /\ j.pc = "insert" /\ j.username = name
        /\ j.sub = job[w].sub /\ j.data = job[w].data
    BY <1>1, <2>1 DEF JobOK, Job, PC
  <2>3. JobOK(j)
    BY <1>1, <2>1, <2>2 DEF JobOK
  <2>4. WellNamed(j) /\ SignedIn(j)
    BY <1>1, <2>1, <2>2 DEF WellNamed, SignedIn
  <2>5. job' = [job EXCEPT ![w] = j]
    BY <1>8 DEF CleanUsername
  <2> HIDE DEF j, name
  <2> QED
    BY <1>8, <2>2, <2>3, <2>4, <2>5, JobStep DEF CleanUsername
<1> QED
  BY <1>3, <1>4, <1>5, <1>6, <1>7, <1>8

\* What a login's storing of its claims leaves of the jobs.
LEMMA StoredJobs ==
    ASSUME NEW w \in Worker, NEW j, job \in [Worker -> Job], Stored(w, j)
    PROVE  /\ DOMAIN job' = Worker
           /\ job'[w] = j
           /\ \A v \in Worker \ {w} :
                /\ job[v] \in Job => job'[v] \in Job
                /\ job'[v].pc = job[v].pc
                /\ job'[v].sub = job[v].sub
                /\ job'[v].data = job[v].data
                /\ job'[v].username = job[v].username
                /\ job'[v].user = job[v].user
                /\ job'[v].latest = (job[v].latest /\ job[v].sub # job[w].sub)
<1>1. job' = [v \in Worker |->
                IF v = w THEN j
                ELSE [job[v] EXCEPT !.latest = @ /\ job[v].sub # job[w].sub]]
  BY DEF Stored
<1>2. ASSUME NEW v \in Worker \ {w}
      PROVE  /\ job[v] \in Job => job'[v] \in Job
             /\ job'[v].pc = job[v].pc
             /\ job'[v].sub = job[v].sub
             /\ job'[v].data = job[v].data
             /\ job'[v].username = job[v].username
             /\ job'[v].user = job[v].user
             /\ job'[v].latest = (job[v].latest /\ job[v].sub # job[w].sub)
  <2>1. job'[v] = [job[v] EXCEPT !.latest = job[v].latest
                                            /\ job[v].sub # job[w].sub]
    BY <1>1
  <2>2. job[v] \in Job
    OBVIOUS
  <2> QED
    BY <2>1, <2>2 DEF Job
<1> QED
  BY <1>1, <1>2

\* A known portal user signs in: its claims are overwritten.
LEMMA LookupKeeps ==
    ASSUME IInv, NEW w \in Worker, Lookup(w)
    PROVE  IInv'
<1> USE NoneAssumption DEF IInv
<1> DEFINE s == job[w].sub
           j == IF job[w].user # None THEN Idle
                ELSE [job[w] EXCEPT !.pc = "synced", !.latest = TRUE,
                                    !.user = account[s].user]
<1>1. /\ job \in [Worker -> Job]
      /\ \A v \in Worker : JobOK(job[v])
  BY DEF TypeOK, JobOK
<1>2. /\ s \in Sub /\ account[s] # None /\ account[s] \in SocialAccount
      /\ account[s].user \in User /\ Exists(account[s].user)
      /\ job[w].data \in ExtraData /\ job[w].pc = "lookup"
  BY <1>1 DEF Lookup, TypeOK, JobOK, Job, SocialAccount
<1>3. /\ j \in Job /\ j.pc \in {"idle", "synced"} /\ JobOK(j)
      /\ j.pc = "synced" => /\ j.sub = s /\ j.data = job[w].data
                            /\ j.user = account[s].user
  <2>1. CASE job[w].user # None
    BY <2>1, IdleOK DEF JobOK
  <2>2. CASE job[w].user = None
    <3>1. /\ j \in Job /\ j.pc = "synced" /\ j.sub = s /\ j.data = job[w].data
          /\ j.user = account[s].user
      BY <1>1, <1>2, <2>2 DEF Job, PC
    <3> QED
      BY <1>1, <1>2, <3>1 DEF JobOK
  <2> QED
    BY <2>1, <2>2
<1>4. /\ account' \in [Sub -> SocialAccount \union {None}]
      /\ \A t \in Sub : /\ account'[t] # None <=> account[t] # None
                        /\ account[t] # None => account'[t].user = account[t].user
      /\ account'[s].extra_data = job[w].data
      /\ \A t \in Sub \ {s} : account'[t] = account[t]
  <2>1. [account[s] EXCEPT !.extra_data = job[w].data] \in SocialAccount
    BY <1>2 DEF SocialAccount
  <2>2. account' = [account EXCEPT
                      ![s] = [account[s] EXCEPT !.extra_data = job[w].data]]
    BY <1>2 DEF Lookup, TypeOK
  <2> QED
    BY <1>2, <2>1, <2>2 DEF TypeOK, SocialAccount
<1>5. /\ UNCHANGED <<settings, auth_user, local, oldest_account, signedUp>>
      /\ Stored(w, j)
  BY DEF Lookup
<1>6. \A u \in User : Linked(u)' = Linked(u)
  BY <1>4 DEF Linked
<1> HIDE DEF j
<1>7. /\ DOMAIN job' = Worker
      /\ job'[w] = j
      /\ \A v \in Worker \ {w} :
           /\ job'[v] \in Job
           /\ job'[v].pc = job[v].pc
           /\ job'[v].sub = job[v].sub
           /\ job'[v].data = job[v].data
           /\ job'[v].username = job[v].username
           /\ job'[v].user = job[v].user
           /\ job'[v].latest = (job[v].latest /\ job[v].sub # job[w].sub)
  BY <1>1, <1>5, StoredJobs
<1>8. TypeOK'
  <2>1. job' \in [Worker -> Job]
    BY <1>3, <1>5, <1>7 DEF Stored
  <2>2. \A v \in Worker : JobOK(job'[v])
    BY <1>1, <1>2, <1>3, <1>7 DEF JobOK
  <2>3. \A t \in Sub : account'[t] # None => Exists(account'[t].user)
    BY <1>4 DEF TypeOK
  <2>4. signedUp \subseteq {t \in Sub : account'[t] # None}
    BY <1>4 DEF TypeOK
  <2>5. OldestOK'
    BY <1>4, <1>5, OldestKept
  <2> QED
    BY <1>4, <1>5, <2>1, <2>2, <2>3, <2>4, <2>5
       DEF TypeOK, JobOK, OldestOK, Exists
<1>9. NamesUnderWay'
  <2>1. \A v \in Worker : WellNamed(job'[v])
    BY <1>3, <1>7 DEF NamesUnderWay, WellNamed
  <2> QED
    BY <1>5, <2>1 DEF NamesUnderWay, WellNamed, Taken
<1>10. ConnectsAreSignedIn'
  <2>1. \A v \in Worker : SignedIn(job'[v])
    BY <1>3, <1>7 DEF ConnectsAreSignedIn, SignedIn
  <2>2. \A v \in Worker : job'[v].user # None => job'[v].user \in User
    BY <1>2, <1>3, <1>7 DEF Job
  <2> QED
    BY <1>5, <1>6, <2>1, <2>2 DEF ConnectsAreSignedIn, SignedIn
<1>11. OwnNameHolders'
  BY <1>5, <1>6 DEF OwnNameHolders
<1>12. SignedUpNames'
  BY <1>4, <1>5 DEF SignedUpNames, Taken, TypeOK
<1>13. LatestIsStored'
  <2>1. job'[w].pc = "synced" =>
          /\ job'[w].sub = s
          /\ account'[s] # None /\ account'[s].user = job'[w].user
          /\ account'[s].extra_data = job'[w].data
    BY <1>2, <1>3, <1>4, <1>7
  <2>2. ASSUME NEW v \in Worker \ {w}, job'[v].pc = "synced"
        PROVE  /\ job'[v].sub \in Sub
               /\ account'[job'[v].sub] # None
               /\ account'[job'[v].sub].user = job'[v].user
               /\ job'[v].latest =>
                    account'[job'[v].sub].extra_data = job'[v].data
    <3>1. /\ job[v].sub \in Sub
          /\ account[job[v].sub] # None
          /\ account[job[v].sub].user = job[v].user
          /\ job[v].latest => account[job[v].sub].extra_data = job[v].data
      BY <1>7, <2>2 DEF LatestIsStored, Linked
    <3>2. job'[v].latest => job[v].latest /\ job[v].sub # s
      BY <1>7
    <3>3. /\ job'[v].sub = job[v].sub /\ job'[v].user = job[v].user
          /\ job'[v].data = job[v].data
      BY <1>7
    <3> HIDE DEF s
    <3> QED
      BY <1>4, <3>1, <3>2, <3>3
  <2> QED
    BY <1>2, <1>3, <1>7, <2>1, <2>2 DEF LatestIsStored, Linked
<1> QED
  BY <1>8, <1>9, <1>10, <1>11, <1>12, <1>13

\* A new user has no account, and takes no name from a user there is.
LEMMA UserAdded ==
    ASSUME IInv, NEW u \in User, NEW n \in Username, ~Exists(u), ~Taken(n),
           auth_user' = [auth_user EXCEPT ![u] = n],
           UNCHANGED <<account, signedUp>>
    PROVE  /\ auth_user' \in [User -> Username \union {None}]
           /\ auth_user'[u] = n
           /\ \A v \in User : Exists(v) => v # u /\ Exists(v)'
                                           /\ auth_user'[v] = auth_user[v]
           /\ \A v, x \in User :
                auth_user'[v] # None /\ auth_user'[v] = auth_user'[x] => v = x
           /\ \A m \in Username : Taken(m) => Taken(m)'
           /\ OwnNameHolders'
           /\ SignedUpNames'
<1> USE NoneAssumption DEF IInv
<1>1. /\ auth_user' \in [User -> Username \union {None}]
      /\ auth_user'[u] = n
      /\ \A v \in User \ {u} : auth_user'[v] = auth_user[v]
  BY DEF TypeOK
<1>2. \A v \in User : Exists(v) => v # u /\ Exists(v)'
                                   /\ auth_user'[v] = auth_user[v]
  BY <1>1 DEF Exists
<1>3. \A v, x \in User :
        auth_user'[v] # None /\ auth_user'[v] = auth_user'[x] => v = x
  BY <1>1 DEF TypeOK, Exists, Taken
<1>4. \A m \in Username : Taken(m) => Taken(m)'
  BY <1>2 DEF Taken, Exists
<1>5. OwnNameHolders'
  <2>1. Linked(u) = {}
    BY DEF TypeOK, Linked
  <2>2. \A v \in User : Linked(v)' = Linked(v)
    BY DEF Linked
  <2> QED
    BY <1>1, <2>1, <2>2 DEF OwnNameHolders
<1>6. SignedUpNames'
  <2>1. \A s \in signedUp :
          /\ s \in Sub /\ account[s].user \in User
          /\ auth_user'[account[s].user] = auth_user[account[s].user]
    BY <1>2 DEF TypeOK, SocialAccount
  <2>2. \A s \in Sub : Taken(OwnName(s)) => Taken(OwnName(s))'
    BY <1>4 DEF Username
  <2> QED
    BY <2>1, <2>2 DEF SignedUpNames
<1> QED
  BY <1>1, <1>2, <1>3, <1>4, <1>5, <1>6

\* A local user is never called like a portal user.
LEMMA LocalSignupKeeps ==
    ASSUME IInv, NEW u \in User, NEW n \in Name, LocalSignup(u, n)
    PROVE  IInv'
<1> USE NoneAssumption DEF IInv
<1>1. /\ n \in Username /\ ~Exists(u) /\ ~Taken(n)
      /\ auth_user' = [auth_user EXCEPT ![u] = n]
      /\ local' = local \union {u}
      /\ UNCHANGED <<settings, account, oldest_account, job, signedUp>>
  BY DEF LocalSignup, Username
<1>2. /\ auth_user' \in [User -> Username \union {None}]
      /\ auth_user'[u] = n
      /\ \A v \in User : Exists(v) => v # u /\ Exists(v)'
                                      /\ auth_user'[v] = auth_user[v]
      /\ \A v, x \in User :
           auth_user'[v] # None /\ auth_user'[v] = auth_user'[x] => v = x
      /\ \A m \in Username : Taken(m) => Taken(m)'
      /\ OwnNameHolders'
      /\ SignedUpNames'
  BY <1>1, UserAdded
<1>3. Exists(u)'
  BY <1>1, <1>2 DEF Exists
<1>4. /\ job \in [Worker -> Job]
      /\ \A v \in Worker : JobOK(job[v])
  BY DEF TypeOK, JobOK
<1>5. TypeOK'
  <2>1. \A v \in Worker : JobOK(job[v])'
    BY <1>1, <1>2, <1>4 DEF JobOK, Job
  <2>2. \A s \in Sub : account[s] # None => auth_user'[account[s].user] # None
    BY <1>2 DEF TypeOK, SocialAccount, Exists
  <2>3. local' \subseteq {v \in User : Exists(v)'}
    BY <1>1, <1>2, <1>3 DEF TypeOK
  <2> QED
    BY <1>1, <1>2, <2>1, <2>2, <2>3, OldestKept DEF TypeOK, JobOK, OldestOK, Exists
<1>6. NamesUnderWay'
  <2>1. \A v \in local' : auth_user'[v] \in Name
    BY <1>1, <1>2 DEF NamesUnderWay, TypeOK
  <2>2. \A v \in Worker : WellNamed(job[v])'
    <3> SUFFICES ASSUME NEW v \in Worker, job[v].pc \in {"lookup", "clean", "insert", "link"}
                 PROVE  WellNamed(job[v])'
      BY <1>1 DEF WellNamed
    <3>1. WellNamed(job[v]) /\ OwnName(job[v].sub) \in Username
      BY <1>4 DEF NamesUnderWay, JobOK, Username
    <3>2. job[v].pc = "link" => auth_user'[job[v].user] = auth_user[job[v].user]
      BY <1>2, <1>4 DEF JobOK, Job
    <3> QED
      BY <1>1, <1>2, <3>1, <3>2 DEF WellNamed
  <2> QED
    BY <2>1, <2>2 DEF NamesUnderWay
<1>7. ConnectsAreSignedIn'
  BY <1>1 DEF ConnectsAreSignedIn, SignedIn, Linked
<1>8. LatestIsStored'
  BY <1>1 DEF LatestIsStored, Linked
<1> QED
  BY <1>2, <1>5, <1>6, <1>7, <1>8

\* A signup inserts its user under the name it has, or a free one.
LEMMA InsertUserKeeps ==
    ASSUME IInv, NEW w \in Worker, InsertUser(w)
    PROVE  IInv'
<1> USE NoneAssumption DEF IInv
<1>1. PICK u \in User, n \in Username :
        /\ job[w].pc = "insert" /\ ~Exists(u) /\ ~Taken(n)
        /\ IF job[w].username = None THEN n \in Name ELSE n = job[w].username
        /\ auth_user' = [auth_user EXCEPT ![u] = n]
        /\ job' = [job EXCEPT ![w].pc = "link", ![w].user = u]
        /\ UNCHANGED <<settings, local, account, oldest_account, signedUp>>
  BY DEF InsertUser
<1>2. /\ auth_user' \in [User -> Username \union {None}]
      /\ auth_user'[u] = n
      /\ \A v \in User : Exists(v) => v # u /\ Exists(v)'
                                      /\ auth_user'[v] = auth_user[v]
      /\ \A v, x \in User :
           auth_user'[v] # None /\ auth_user'[v] = auth_user'[x] => v = x
      /\ \A m \in Username : Taken(m) => Taken(m)'
      /\ OwnNameHolders'
      /\ SignedUpNames'
  BY <1>1, UserAdded
<1>3. Exists(u)'
  BY <1>2 DEF Exists
<1>4. /\ job \in [Worker -> Job]
      /\ \A v \in Worker : JobOK(job[v])
  BY DEF TypeOK, JobOK
<1> DEFINE j == [job[w] EXCEPT !.pc = "link", !.user = u]
<1>5. /\ j \in Job /\ j.pc = "link" /\ j.user = u /\ j.sub = job[w].sub
      /\ j.data = job[w].data
  BY <1>4 DEF Job, PC
<1>6. job' = [job EXCEPT ![w] = j]
  BY <1>1
<1> HIDE DEF j
<1>7. /\ DOMAIN job' = Worker
      /\ \A v \in Worker : job'[v] = IF v = w THEN j ELSE job[v]
  BY <1>4, <1>6
<1>8. TypeOK'
  <2>1. \A v \in Worker \ {w} : job'[v] \in Job /\ JobOK(job[v])'
    BY <1>1, <1>2, <1>4, <1>7 DEF JobOK, Job
  <2>2. JobOK(job[w])'
    BY <1>1, <1>3, <1>4, <1>5, <1>7 DEF JobOK
  <2>3. job' \in [Worker -> Job]
    BY <1>4, <1>5, <1>6
  <2>4. \A s \in Sub : account[s] # None => auth_user'[account[s].user] # None
    BY <1>2 DEF TypeOK, SocialAccount, Exists
  <2>5. local' \subseteq {v \in User : Exists(v)'}
    BY <1>1, <1>2 DEF TypeOK
  <2> QED
    BY <1>1, <1>2, <2>1, <2>2, <2>3, <2>4, <2>5, OldestKept
       DEF TypeOK, JobOK, OldestOK, Exists
<1>9. NamesUnderWay'
  <2>1. \A v \in local' : auth_user'[v] \in Name
    BY <1>1, <1>2 DEF NamesUnderWay, TypeOK
  <2>2. ASSUME NEW v \in Worker \ {w},
               job[v].pc \in {"lookup", "clean", "insert", "link"}
        PROVE  WellNamed(job[v])'
    <3>1. WellNamed(job[v]) /\ OwnName(job[v].sub) \in Username
      BY <1>4, <2>2 DEF NamesUnderWay, JobOK, Username
    <3>2. job[v].pc = "link" => auth_user'[job[v].user] = auth_user[job[v].user]
      BY <1>2, <1>4 DEF JobOK, Job
    <3>3. job'[v] = job[v]
      BY <1>7
    <3> QED
      BY <1>1, <1>2, <3>1, <3>2, <3>3 DEF WellNamed
  <2>3. WellNamed(job[w])'
    <3>1. WellNamed(job[w]) /\ OwnName(job[w].sub) \in Username
      BY <1>1, <1>4 DEF NamesUnderWay, JobOK, Username
    <3>2. job'[w].pc = "link" /\ job'[w].user = u /\ job'[w].sub = job[w].sub
      BY <1>5, <1>7
    <3> QED
      BY <1>1, <1>2, <3>1, <3>2 DEF WellNamed, Username
  <2>4. \A v \in Worker \ {w} : job'[v].pc = job[v].pc
    BY <1>7
  <2> QED
    BY <2>1, <2>2, <2>3, <2>4 DEF NamesUnderWay, WellNamed
<1>10. ConnectsAreSignedIn'
  <2>1. \A v \in Worker : SignedIn(job'[v])
    BY <1>5, <1>7 DEF ConnectsAreSignedIn, SignedIn
  <2> QED
    BY <1>1, <2>1 DEF ConnectsAreSignedIn, SignedIn, Linked
<1>11. LatestIsStored'
  BY <1>1, <1>5, <1>7 DEF LatestIsStored, Linked
<1> QED
  BY <1>2, <1>8, <1>9, <1>10, <1>11

\* A signup or a connect gives a portal user its account.
LEMMA InsertAccountKeeps ==
    ASSUME IInv, NEW w \in Worker, InsertAccount(w)
    PROVE  IInv'
<1> USE NoneAssumption, NameAssumption DEF IInv
<1> DEFINE s == job[w].sub
           x == job[w].user
           j == [job[w] EXCEPT !.pc = "synced", !.latest = TRUE]
<1>1. /\ job \in [Worker -> Job]
      /\ \A v \in Worker : JobOK(job[v])
  BY DEF TypeOK, JobOK
<1>2. /\ s \in Sub /\ account[s] = None /\ x \in User /\ Exists(x)
      /\ job[w].data \in ExtraData /\ job[w].pc \in {"link", "connect"}
      /\ UNCHANGED <<settings, auth_user, local>> /\ Stored(w, j)
      /\ oldest_account' = [oldest_account EXCEPT ![x] = IF @ = None THEN s ELSE @]
  <2>1. /\ account[s] = None /\ job[w].pc \in {"link", "connect"}
        /\ UNCHANGED <<settings, auth_user, local>> /\ Stored(w, j)
        /\ oldest_account' = [oldest_account EXCEPT ![x] = IF @ = None THEN s ELSE @]
    BY DEF InsertAccount
  <2>2. JobOK(job[w])
    BY <1>1
  <2> QED
    BY <2>1, <2>2 DEF JobOK, Job
<1>3. /\ j \in Job /\ j.pc = "synced" /\ j.sub = s /\ j.data = job[w].data
      /\ j.user = x
  <2>1. job[w] \in Job /\ "synced" \in PC
    BY <1>1 DEF PC
  <2> QED
    BY <2>1 DEF Job
<1>4. /\ account' \in [Sub -> SocialAccount \union {None}]
      /\ account'[s] # None /\ account'[s].user = x
      /\ account'[s].extra_data = job[w].data
      /\ \A t \in Sub \ {s} : account'[t] = account[t]
  <2> DEFINE row == [user |-> x, extra_data |-> job[w].data]
  <2>1. row \in SocialAccount /\ row.user = x /\ row.extra_data = job[w].data
    BY <1>2 DEF SocialAccount
  <2>2. account' = [account EXCEPT ![s] = row]
    BY DEF InsertAccount
  <2> HIDE DEF row
  <2> QED
    BY <1>2, <2>1, <2>2 DEF TypeOK
<1>5. \A u \in User :
        Linked(u)' = IF u = x THEN Linked(u) \union {s} ELSE Linked(u)
  BY <1>2, <1>4 DEF Linked
<1>6. s \notin signedUp /\ \A u \in User : s \notin Linked(u)
  BY <1>2 DEF TypeOK, Linked
<1>7. /\ DOMAIN job' = Worker
      /\ job'[w] = j
      /\ \A v \in Worker \ {w} :
           /\ job'[v] \in Job
           /\ job'[v].pc = job[v].pc
           /\ job'[v].sub = job[v].sub
           /\ job'[v].data = job[v].data
           /\ job'[v].username = job[v].username
           /\ job'[v].user = job[v].user
           /\ job'[v].latest = (job[v].latest /\ job[v].sub # job[w].sub)
  BY <1>1, <1>2, StoredJobs
<1>8. /\ signedUp' \subseteq signedUp \union {s}
      /\ s \in signedUp' => job[w].pc = "link" /\ strategy = "sub_at_issuer"
  BY <1>6 DEF InsertAccount
<1> HIDE DEF j, s, x
<1>9. TypeOK'
  <2>1. job' \in [Worker -> Job]
    BY <1>2, <1>3, <1>7 DEF Stored
  <2>2. \A v \in Worker : JobOK(job'[v])
    <3>1. JobOK(j)
      BY <1>1, <1>2, <1>3 DEF JobOK, s, x
    <3>2. \A v \in Worker \ {w} : JobOK(job'[v])
      BY <1>1, <1>7 DEF JobOK
    <3> QED
      BY <1>7, <3>1, <3>2
  <2>3. \A t \in Sub : account'[t] # None => Exists(account'[t].user)
    BY <1>2, <1>4 DEF TypeOK
  <2>4. signedUp' \subseteq {t \in Sub : account'[t] # None}
    BY <1>2, <1>4, <1>8 DEF TypeOK
  <2>5. strategy' \in Strategy /\ layout' \in Layout
    BY <1>2 DEF TypeOK
  <2>6. OldestOK'
    BY <1>2, <1>5 DEF TypeOK, OldestOK
  <2> QED
    BY <1>2, <1>4, <2>1, <2>2, <2>3, <2>4, <2>5, <2>6
       DEF TypeOK, JobOK, OldestOK, Exists
<1>10. NamesUnderWay'
  <2>1. \A v \in Worker : WellNamed(job'[v])
    BY <1>3, <1>7 DEF NamesUnderWay, WellNamed
  <2> QED
    BY <1>2, <2>1 DEF NamesUnderWay, WellNamed, Taken
<1>11. ConnectsAreSignedIn'
  <2>1. \A v \in Worker : SignedIn(job'[v])
    BY <1>3, <1>7 DEF ConnectsAreSignedIn, SignedIn
  <2>2. \A v \in Worker : job'[v].user # None => job'[v].user \in User
    BY <1>2, <1>3, <1>7 DEF Job
  <2>3. \A u \in User : Linked(u) # {} => Linked(u)' # {}
    BY <1>5
  <2> QED
    BY <1>2, <2>1, <2>2, <2>3 DEF ConnectsAreSignedIn, SignedIn
<1>12. job[w].pc = "link" => IF strategy = "preferred_username"
                             THEN auth_user[x] \in Name
                             ELSE \/ auth_user[x] = OwnName(s)
                                  \/ auth_user[x] \in Name /\ Taken(OwnName(s))
  BY <1>2 DEF NamesUnderWay, WellNamed, Exists, s, x
<1>13. OwnNameHolders'
  <2> SUFFICES ASSUME NEW t \in Sub, auth_user[x] = OwnName(t), Linked(x) = {}
               PROVE  t = s
    BY <1>2, <1>5, <1>6 DEF OwnNameHolders
  <2>1. auth_user[x] \notin Name
    OBVIOUS
  <2>2. job[w].pc = "link"
    BY <1>2, <2>1 DEF ConnectsAreSignedIn, SignedIn, NamesUnderWay, x
  <2>3. OwnName(t) = OwnName(s)
    BY <1>12, <2>1, <2>2
  <2> QED
    BY <2>3 DEF OwnName
<1>14. SignedUpNames'
  <2>1. ASSUME NEW t \in signedUp', t # s
        PROVE  \/ auth_user[account'[t].user] = OwnName(t)
               \/ auth_user[account'[t].user] \in Name /\ Taken(OwnName(t))
    BY <1>4, <1>8, <2>1 DEF SignedUpNames, TypeOK
  <2>2. ASSUME s \in signedUp'
        PROVE  \/ auth_user[account'[s].user] = OwnName(s)
               \/ auth_user[account'[s].user] \in Name /\ Taken(OwnName(s))
    BY <1>4, <1>8, <1>12, <2>2
  <2> QED
    BY <1>2, <2>1, <2>2 DEF SignedUpNames, Taken
<1>15. LatestIsStored'
  <2>1. ASSUME NEW v \in Worker \ {w}, job'[v].pc = "synced"
        PROVE  /\ job'[v].sub \in Sub
               /\ account'[job'[v].sub] # None
               /\ account'[job'[v].sub].user = job'[v].user
               /\ job'[v].latest =>
                    account'[job'[v].sub].extra_data = job'[v].data
    <3>1. /\ job[v].sub \in Sub
          /\ account[job[v].sub] # None
          /\ account[job[v].sub].user = job[v].user
          /\ job[v].latest => account[job[v].sub].extra_data = job[v].data
      BY <1>7, <2>1 DEF LatestIsStored, Linked
    <3>2. job'[v].latest => job[v].latest
      BY <1>7
    <3>3. /\ job'[v].sub = job[v].sub /\ job'[v].user = job[v].user
          /\ job'[v].data = job[v].data
      BY <1>7
    <3> QED
      BY <1>2, <1>4, <3>1, <3>2, <3>3
  <2> QED
    BY <1>2, <1>3, <1>4, <1>7, <2>1 DEF LatestIsStored, Linked
<1> QED
  BY <1>9, <1>10, <1>11, <1>13, <1>14, <1>15

\* Every step, of any login, local signup or restart, keeps the invariant.
LEMMA NextInv == IInv /\ [Next]_vars => IInv'
<1> SUFFICES ASSUME IInv, [Next]_vars PROVE IInv'
  OBVIOUS
<1>1. CASE \E w \in Worker :
             \/ \E s \in Sub, n \in Name, u \in User \union {None} :
                  StartLogin(w, s, n, u)
             \/ LoginStep(w)
             \/ RequestEnds(w)
  BY <1>1, LoginMovesOn, LookupKeeps, InsertUserKeeps, InsertAccountKeeps
     DEF LoginStep
<1>2. CASE \E u \in User, n \in Name : LocalSignup(u, n)
  BY <1>2, LocalSignupKeeps
<1>3. CASE AdoptStrategy
  <2> USE NoneAssumption DEF IInv
  <2>1. /\ job' = [w \in Worker |-> Idle] /\ strategy' = "sub_at_issuer"
        /\ UNCHANGED <<layout, rows>>
    BY <1>3 DEF AdoptStrategy
  <2>2. JobOK(Idle)' /\ Idle.pc = "idle"
    BY IdleOK, <2>1 DEF JobOK, Exists, Idle
  <2>3. TypeOK'
    BY <2>1, <2>2, OldestKept DEF TypeOK, JobOK, OldestOK, Strategy, Exists
  <2>4. NamesUnderWay' /\ ConnectsAreSignedIn' /\ LatestIsStored'
    BY <2>1, <2>2 DEF NamesUnderWay, WellNamed, ConnectsAreSignedIn, SignedIn,
                      LatestIsStored
  <2>5. OwnNameHolders' /\ SignedUpNames'
    BY <2>1 DEF OwnNameHolders, SignedUpNames, Linked, Taken
  <2> QED
    BY <2>3, <2>4, <2>5
<1>4. CASE UNCHANGED vars
  BY <1>4 DEF vars, IInv, TypeOK, Exists, NamesUnderWay, WellNamed, Taken,
              ConnectsAreSignedIn, SignedIn, OwnNameHolders, SignedUpNames,
              LatestIsStored, Linked
<1> QED
  BY <1>1, <1>2, <1>3, <1>4 DEF Next

\* So it holds throughout.
LEMMA InvariantHolds == Spec => []IInv
  BY InitInv, NextInv, PTL DEF Spec

\* Every row and job keeps its type, usernames stay unique, and an account
\* belongs to a user that exists, whatever signups run at once and stop.
THEOREM TypeCorrect == Spec => []TypeOK
<1>1. IInv => TypeOK
  BY DEF IInv
<1> QED
  BY <1>1, InvariantHolds, PTL

\* No signup under sub_at_issuer ends in a username made of another user's sub:
\* the "collision-free" half of the README's stable usernames.
THEOREM OwnNamesUnshared == Spec => []OwnNamesNotShared
<1>1. IInv => OwnNamesNotShared
  <2> SUFFICES ASSUME IInv, NEW s \in signedUp, NEW t \in Sub,
                      auth_user[account[s].user] = OwnName(t)
               PROVE  s = t
    BY DEF OwnNamesNotShared
  <2>1. auth_user[account[s].user] = OwnName(s)
    BY NameAssumption DEF IInv, SignedUpNames
  <2> QED
    BY <2>1 DEF OwnName
<1> QED
  BY <1>1, InvariantHolds, PTL

\* The "stable" half: who signs up under sub_at_issuer is called by its sub,
\* unless a signup of that sub that stopped half way has the name.
THEOREM SignupsKeepName == Spec => []SignupsKeepOwnName
<1>1. IInv => SignupsKeepOwnName
  <2> SUFFICES ASSUME IInv, NEW s \in signedUp,
                      auth_user[account[s].user] # OwnName(s)
               PROVE  \E u \in User : Linked(u) = {} /\ auth_user[u] = OwnName(s)
    BY DEF SignupsKeepOwnName
  <2>1. s \in Sub
    BY DEF IInv, TypeOK
  <2>2. PICK u \in User : auth_user[u] = OwnName(s)
    BY DEF IInv, SignedUpNames, Taken
  <2>3. ~ (s \in Linked(u))
    BY <2>2 DEF Linked
  <2> QED
    BY <2>1, <2>2, <2>3 DEF IInv, OwnNameHolders
<1> QED
  BY <1>1, InvariantHolds, PTL

\* The claims a login hands to its receivers are those the pages read back,
\* until another request of that portal user stores its own, whichever layout
\* allauth stores them in: both merges agree there. It is said of the oldest
\* account of a user, the one that pages read.
THEOREM SyncedClaimsReadBack == Spec => []SyncedClaimsAreShown
<1>1. IInv => SyncedClaimsAreShown
  <2> SUFFICES ASSUME IInv, NEW w \in Worker,
                      job[w].pc = "synced", job[w].latest,
                      oldest_account[job[w].user] = job[w].sub
               PROVE  PortalUser(job[w].user) = SyncedClaims(w)
    BY DEF SyncedClaimsAreShown
  <2>1. /\ job[w].sub \in Sub
        /\ account[job[w].sub].extra_data = job[w].data
        /\ job[w].data \in ExtraData
    BY DEF IInv, TypeOK, LatestIsStored, Linked
  <2>2. \A d \in ExtraData : ExtractClaims(d) = MergeClaims(d)
    BY NoneAssumption
       DEF ExtraData, Containers, CommonName, Claim, ExtractClaims, MergeClaims,
           Update, Username
  <2> QED
    BY <2>1, <2>2, NoneAssumption DEF PortalUser, GetClaims, SyncedClaims
<1> QED
  BY <1>1, InvariantHolds, PTL
=============================================================================
