-------------------------- MODULE GroupSyncProofs --------------------------
(* Proofs about GroupSync for any groups, namespace, flag groups and logins. *)
EXTENDS GroupSync, TLAPS

-----------------------------------------------------------------------------
(* The inductive invariant, in parts. *)

\* Each branch is taken under its own configuration.
Branches ==
    \A w \in Worker :
        /\ job[w].pc \in {"stale", "remove", "add"} => group_prefix
        /\ job[w].pc \in {"read", "apply"} => ~group_prefix

\* The rows a step is about to add exist.
RowsResolved ==
    \A w \in Worker :
        /\ job[w].pc \in {"read", "apply"} => job[w].claims \subseteq auth_group
        /\ job[w].pc = "add" => ManagedClaims(w) \subseteq auth_group

\* What is about to be removed is in the namespace and not in the claim.
StaleIsManaged ==
    \A w \in Worker :
        job[w].pc = "remove" => job[w].found \subseteq Prefixed \ job[w].claims

SteadyIsClaimed ==
    \A w \in Worker : job[w].pc # "idle" => steady \subseteq job[w].claims

\* How far a sync has come with the groups and flags that are not disputed: if
\* it is on its way to change one, nobody else has changed it the other way.
Progress(w) ==
    LET sure == job[w].undisputed
        claims == job[w].claims
    IN  /\ \A f \in Configured : FlagGroups[f] \subseteq sure
             => flags[f] \in {job[w].user[f], Desired(w, f)}
        /\ job[w].pc = "remove" =>
             (sure \intersect user_groups \intersect Prefixed) \ claims
                \subseteq job[w].found
        /\ job[w].pc \in {"resolve", "add"} /\ group_prefix =>
             sure \intersect user_groups \intersect Prefixed \subseteq claims
        /\ job[w].pc = "apply" => \A g \in sure :
             IF g \in claims THEN g \in job[w].found => g \in user_groups
                            ELSE g \in user_groups => g \in job[w].found
        /\ job[w].pc = "flags" => \A g \in sure \intersect Managed :
             g \in user_groups <=> g \in claims

ClaimsProgress == \A w \in Worker : Progress(w)

IInv ==
    /\ TypeOK
    /\ Branches
    /\ RowsResolved
    /\ StaleIsManaged
    /\ SteadyIsClaimed
    /\ SteadyGroupsKept
    /\ ClaimsProgress

-----------------------------------------------------------------------------
\* w's job is j now; the others are what they were, but for what is disputed.
Advanced(w, j, wrote) ==
    /\ job' \in [Worker -> Job]
    /\ job'[w] = j
    /\ \A v \in Worker \ {w} :
        /\ job'[v].pc = job[v].pc /\ job'[v].claims = job[v].claims
        /\ job'[v].user = job[v].user /\ job'[v].found = job[v].found
        /\ job'[v].undisputed = IF wrote THEN job[v].undisputed \ Disputed(v, w)
                                ELSE job[v].undisputed

LEMMA AdvanceJob ==
    ASSUME job \in [Worker -> Job], NEW w \in Worker, NEW j \in Job,
           NEW wrote \in BOOLEAN, Advance(w, j, wrote)
    PROVE  Advanced(w, j, wrote)
BY DEF Advance, Advanced, Job

\* What undoes no progress of v: nobody changes a group or a flag that v is sure
\* of, except to what v claims too.
LEMMA ProgressKept ==
    ASSUME NEW v \in Worker, Progress(v), UNCHANGED group_prefix,
           job'[v].pc = job[v].pc, job'[v].claims = job[v].claims,
           job'[v].user = job[v].user, job'[v].found = job[v].found,
           job'[v].undisputed \subseteq job[v].undisputed,
           \A g \in job'[v].undisputed :
             \/ g \in user_groups' <=> g \in user_groups
             \/ g \in user_groups' <=> g \in job[v].claims,
           \A f \in Configured : FlagGroups[f] \subseteq job'[v].undisputed
             => flags'[f] \in {flags[f], Desired(v, f)}
    PROVE  Progress(v)'
<1>1. \A f \in Configured : FlagGroups[f] \subseteq job'[v].undisputed
        => flags'[f] \in {job'[v].user[f], Desired(v, f)'}
  BY DEF Progress, Desired
<1>2. job'[v].pc = "flags" => \A g \in job'[v].undisputed \intersect Managed' :
        g \in user_groups' <=> g \in job'[v].claims
  BY DEF Progress, Managed
<1>3. /\ job'[v].pc = "remove" =>
           (job'[v].undisputed \intersect user_groups' \intersect Prefixed)
              \ job'[v].claims \subseteq job'[v].found
      /\ job'[v].pc \in {"resolve", "add"} /\ group_prefix' =>
           job'[v].undisputed \intersect user_groups' \intersect Prefixed
              \subseteq job'[v].claims
  BY DEF Progress
<1>4. job'[v].pc = "apply" => \A g \in job'[v].undisputed :
        IF g \in job'[v].claims THEN g \in job'[v].found => g \in user_groups'
                               ELSE g \in user_groups' => g \in job'[v].found
  BY DEF Progress
<1> QED
  BY <1>1, <1>2, <1>3, <1>4 DEF Progress, Configured

LEMMA InitInv == Init => IInv
<1> SUFFICES ASSUME Init PROVE IInv
  OBVIOUS
<1>1. \A w \in Worker : job[w] = Idle
  BY DEF Init
<1>2. TypeOK
  BY GroupAssumption DEF Init, TypeOK, Idle, Job, PC, Flag
<1>3. ClaimsProgress
  BY <1>1 DEF ClaimsProgress, Progress, Configured, Idle
<1> QED
  BY <1>1, <1>2, <1>3 DEF IInv, Init, Branches, RowsResolved, StaleIsManaged,
                          SteadyIsClaimed, SteadyGroupsKept, Idle

LEMMA FetchClaimsInv ==
    ASSUME IInv, NEW w \in Worker, FetchClaims(w)
    PROVE  IInv'
<1> USE GroupAssumption DEF IInv
<1>1. Advanced(w, [Idle EXCEPT !.pc = "load", !.claims = portal_groups], FALSE)
  <2>1. [Idle EXCEPT !.pc = "load", !.claims = portal_groups] \in Job
    BY DEF TypeOK, Job, PC, Flag, Idle
  <2> QED
    BY <2>1, AdvanceJob DEF FetchClaims, TypeOK
<1>2. /\ job[w].pc = "idle"
      /\ job'[w].pc = "load"
      /\ job'[w].claims = portal_groups
      /\ job'[w].user = [f \in Flag |-> FALSE]
      /\ job'[w].found = {}
      /\ job'[w].undisputed = {}
  BY <1>1 DEF FetchClaims, Advanced, TypeOK, Job, Idle
<1>3. \A v \in Worker \ {w} :
        /\ job'[v].pc = job[v].pc /\ job'[v].claims = job[v].claims
        /\ job'[v].user = job[v].user /\ job'[v].found = job[v].found
        /\ job'[v].undisputed = job[v].undisputed
  BY <1>1 DEF Advanced
<1>4. /\ UNCHANGED <<group_prefix, portal_groups, auth_group, user_groups, flags>>
      /\ steady' = steady \intersect portal_groups
  BY DEF FetchClaims
<1>5. job' \in [Worker -> Job]
  BY <1>1 DEF Advanced
<1>6. TypeOK'
  BY <1>2, <1>4, <1>5 DEF TypeOK, RowsResolved, StaleIsManaged
<1>7. Branches'
  BY <1>2, <1>3, <1>4 DEF Branches
<1>8. RowsResolved'
  BY <1>2, <1>3, <1>4 DEF RowsResolved, Branches, ManagedClaims, Managed
<1>9. StaleIsManaged'
  BY <1>2, <1>3, <1>4 DEF StaleIsManaged
<1>10. SteadyIsClaimed'
  BY <1>2, <1>3, <1>4 DEF SteadyIsClaimed, SteadyGroupsKept
<1>11. SteadyGroupsKept'
  BY <1>2, <1>3, <1>4 DEF SteadyGroupsKept, SteadyIsClaimed, StaleIsManaged
<1>12. ClaimsProgress'
  <2>1. \A v \in Worker \ {w} : Progress(v)'
    BY <1>3, <1>4, ProgressKept DEF ClaimsProgress
  <2>2. Progress(w)'
    BY <1>2, <1>4 DEF ClaimsProgress, Progress, Branches, Configured, Desired,
                      Managed, TypeOK
  <2> QED
    BY <2>1, <2>2 DEF ClaimsProgress
<1> QED
  BY <1>6, <1>7, <1>8, <1>9, <1>10, <1>11, <1>12

LEMMA LoadUserInv ==
    ASSUME IInv, NEW w \in Worker, LoadUser(w)
    PROVE  IInv'
<1> USE GroupAssumption DEF IInv
<1>1. Advanced(w, [job[w] EXCEPT !.pc = IF group_prefix THEN "stale" ELSE "resolve",
                        !.user = flags, !.undisputed = Group], FALSE)
  <2>1. [job[w] EXCEPT !.pc = IF group_prefix THEN "stale" ELSE "resolve",
                        !.user = flags, !.undisputed = Group] \in Job
    BY DEF TypeOK, Job, PC, Flag
  <2> QED
    BY <2>1, AdvanceJob DEF LoadUser, TypeOK
<1>2. /\ job[w].pc = "load"
      /\ job'[w].pc = (IF group_prefix THEN "stale" ELSE "resolve")
      /\ job'[w].claims = job[w].claims
      /\ job'[w].user = flags
      /\ job'[w].found = job[w].found
      /\ job'[w].undisputed = Group
  BY <1>1 DEF LoadUser, Advanced, TypeOK, Job
<1>3. \A v \in Worker \ {w} :
        /\ job'[v].pc = job[v].pc /\ job'[v].claims = job[v].claims
        /\ job'[v].user = job[v].user /\ job'[v].found = job[v].found
        /\ job'[v].undisputed = job[v].undisputed
  BY <1>1 DEF Advanced
<1>4. /\ UNCHANGED <<group_prefix, portal_groups, auth_group, user_groups, flags, steady>>
  BY DEF LoadUser
<1>5. job' \in [Worker -> Job]
  BY <1>1 DEF Advanced
<1>6. TypeOK'
  BY <1>2, <1>4, <1>5 DEF TypeOK, RowsResolved, StaleIsManaged
<1>7. Branches'
  BY <1>2, <1>3, <1>4 DEF Branches
<1>8. RowsResolved'
  BY <1>2, <1>3, <1>4 DEF RowsResolved, Branches, ManagedClaims, Managed
<1>9. StaleIsManaged'
  BY <1>2, <1>3, <1>4 DEF StaleIsManaged
<1>10. SteadyIsClaimed'
  BY <1>2, <1>3, <1>4 DEF SteadyIsClaimed, SteadyGroupsKept
<1>11. SteadyGroupsKept'
  BY <1>2, <1>3, <1>4 DEF SteadyGroupsKept, SteadyIsClaimed, StaleIsManaged
<1>12. ClaimsProgress'
  <2>1. \A v \in Worker \ {w} : Progress(v)'
    BY <1>3, <1>4, ProgressKept DEF ClaimsProgress
  <2>2. Progress(w)'
    BY <1>2, <1>4 DEF ClaimsProgress, Progress, Branches, Configured, Desired,
                      Managed, TypeOK
  <2> QED
    BY <2>1, <2>2 DEF ClaimsProgress
<1> QED
  BY <1>6, <1>7, <1>8, <1>9, <1>10, <1>11, <1>12

LEMMA ReadStaleInv ==
    ASSUME IInv, NEW w \in Worker, ReadStale(w)
    PROVE  IInv'
<1> USE GroupAssumption DEF IInv
<1>1. Advanced(w, [job[w] EXCEPT !.pc = "remove",
                        !.found = (user_groups \intersect Prefixed) \ job[w].claims], FALSE)
  <2>1. [job[w] EXCEPT !.pc = "remove",
                        !.found = (user_groups \intersect Prefixed) \ job[w].claims] \in Job
    BY DEF TypeOK, Job, PC, Flag
  <2> QED
    BY <2>1, AdvanceJob DEF ReadStale, TypeOK
<1>2. /\ job[w].pc = "stale"
      /\ job'[w].pc = "remove"
      /\ job'[w].claims = job[w].claims
      /\ job'[w].user = job[w].user
      /\ job'[w].found = (user_groups \intersect Prefixed) \ job[w].claims
      /\ job'[w].undisputed = job[w].undisputed
  BY <1>1 DEF ReadStale, Advanced, TypeOK, Job
<1>3. \A v \in Worker \ {w} :
        /\ job'[v].pc = job[v].pc /\ job'[v].claims = job[v].claims
        /\ job'[v].user = job[v].user /\ job'[v].found = job[v].found
        /\ job'[v].undisputed = job[v].undisputed
  BY <1>1 DEF Advanced
<1>4. /\ UNCHANGED <<group_prefix, portal_groups, auth_group, user_groups, flags, steady>>
  BY DEF ReadStale
<1>5. job' \in [Worker -> Job]
  BY <1>1 DEF Advanced
<1>6. TypeOK'
  BY <1>2, <1>4, <1>5 DEF TypeOK, RowsResolved, StaleIsManaged
<1>7. Branches'
  BY <1>2, <1>3, <1>4 DEF Branches
<1>8. RowsResolved'
  BY <1>2, <1>3, <1>4 DEF RowsResolved, Branches, ManagedClaims, Managed
<1>9. StaleIsManaged'
  BY <1>2, <1>3, <1>4 DEF StaleIsManaged
<1>10. SteadyIsClaimed'
  BY <1>2, <1>3, <1>4 DEF SteadyIsClaimed, SteadyGroupsKept
<1>11. SteadyGroupsKept'
  BY <1>2, <1>3, <1>4 DEF SteadyGroupsKept, SteadyIsClaimed, StaleIsManaged
<1>12. ClaimsProgress'
  <2>1. \A v \in Worker \ {w} : Progress(v)'
    BY <1>3, <1>4, ProgressKept DEF ClaimsProgress
  <2>2. Progress(w)'
    BY <1>2, <1>4 DEF ClaimsProgress, Progress, Branches, Configured, Desired,
                      Managed, TypeOK
  <2> QED
    BY <2>1, <2>2 DEF ClaimsProgress
<1> QED
  BY <1>6, <1>7, <1>8, <1>9, <1>10, <1>11, <1>12

LEMMA RemoveStaleInv ==
    ASSUME IInv, NEW w \in Worker, RemoveStale(w)
    PROVE  IInv'
<1> USE GroupAssumption DEF IInv
<1>1. Advanced(w, [job[w] EXCEPT !.pc = "resolve", !.found = {}], user_groups' # user_groups)
  <2>1. [job[w] EXCEPT !.pc = "resolve", !.found = {}] \in Job
    BY DEF TypeOK, Job, PC, Flag
  <2> QED
    BY <2>1, AdvanceJob DEF RemoveStale, TypeOK
<1>2. /\ job[w].pc = "remove"
      /\ job'[w].pc = "resolve"
      /\ job'[w].claims = job[w].claims
      /\ job'[w].user = job[w].user
      /\ job'[w].found = {}
      /\ job'[w].undisputed = job[w].undisputed
  BY <1>1 DEF RemoveStale, Advanced, TypeOK, Job
<1>3. \A v \in Worker \ {w} :
        /\ job'[v].pc = job[v].pc /\ job'[v].claims = job[v].claims
        /\ job'[v].user = job[v].user /\ job'[v].found = job[v].found
        /\ job'[v].undisputed = IF user_groups' # user_groups
                                THEN job[v].undisputed \ Disputed(v, w)
                                ELSE job[v].undisputed
  BY <1>1 DEF Advanced
<1>4. /\ UNCHANGED <<group_prefix, portal_groups, auth_group, flags, steady>>
      /\ user_groups' = user_groups \ job[w].found
  BY DEF RemoveStale
<1>5. job' \in [Worker -> Job]
  BY <1>1 DEF Advanced
<1>6. TypeOK'
  BY <1>2, <1>4, <1>5 DEF TypeOK, RowsResolved, StaleIsManaged
<1>7. Branches'
  BY <1>2, <1>3, <1>4 DEF Branches
<1>8. RowsResolved'
  BY <1>2, <1>3, <1>4 DEF RowsResolved, Branches, ManagedClaims, Managed
<1>9. StaleIsManaged'
  BY <1>2, <1>3, <1>4 DEF StaleIsManaged
<1>10. SteadyIsClaimed'
  BY <1>2, <1>3, <1>4 DEF SteadyIsClaimed, SteadyGroupsKept
<1>11. SteadyGroupsKept'
  BY <1>2, <1>3, <1>4 DEF SteadyGroupsKept, SteadyIsClaimed, StaleIsManaged
<1>12. ClaimsProgress'
  <2>1. ASSUME NEW v \in Worker \ {w}
        PROVE  Progress(v)'
    <3>1. /\ job'[v].undisputed \subseteq job[v].undisputed
          /\ user_groups' # user_groups => \A g \in job'[v].undisputed :
                g \in job[v].claims <=> g \in job[w].claims
      BY <1>3, <2>1 DEF Disputed
    <3>2. \A g \in Group :
            \/ g \in user_groups' <=> g \in user_groups
            \/ g \in user_groups' <=> g \in job[w].claims
      BY <1>2, <1>4 DEF StaleIsManaged
    <3>3. \A g \in job'[v].undisputed :
            \/ g \in user_groups' <=> g \in user_groups
            \/ g \in user_groups' <=> g \in job[v].claims
      BY <1>5, <2>1, <3>1, <3>2 DEF Job
    <3> QED
      BY <1>3, <1>4, <2>1, <3>1, <3>3, ProgressKept DEF ClaimsProgress
  <2>2. Progress(w)'
    <3>1. \A f \in Configured : FlagGroups[f] \subseteq job'[w].undisputed
            => flags'[f] \in {job'[w].user[f], Desired(w, f)'}
      BY <1>2, <1>4 DEF ClaimsProgress, Progress, Desired
    <3> QED
      BY <1>2, <1>4, <3>1 DEF ClaimsProgress, Progress, Branches, Configured,
                              Managed, ManagedClaims, StaleIsManaged, TypeOK, Job
  <2> QED
    BY <2>1, <2>2 DEF ClaimsProgress
<1> QED
  BY <1>6, <1>7, <1>8, <1>9, <1>10, <1>11, <1>12

LEMMA ResolveGroupsInv ==
    ASSUME IInv, NEW w \in Worker, ResolveGroups(w)
    PROVE  IInv'
<1> USE GroupAssumption DEF IInv
<1>1. Advanced(w, [job[w] EXCEPT !.pc = IF group_prefix THEN "add" ELSE "read"], FALSE)
  <2>1. [job[w] EXCEPT !.pc = IF group_prefix THEN "add" ELSE "read"] \in Job
    BY DEF TypeOK, Job, PC, Flag
  <2> QED
    BY <2>1, AdvanceJob DEF ResolveGroups, TypeOK
<1>2. /\ job[w].pc = "resolve"
      /\ job'[w].pc = (IF group_prefix THEN "add" ELSE "read")
      /\ job'[w].claims = job[w].claims
      /\ job'[w].user = job[w].user
      /\ job'[w].found = job[w].found
      /\ job'[w].undisputed = job[w].undisputed
  BY <1>1 DEF ResolveGroups, Advanced, TypeOK, Job
<1>3. \A v \in Worker \ {w} :
        /\ job'[v].pc = job[v].pc /\ job'[v].claims = job[v].claims
        /\ job'[v].user = job[v].user /\ job'[v].found = job[v].found
        /\ job'[v].undisputed = job[v].undisputed
  BY <1>1 DEF Advanced
<1>4. /\ UNCHANGED <<group_prefix, portal_groups, user_groups, flags, steady>>
      /\ auth_group' = auth_group \union ManagedClaims(w)
  BY DEF ResolveGroups
<1>5. job' \in [Worker -> Job]
  BY <1>1 DEF Advanced
<1>6. TypeOK'
  <2>1. ManagedClaims(w) \subseteq Group
    BY DEF TypeOK, ManagedClaims, Job
  <2> QED
    BY <1>4, <1>5, <2>1 DEF TypeOK
<1>7. Branches'
  BY <1>2, <1>3, <1>4 DEF Branches
<1>8. RowsResolved'
  <2>1. job[w].claims \subseteq Group
    BY DEF TypeOK, Job
  <2> QED
    BY <1>2, <1>3, <1>4, <2>1
       DEF RowsResolved, Branches, ManagedClaims, Managed
<1>9. StaleIsManaged'
  BY <1>2, <1>3, <1>4 DEF StaleIsManaged
<1>10. SteadyIsClaimed'
  BY <1>2, <1>3, <1>4 DEF SteadyIsClaimed, SteadyGroupsKept
<1>11. SteadyGroupsKept'
  BY <1>2, <1>3, <1>4 DEF SteadyGroupsKept, SteadyIsClaimed, StaleIsManaged
<1>12. ClaimsProgress'
  <2>1. \A v \in Worker \ {w} : Progress(v)'
    BY <1>3, <1>4, ProgressKept DEF ClaimsProgress
  <2>2. Progress(w)'
    BY <1>2, <1>4 DEF ClaimsProgress, Progress, Branches, Configured, Desired,
                      Managed, TypeOK
  <2> QED
    BY <2>1, <2>2 DEF ClaimsProgress
<1> QED
  BY <1>6, <1>7, <1>8, <1>9, <1>10, <1>11, <1>12

LEMMA ReadMembershipsInv ==
    ASSUME IInv, NEW w \in Worker, ReadMemberships(w)
    PROVE  IInv'
<1> USE GroupAssumption DEF IInv
<1>1. Advanced(w, [job[w] EXCEPT !.pc = "apply", !.found = user_groups], FALSE)
  <2>1. [job[w] EXCEPT !.pc = "apply", !.found = user_groups] \in Job
    BY DEF TypeOK, Job, PC, Flag
  <2> QED
    BY <2>1, AdvanceJob DEF ReadMemberships, TypeOK
<1>2. /\ job[w].pc = "read"
      /\ job'[w].pc = "apply"
      /\ job'[w].claims = job[w].claims
      /\ job'[w].user = job[w].user
      /\ job'[w].found = user_groups
      /\ job'[w].undisputed = job[w].undisputed
  BY <1>1 DEF ReadMemberships, Advanced, TypeOK, Job
<1>3. \A v \in Worker \ {w} :
        /\ job'[v].pc = job[v].pc /\ job'[v].claims = job[v].claims
        /\ job'[v].user = job[v].user /\ job'[v].found = job[v].found
        /\ job'[v].undisputed = job[v].undisputed
  BY <1>1 DEF Advanced
<1>4. /\ UNCHANGED <<group_prefix, portal_groups, auth_group, user_groups, flags, steady>>
  BY DEF ReadMemberships
<1>5. job' \in [Worker -> Job]
  BY <1>1 DEF Advanced
<1>6. TypeOK'
  BY <1>2, <1>4, <1>5 DEF TypeOK, RowsResolved, StaleIsManaged
<1>7. Branches'
  BY <1>2, <1>3, <1>4 DEF Branches
<1>8. RowsResolved'
  BY <1>2, <1>3, <1>4 DEF RowsResolved, Branches, ManagedClaims, Managed
<1>9. StaleIsManaged'
  BY <1>2, <1>3, <1>4 DEF StaleIsManaged
<1>10. SteadyIsClaimed'
  BY <1>2, <1>3, <1>4 DEF SteadyIsClaimed, SteadyGroupsKept
<1>11. SteadyGroupsKept'
  BY <1>2, <1>3, <1>4 DEF SteadyGroupsKept, SteadyIsClaimed, StaleIsManaged
<1>12. ClaimsProgress'
  <2>1. \A v \in Worker \ {w} : Progress(v)'
    BY <1>3, <1>4, ProgressKept DEF ClaimsProgress
  <2>2. Progress(w)'
    BY <1>2, <1>4 DEF ClaimsProgress, Progress, Branches, Configured, Desired,
                      Managed, TypeOK
  <2> QED
    BY <2>1, <2>2 DEF ClaimsProgress
<1> QED
  BY <1>6, <1>7, <1>8, <1>9, <1>10, <1>11, <1>12

LEMMA WriteMembershipsInv ==
    ASSUME IInv, NEW w \in Worker, WriteMemberships(w)
    PROVE  IInv'
<1> USE GroupAssumption DEF IInv
<1>1. Advanced(w, [job[w] EXCEPT !.pc = "flags", !.found = {}], user_groups' # user_groups)
  <2>1. [job[w] EXCEPT !.pc = "flags", !.found = {}] \in Job
    BY DEF TypeOK, Job, PC, Flag
  <2> QED
    BY <2>1, AdvanceJob DEF WriteMemberships, TypeOK
<1>2. /\ job[w].pc = "apply"
      /\ job'[w].pc = "flags"
      /\ job'[w].claims = job[w].claims
      /\ job'[w].user = job[w].user
      /\ job'[w].found = {}
      /\ job'[w].undisputed = job[w].undisputed
  BY <1>1 DEF WriteMemberships, Advanced, TypeOK, Job
<1>3. \A v \in Worker \ {w} :
        /\ job'[v].pc = job[v].pc /\ job'[v].claims = job[v].claims
        /\ job'[v].user = job[v].user /\ job'[v].found = job[v].found
        /\ job'[v].undisputed = IF user_groups' # user_groups
                                THEN job[v].undisputed \ Disputed(v, w)
                                ELSE job[v].undisputed
  BY <1>1 DEF Advanced
<1>4. /\ UNCHANGED <<group_prefix, portal_groups, auth_group, flags, steady>>
      /\ user_groups' = (user_groups \ (job[w].found \ job[w].claims))
                           \union (job[w].claims \ job[w].found)
  BY DEF WriteMemberships
<1>5. job' \in [Worker -> Job]
  BY <1>1 DEF Advanced
<1>6. TypeOK'
  BY <1>2, <1>4, <1>5 DEF TypeOK, RowsResolved, StaleIsManaged
<1>7. Branches'
  BY <1>2, <1>3, <1>4 DEF Branches
<1>8. RowsResolved'
  BY <1>2, <1>3, <1>4 DEF RowsResolved, Branches, ManagedClaims, Managed
<1>9. StaleIsManaged'
  BY <1>2, <1>3, <1>4 DEF StaleIsManaged
<1>10. SteadyIsClaimed'
  BY <1>2, <1>3, <1>4 DEF SteadyIsClaimed, SteadyGroupsKept
<1>11. SteadyGroupsKept'
  BY <1>2, <1>3, <1>4 DEF SteadyGroupsKept, SteadyIsClaimed, StaleIsManaged
<1>12. ClaimsProgress'
  <2>1. ASSUME NEW v \in Worker \ {w}
        PROVE  Progress(v)'
    <3>1. /\ job'[v].undisputed \subseteq job[v].undisputed
          /\ user_groups' # user_groups => \A g \in job'[v].undisputed :
                g \in job[v].claims <=> g \in job[w].claims
      BY <1>3, <2>1 DEF Disputed
    <3>2. \A g \in Group :
            \/ g \in user_groups' <=> g \in user_groups
            \/ g \in user_groups' <=> g \in job[w].claims
      BY <1>2, <1>4 DEF TypeOK
    <3>3. \A g \in job'[v].undisputed :
            \/ g \in user_groups' <=> g \in user_groups
            \/ g \in user_groups' <=> g \in job[v].claims
      BY <1>5, <2>1, <3>1, <3>2 DEF Job
    <3> QED
      BY <1>3, <1>4, <2>1, <3>1, <3>3, ProgressKept DEF ClaimsProgress
  <2>2. Progress(w)'
    <3>1. \A f \in Configured : FlagGroups[f] \subseteq job'[w].undisputed
            => flags'[f] \in {job'[w].user[f], Desired(w, f)'}
      BY <1>2, <1>4 DEF ClaimsProgress, Progress, Desired
    <3> QED
      BY <1>2, <1>4, <3>1 DEF ClaimsProgress, Progress, Branches, Configured,
                              Managed, ManagedClaims, StaleIsManaged, TypeOK, Job
  <2> QED
    BY <2>1, <2>2 DEF ClaimsProgress
<1> QED
  BY <1>6, <1>7, <1>8, <1>9, <1>10, <1>11, <1>12

LEMMA AddGroupsInv ==
    ASSUME IInv, NEW w \in Worker, AddGroups(w)
    PROVE  IInv'
<1> USE GroupAssumption DEF IInv
<1>1. Advanced(w, [job[w] EXCEPT !.pc = "flags"], user_groups' # user_groups)
  <2>1. [job[w] EXCEPT !.pc = "flags"] \in Job
    BY DEF TypeOK, Job, PC, Flag
  <2> QED
    BY <2>1, AdvanceJob DEF AddGroups, TypeOK
<1>2. /\ job[w].pc = "add"
      /\ job'[w].pc = "flags"
      /\ job'[w].claims = job[w].claims
      /\ job'[w].user = job[w].user
      /\ job'[w].found = job[w].found
      /\ job'[w].undisputed = job[w].undisputed
  BY <1>1 DEF AddGroups, Advanced, TypeOK, Job
<1>3. \A v \in Worker \ {w} :
        /\ job'[v].pc = job[v].pc /\ job'[v].claims = job[v].claims
        /\ job'[v].user = job[v].user /\ job'[v].found = job[v].found
        /\ job'[v].undisputed = IF user_groups' # user_groups
                                THEN job[v].undisputed \ Disputed(v, w)
                                ELSE job[v].undisputed
  BY <1>1 DEF Advanced
<1>4. /\ UNCHANGED <<group_prefix, portal_groups, auth_group, flags, steady>>
      /\ user_groups' = user_groups \union ManagedClaims(w)
  BY DEF AddGroups
<1>5. job' \in [Worker -> Job]
  BY <1>1 DEF Advanced
<1>6. TypeOK'
  BY <1>2, <1>4, <1>5 DEF TypeOK, RowsResolved, StaleIsManaged
<1>7. Branches'
  BY <1>2, <1>3, <1>4 DEF Branches
<1>8. RowsResolved'
  BY <1>2, <1>3, <1>4 DEF RowsResolved, Branches, ManagedClaims, Managed
<1>9. StaleIsManaged'
  BY <1>2, <1>3, <1>4 DEF StaleIsManaged
<1>10. SteadyIsClaimed'
  BY <1>2, <1>3, <1>4 DEF SteadyIsClaimed, SteadyGroupsKept
<1>11. SteadyGroupsKept'
  BY <1>2, <1>3, <1>4 DEF SteadyGroupsKept, SteadyIsClaimed, StaleIsManaged
<1>12. ClaimsProgress'
  <2>1. ASSUME NEW v \in Worker \ {w}
        PROVE  Progress(v)'
    <3>1. /\ job'[v].undisputed \subseteq job[v].undisputed
          /\ user_groups' # user_groups => \A g \in job'[v].undisputed :
                g \in job[v].claims <=> g \in job[w].claims
      BY <1>3, <2>1 DEF Disputed
    <3>2. \A g \in Group :
            \/ g \in user_groups' <=> g \in user_groups
            \/ g \in user_groups' <=> g \in job[w].claims
      BY <1>2, <1>4 DEF ManagedClaims
    <3>3. \A g \in job'[v].undisputed :
            \/ g \in user_groups' <=> g \in user_groups
            \/ g \in user_groups' <=> g \in job[v].claims
      BY <1>5, <2>1, <3>1, <3>2 DEF Job
    <3> QED
      BY <1>3, <1>4, <2>1, <3>1, <3>3, ProgressKept DEF ClaimsProgress
  <2>2. Progress(w)'
    <3>1. \A f \in Configured : FlagGroups[f] \subseteq job'[w].undisputed
            => flags'[f] \in {job'[w].user[f], Desired(w, f)'}
      BY <1>2, <1>4 DEF ClaimsProgress, Progress, Desired
    <3> QED
      BY <1>2, <1>4, <3>1 DEF ClaimsProgress, Progress, Branches, Configured,
                              Managed, ManagedClaims, StaleIsManaged, TypeOK, Job
  <2> QED
    BY <2>1, <2>2 DEF ClaimsProgress
<1> QED
  BY <1>6, <1>7, <1>8, <1>9, <1>10, <1>11, <1>12

LEMMA SyncFlagsInv ==
    ASSUME IInv, NEW w \in Worker, SyncFlags(w)
    PROVE  IInv'
<1> USE GroupAssumption DEF IInv
<1>1. Advanced(w, Idle, flags' # flags)
  <2>1. Idle \in Job
    BY DEF TypeOK, Job, PC, Flag, Idle
  <2> QED
    BY <2>1, AdvanceJob DEF SyncFlags, TypeOK
<1>2. /\ job[w].pc = "flags"
      /\ job'[w].pc = "idle"
      /\ job'[w].claims = {}
      /\ job'[w].user = [f \in Flag |-> FALSE]
      /\ job'[w].found = {}
      /\ job'[w].undisputed = {}
  BY <1>1 DEF SyncFlags, Advanced, TypeOK, Job, Idle
<1>3. \A v \in Worker \ {w} :
        /\ job'[v].pc = job[v].pc /\ job'[v].claims = job[v].claims
        /\ job'[v].user = job[v].user /\ job'[v].found = job[v].found
        /\ job'[v].undisputed = IF flags' # flags
                                THEN job[v].undisputed \ Disputed(v, w)
                                ELSE job[v].undisputed
  BY <1>1 DEF Advanced
<1>4. /\ UNCHANGED <<group_prefix, portal_groups, auth_group, user_groups, steady>>
  BY DEF SyncFlags
<1>5. job' \in [Worker -> Job]
  BY <1>1 DEF Advanced
<1>6. TypeOK'
  <2> DEFINE value(f) ==
        IF f \in {g \in Configured : job[w].user[g] # Desired(w, g)}
        THEN Desired(w, f) ELSE flags[f]
  <2>1. flags' = [f \in Flag |-> value(f)]
    BY DEF SyncFlags
  <2>2. \A f \in Flag : Desired(w, f) \in BOOLEAN /\ flags[f] \in BOOLEAN
    BY DEF Desired, TypeOK
  <2>3. \A f \in Flag : value(f) \in BOOLEAN
    BY <2>2
  <2> HIDE DEF value
  <2>4. flags' \in [Flag -> BOOLEAN]
    BY <2>1, <2>3
  <2> QED
    BY <1>4, <1>5, <2>4 DEF TypeOK
<1>7. Branches'
  BY <1>2, <1>3, <1>4 DEF Branches
<1>8. RowsResolved'
  BY <1>2, <1>3, <1>4 DEF RowsResolved, Branches, ManagedClaims, Managed
<1>9. StaleIsManaged'
  BY <1>2, <1>3, <1>4 DEF StaleIsManaged
<1>10. SteadyIsClaimed'
  BY <1>2, <1>3, <1>4 DEF SteadyIsClaimed, SteadyGroupsKept
<1>11. SteadyGroupsKept'
  BY <1>2, <1>3, <1>4 DEF SteadyGroupsKept, SteadyIsClaimed, StaleIsManaged
<1>12. ClaimsProgress'
  <2>1. ASSUME NEW v \in Worker \ {w}
        PROVE  Progress(v)'
    <3>1. /\ job'[v].undisputed \subseteq job[v].undisputed
          /\ flags' # flags => \A g \in job'[v].undisputed :
                g \in job[v].claims <=> g \in job[w].claims
      BY <1>3, <2>1 DEF Disputed
    <3>2. ASSUME NEW f \in Configured, FlagGroups[f] \subseteq job'[v].undisputed
          PROVE  flags'[f] \in {flags[f], Desired(v, f)}
      <4>1. flags'[f] \in {flags[f], Desired(w, f)}
        BY DEF SyncFlags, Configured
      <4>2. flags' # flags => (Desired(w, f) <=> Desired(v, f))
        BY <3>1, <3>2 DEF Desired
      <4>3. Desired(w, f) \in BOOLEAN /\ Desired(v, f) \in BOOLEAN
        BY DEF Desired
      <4> QED
        BY <4>1, <4>2, <4>3
    <3> QED
      BY <1>3, <1>4, <2>1, <3>1, <3>2, ProgressKept DEF ClaimsProgress
  <2>2. Progress(w)'
    BY <1>2 DEF Progress, Configured
  <2> QED
    BY <2>1, <2>2 DEF ClaimsProgress
<1> QED
  BY <1>6, <1>7, <1>8, <1>9, <1>10, <1>11, <1>12

LEMMA RequestEndsInv ==
    ASSUME IInv, NEW w \in Worker, RequestEnds(w)
    PROVE  IInv'
<1> USE GroupAssumption DEF IInv
<1>1. Advanced(w, Idle, FALSE)
  <2>1. Idle \in Job
    BY DEF TypeOK, Job, PC, Flag, Idle
  <2> QED
    BY <2>1, AdvanceJob DEF RequestEnds, TypeOK
<1>2. /\ job[w].pc # "idle"
      /\ job'[w].pc = "idle"
      /\ job'[w].claims = {}
      /\ job'[w].user = [f \in Flag |-> FALSE]
      /\ job'[w].found = {}
      /\ job'[w].undisputed = {}
  BY <1>1 DEF RequestEnds, Advanced, TypeOK, Job, Idle
<1>3. \A v \in Worker \ {w} :
        /\ job'[v].pc = job[v].pc /\ job'[v].claims = job[v].claims
        /\ job'[v].user = job[v].user /\ job'[v].found = job[v].found
        /\ job'[v].undisputed = job[v].undisputed
  BY <1>1 DEF Advanced
<1>4. /\ UNCHANGED <<group_prefix, portal_groups, auth_group, user_groups, flags, steady>>
  BY DEF RequestEnds
<1>5. job' \in [Worker -> Job]
  BY <1>1 DEF Advanced
<1>6. TypeOK'
  BY <1>2, <1>4, <1>5 DEF TypeOK, RowsResolved, StaleIsManaged
<1>7. Branches'
  BY <1>2, <1>3, <1>4 DEF Branches
<1>8. RowsResolved'
  BY <1>2, <1>3, <1>4 DEF RowsResolved, Branches, ManagedClaims, Managed
<1>9. StaleIsManaged'
  BY <1>2, <1>3, <1>4 DEF StaleIsManaged
<1>10. SteadyIsClaimed'
  BY <1>2, <1>3, <1>4 DEF SteadyIsClaimed, SteadyGroupsKept
<1>11. SteadyGroupsKept'
  BY <1>2, <1>3, <1>4 DEF SteadyGroupsKept, SteadyIsClaimed, StaleIsManaged
<1>12. ClaimsProgress'
  <2>1. \A v \in Worker \ {w} : Progress(v)'
    BY <1>3, <1>4, ProgressKept DEF ClaimsProgress
  <2>2. Progress(w)'
    BY <1>2, <1>4 DEF ClaimsProgress, Progress, Branches, Configured, Desired,
                      Managed, TypeOK
  <2> QED
    BY <2>1, <2>2 DEF ClaimsProgress
<1> QED
  BY <1>6, <1>7, <1>8, <1>9, <1>10, <1>11, <1>12

LEMMA PortalChangesInv ==
    ASSUME IInv, NEW g \in Group, PortalChanges(g)
    PROVE  IInv'
<1> USE GroupAssumption DEF IInv
<1>1. job' \in [Worker -> Job]
  BY DEF PortalChanges, TypeOK, Job
<1>2. \A w \in Worker :
        /\ job'[w].pc = job[w].pc /\ job'[w].claims = job[w].claims
        /\ job'[w].user = job[w].user /\ job'[w].found = job[w].found
        /\ job'[w].undisputed = job[w].undisputed
  BY DEF PortalChanges, TypeOK, Job
<1>3. TypeOK'
  BY <1>1, <1>2 DEF PortalChanges, TypeOK, Flag
<1>4. Branches'
  BY <1>1, <1>2 DEF PortalChanges, Branches
<1>5. RowsResolved'
  BY <1>1, <1>2 DEF PortalChanges, RowsResolved, Branches, ManagedClaims, Managed
<1>6. StaleIsManaged'
  BY <1>1, <1>2 DEF PortalChanges, StaleIsManaged
<1>7. SteadyIsClaimed'
  BY <1>1, <1>2 DEF PortalChanges, SteadyIsClaimed, SteadyGroupsKept
<1>8. SteadyGroupsKept'
  BY <1>1, <1>2 DEF PortalChanges, SteadyGroupsKept, SteadyIsClaimed, StaleIsManaged
<1>9. ClaimsProgress'
  <2>1. \A w \in Worker : \A h \in job'[w].undisputed :
          h \in user_groups' <=> h \in user_groups
    BY <1>2 DEF PortalChanges
  <2>2. \A w \in Worker, e \in Configured :
          FlagGroups[e] \subseteq job'[w].undisputed => flags'[e] = flags[e]
    BY <1>2 DEF PortalChanges, Configured, TypeOK
  <2>3. UNCHANGED group_prefix
    BY DEF PortalChanges
  <2> QED
    BY <1>2, <2>1, <2>2, <2>3, ProgressKept DEF ClaimsProgress
<1> QED
  BY <1>3, <1>4, <1>5, <1>6, <1>7, <1>8, <1>9

LEMMA AdminTogglesGroupInv ==
    ASSUME IInv, NEW g \in Group, AdminTogglesGroup(g)
    PROVE  IInv'
<1> USE GroupAssumption DEF IInv
<1>1. job' \in [Worker -> Job]
  BY DEF AdminTogglesGroup, TypeOK, Job
<1>2. \A w \in Worker :
        /\ job'[w].pc = job[w].pc /\ job'[w].claims = job[w].claims
        /\ job'[w].user = job[w].user /\ job'[w].found = job[w].found
        /\ job'[w].undisputed = job[w].undisputed \ {g}
  BY DEF AdminTogglesGroup, TypeOK, Job
<1>3. TypeOK'
  BY <1>1, <1>2 DEF AdminTogglesGroup, TypeOK, Flag
<1>4. Branches'
  BY <1>1, <1>2 DEF AdminTogglesGroup, Branches
<1>5. RowsResolved'
  BY <1>1, <1>2 DEF AdminTogglesGroup, RowsResolved, Branches, ManagedClaims, Managed
<1>6. StaleIsManaged'
  BY <1>1, <1>2 DEF AdminTogglesGroup, StaleIsManaged
<1>7. SteadyIsClaimed'
  BY <1>1, <1>2 DEF AdminTogglesGroup, SteadyIsClaimed, SteadyGroupsKept
<1>8. SteadyGroupsKept'
  BY <1>1, <1>2 DEF AdminTogglesGroup, SteadyGroupsKept, SteadyIsClaimed, StaleIsManaged
<1>9. ClaimsProgress'
  <2>1. \A w \in Worker : \A h \in job'[w].undisputed :
          h \in user_groups' <=> h \in user_groups
    BY <1>2 DEF AdminTogglesGroup
  <2>2. \A w \in Worker, e \in Configured :
          FlagGroups[e] \subseteq job'[w].undisputed => flags'[e] = flags[e]
    BY <1>2 DEF AdminTogglesGroup, Configured, TypeOK
  <2>3. UNCHANGED group_prefix
    BY DEF AdminTogglesGroup
  <2> QED
    BY <1>2, <2>1, <2>2, <2>3, ProgressKept DEF ClaimsProgress
<1> QED
  BY <1>3, <1>4, <1>5, <1>6, <1>7, <1>8, <1>9

LEMMA AdminTogglesFlagInv ==
    ASSUME IInv, NEW f \in Flag, AdminTogglesFlag(f)
    PROVE  IInv'
<1> USE GroupAssumption DEF IInv
<1>1. job' \in [Worker -> Job]
  BY DEF AdminTogglesFlag, TypeOK, Job
<1>2. \A w \in Worker :
        /\ job'[w].pc = job[w].pc /\ job'[w].claims = job[w].claims
        /\ job'[w].user = job[w].user /\ job'[w].found = job[w].found
        /\ job'[w].undisputed = job[w].undisputed \ FlagGroups[f]
  BY DEF AdminTogglesFlag, TypeOK, Job
<1>3. TypeOK'
  BY <1>1, <1>2 DEF AdminTogglesFlag, TypeOK, Flag
<1>4. Branches'
  BY <1>1, <1>2 DEF AdminTogglesFlag, Branches
<1>5. RowsResolved'
  BY <1>1, <1>2 DEF AdminTogglesFlag, RowsResolved, Branches, ManagedClaims, Managed
<1>6. StaleIsManaged'
  BY <1>1, <1>2 DEF AdminTogglesFlag, StaleIsManaged
<1>7. SteadyIsClaimed'
  BY <1>1, <1>2 DEF AdminTogglesFlag, SteadyIsClaimed, SteadyGroupsKept
<1>8. SteadyGroupsKept'
  BY <1>1, <1>2 DEF AdminTogglesFlag, SteadyGroupsKept, SteadyIsClaimed, StaleIsManaged
<1>9. ClaimsProgress'
  <2>1. \A w \in Worker : \A h \in job'[w].undisputed :
          h \in user_groups' <=> h \in user_groups
    BY <1>2 DEF AdminTogglesFlag
  <2>2. \A w \in Worker, e \in Configured :
          FlagGroups[e] \subseteq job'[w].undisputed => flags'[e] = flags[e]
    BY <1>2 DEF AdminTogglesFlag, Configured, TypeOK
  <2>3. UNCHANGED group_prefix
    BY DEF AdminTogglesFlag
  <2> QED
    BY <1>2, <2>1, <2>2, <2>3, ProgressKept DEF ClaimsProgress
<1> QED
  BY <1>3, <1>4, <1>5, <1>6, <1>7, <1>8, <1>9

\* The invariant is inductive: one lemma per action.
LEMMA NextInv == IInv /\ [Next]_vars => IInv'
<1> SUFFICES ASSUME IInv, [Next]_vars PROVE IInv'
  OBVIOUS
<1>1. CASE UNCHANGED vars
  BY <1>1 DEF vars, IInv, TypeOK, Branches, RowsResolved, StaleIsManaged,
              SteadyIsClaimed, SteadyGroupsKept, ClaimsProgress, Progress,
              ManagedClaims, Managed, Configured, Desired
<1>2. CASE Next
  BY <1>2, FetchClaimsInv, LoadUserInv, ReadStaleInv, RemoveStaleInv,
           ResolveGroupsInv, ReadMembershipsInv, WriteMembershipsInv,
           AddGroupsInv, SyncFlagsInv, RequestEndsInv, PortalChangesInv,
           AdminTogglesGroupInv, AdminTogglesFlagInv
     DEF Next, SyncStep
<1> QED
  BY <1>1, <1>2

\* Every sync, however it is interleaved, keeps to the branch and to the
\* groups it may touch, and one that is not interfered with is on course.
THEOREM InvariantHolds == Spec => []IInv
BY InitInv, NextInv, PTL DEF Spec

\* The database holds a group row for every membership.
THEOREM TypeCorrect == Spec => []TypeOK
BY InvariantHolds, PTL DEF IInv

\* A group that a user has and that every claim names is never lost, not even
\* between two statements of a sync.
THEOREM SteadyGroupsNeverLost == Spec => []SteadyGroupsKept
BY InvariantHolds, PTL DEF IInv

\* With a prefix configured no sync changes a membership outside it.
THEOREM LocalGroupsSurvive == Spec => LocalGroupsUntouched
<1>1. ASSUME IInv, group_prefix, NEW w \in Worker, SyncStep(w)
      PROVE  user_groups' \ Prefixed = user_groups \ Prefixed
  <2> USE DEF IInv
  <2>1. CASE RemoveStale(w)
    BY <1>1, <2>1 DEF RemoveStale, StaleIsManaged
  <2>2. CASE AddGroups(w)
    BY <1>1, <2>2 DEF AddGroups, ManagedClaims, Managed
  <2>3. ~WriteMemberships(w)
    BY <1>1 DEF WriteMemberships, Branches
  <2> QED
    BY <1>1, <2>1, <2>2, <2>3
       DEF SyncStep, FetchClaims, LoadUser, ReadStale, ResolveGroups,
           ReadMemberships, SyncFlags
<1>2. IInv /\ [Next]_vars =>
        [group_prefix /\ (\E w \in Worker : SyncStep(w))
           => user_groups' \ Prefixed = user_groups \ Prefixed]_vars
  BY <1>1
<1> QED
  BY <1>2, InvariantHolds, PTL DEF LocalGroupsUntouched, Spec

\* A login leaves what its claim says of every group it manages and of every
\* configured flag, unless one that claims otherwise, or the admin, wrote
\* between its load of the user and its end.
THEOREM UndisputedClaimsLast == Spec => UndisputedClaimsApply
<1>1. ASSUME IInv, NEW w \in Worker, SyncFlags(w)
      PROVE  Applied(w)
  <2>1. ASSUME NEW g \in job[w].undisputed \intersect Managed
        PROVE  g \in user_groups' <=> g \in job[w].claims
    BY <1>1, <2>1 DEF IInv, ClaimsProgress, Progress, SyncFlags
  <2>2. ASSUME NEW f \in Configured, FlagGroups[f] \subseteq job[w].undisputed
        PROVE  flags'[f] = Desired(w, f)
    <3>1. f \in Flag
      BY DEF Configured
    <3>2. flags'[f] = IF f \in {g \in Configured : job[w].user[g] # Desired(w, g)}
                      THEN Desired(w, f) ELSE flags[f]
      BY <1>1, <3>1 DEF SyncFlags
    <3>3. flags[f] \in {job[w].user[f], Desired(w, f)}
      BY <1>1, <2>2 DEF IInv, ClaimsProgress, Progress
    <3> QED
      BY <3>2, <3>3
  <2> QED
    BY <2>1, <2>2 DEF Applied
<1>2. IInv /\ [Next]_vars => [\A w \in Worker : Applied(w)]_vars
  BY <1>1 DEF Applied
<1> QED
  BY <1>2, InvariantHolds, PTL DEF UndisputedClaimsApply, Spec
=============================================================================
