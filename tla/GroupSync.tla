----------------------------- MODULE GroupSync -----------------------------
(***************************************************************************)
(* sync_user_groups: every portal login of a user overwrites the user's    *)
(* Django groups and staff flags from the groups claim. Logins of the same *)
(* user may run at once (two stations, a double click), each with the      *)
(* claims of its own token and its own copy of the user, one database      *)
(* transaction per step. Only auth_group is shared with other users.       *)
(***************************************************************************)
CONSTANTS
    Group,          \* group names
    Prefixed,       \* those that start with GROUP_PREFIX
    FlagGroups,     \* flag -> STAFF_GROUPS, SUPERUSER_GROUPS
    Worker          \* request slots of the WSGI server

Flag == {"is_staff", "is_superuser"}

ASSUME GroupAssumption ==
    /\ Prefixed \subseteq Group
    /\ FlagGroups \in [Flag -> SUBSET Group]

VARIABLES
    group_prefix,   \* the setting: TRUE if one is configured
    portal_groups,  \* the user's groups at the portal
    auth_group,     \* rows of auth_group
    user_groups,    \* the user's memberships in the database
    flags,          \* the user's flag columns in the database
    job,            \* Worker -> its login
    steady          \* history: members so far, and in every claim so far

vars == <<group_prefix, portal_groups, auth_group, user_groups, flags, job,
          steady>>

PC == {"idle", "load", "stale", "remove", "resolve", "read", "apply", "add",
       "flags"}

\* claims: the claim; user: the flags of the instance in memory; found: what
\* the last query returned; undisputed: the groups of which whoever else wrote
\* since the user was loaded made the same claim.
Job == [pc: PC, claims: SUBSET Group, user: [Flag -> BOOLEAN],
        found: SUBSET Group, undisputed: SUBSET Group]

Idle == [pc |-> "idle", claims |-> {}, user |-> [f \in Flag |-> FALSE],
         found |-> {}, undisputed |-> {}]

TypeOK ==
    /\ group_prefix \in BOOLEAN
    /\ portal_groups \subseteq Group
    /\ auth_group \subseteq Group
    /\ user_groups \subseteq auth_group
    /\ flags \in [Flag -> BOOLEAN]
    /\ job \in [Worker -> Job]
    /\ steady \subseteq Group

Init ==
    /\ group_prefix \in BOOLEAN
    /\ portal_groups \in SUBSET Group
    /\ user_groups \in SUBSET Group
    /\ auth_group = user_groups
    /\ flags \in [Flag -> BOOLEAN]
    /\ job = [w \in Worker |-> Idle]
    /\ steady = user_groups

\* The groups that this configuration manages, and those of them in the claim.
Managed == IF group_prefix THEN Prefixed ELSE Group
ManagedClaims(w) == job[w].claims \intersect Managed

Configured == {f \in Flag : FlagGroups[f] # {}}
Desired(w, f) == job[w].claims \intersect FlagGroups[f] # {}

Disputed(v, w) == (job[v].claims \ job[w].claims)
                    \union (job[w].claims \ job[v].claims)

\* w goes on with the fields of j; if w wrote, the others may have read what is
\* out of date where they claim otherwise.
Advance(w, j, wrote) ==
    job' = [v \in Worker |->
              IF v = w THEN j
              ELSE [job[v] EXCEPT
                      !.undisputed = IF wrote THEN @ \ Disputed(v, w) ELSE @]]

-----------------------------------------------------------------------------

\* The token exchange: the portal computes the claim from its own groups.
FetchClaims(w) ==
    /\ job[w].pc = "idle"
    /\ Advance(w, [Idle EXCEPT !.pc = "load", !.claims = portal_groups], FALSE)
    /\ steady' = steady \intersect portal_groups
    /\ UNCHANGED <<group_prefix, portal_groups, auth_group, user_groups, flags>>

\* allauth looks the user up; the receiver is handed this instance.
LoadUser(w) ==
    /\ job[w].pc = "load"
    /\ Advance(w, [job[w] EXCEPT !.pc = IF group_prefix THEN "stale"
                                        ELSE "resolve",
                                 !.user = flags, !.undisputed = Group],
               FALSE)
    /\ UNCHANGED <<group_prefix, portal_groups, auth_group, user_groups, flags,
                   steady>>

\* Mutant: without the exclude, the namespace is emptied and filled again.
ReadStale_All(w) ==
    /\ job[w].pc = "stale"
    /\ Advance(w, [job[w] EXCEPT !.pc = "remove",
                                 !.found = user_groups \intersect Prefixed],
               FALSE)
    /\ UNCHANGED <<group_prefix, portal_groups, auth_group, user_groups, flags,
                   steady>>

\* The namespace's memberships that the claim no longer has.
ReadStale(w) ==
    /\ job[w].pc = "stale"
    /\ Advance(w, [job[w] EXCEPT
                     !.pc = "remove",
                     !.found = (user_groups \intersect Prefixed)
                                 \ job[w].claims], FALSE)
    /\ UNCHANGED <<group_prefix, portal_groups, auth_group, user_groups, flags,
                   steady>>

RemoveStale(w) ==
    /\ job[w].pc = "remove"
    /\ user_groups' = user_groups \ job[w].found
    /\ Advance(w, [job[w] EXCEPT !.pc = "resolve", !.found = {}],
               user_groups' # user_groups)
    /\ UNCHANGED <<group_prefix, portal_groups, auth_group, flags, steady>>

\* Mutant: only rows that exist are used, none are created.
ResolveGroups_Existing(w) ==
    /\ job[w].pc = "resolve"
    /\ Advance(w, [job[w] EXCEPT !.pc = IF group_prefix THEN "add" ELSE "read"],
               FALSE)
    /\ UNCHANGED <<group_prefix, portal_groups, auth_group, user_groups, flags,
                   steady>>

\* _resolve_groups: get_or_create for the names that have no row yet.
ResolveGroups(w) ==
    /\ job[w].pc = "resolve"
    /\ auth_group' = auth_group \union ManagedClaims(w)
    /\ Advance(w, [job[w] EXCEPT !.pc = IF group_prefix THEN "add" ELSE "read"],
               FALSE)
    /\ UNCHANGED <<group_prefix, portal_groups, user_groups, flags, steady>>

\* groups.set(): a transaction that reads the memberships and then writes the
\* differences; at READ COMMITTED another one may commit in between.
ReadMemberships(w) ==
    /\ job[w].pc = "read"
    /\ Advance(w, [job[w] EXCEPT !.pc = "apply", !.found = user_groups], FALSE)
    /\ UNCHANGED <<group_prefix, portal_groups, auth_group, user_groups, flags,
                   steady>>

WriteMemberships(w) ==
    /\ job[w].pc = "apply"
    /\ user_groups' = (user_groups \ (job[w].found \ job[w].claims))
                        \union (job[w].claims \ job[w].found)
    /\ Advance(w, [job[w] EXCEPT !.pc = "flags", !.found = {}],
               user_groups' # user_groups)
    /\ UNCHANGED <<group_prefix, portal_groups, auth_group, flags, steady>>

\* Mutant: the claim's other groups are added too.
AddGroups_Unfiltered(w) ==
    /\ job[w].pc = "add"
    /\ user_groups' = user_groups \union job[w].claims
    /\ auth_group' = auth_group \union job[w].claims
    /\ Advance(w, [job[w] EXCEPT !.pc = "flags"], user_groups' # user_groups)
    /\ UNCHANGED <<group_prefix, portal_groups, flags, steady>>

AddGroups(w) ==
    /\ job[w].pc = "add"
    /\ user_groups' = user_groups \union ManagedClaims(w)
    /\ Advance(w, [job[w] EXCEPT !.pc = "flags"], user_groups' # user_groups)
    /\ UNCHANGED <<group_prefix, portal_groups, auth_group, flags, steady>>

\* Mutant: flags are granted and never revoked.
SyncFlags_GrantOnly(w) ==
    LET changed == {f \in Configured : ~job[w].user[f] /\ Desired(w, f)} IN
    /\ job[w].pc = "flags"
    /\ flags' = [f \in Flag |-> f \in changed \/ flags[f]]
    /\ Advance(w, Idle, flags' # flags)
    /\ UNCHANGED <<group_prefix, portal_groups, auth_group, user_groups, steady>>

\* A flag with groups configured is compared with the instance in memory, and
\* only what differs there is saved.
SyncFlags(w) ==
    LET changed == {f \in Configured : job[w].user[f] # Desired(w, f)} IN
    /\ job[w].pc = "flags"
    /\ flags' = [f \in Flag |-> IF f \in changed THEN Desired(w, f)
                                ELSE flags[f]]
    /\ Advance(w, Idle, flags' # flags)
    /\ UNCHANGED <<group_prefix, portal_groups, auth_group, user_groups, steady>>

-----------------------------------------------------------------------------

\* A database error, or the worker dies: no step so far is undone.
RequestEnds(w) ==
    /\ job[w].pc # "idle"
    /\ Advance(w, Idle, FALSE)
    /\ UNCHANGED <<group_prefix, portal_groups, auth_group, user_groups, flags,
                   steady>>

PortalChanges(g) ==
    /\ portal_groups' = (portal_groups \ {g}) \union ({g} \ portal_groups)
    /\ UNCHANGED <<group_prefix, auth_group, user_groups, flags, job, steady>>

\* The Django admin edits the same user.
AdminTogglesGroup(g) ==
    /\ user_groups' = (user_groups \ {g}) \union ({g} \ user_groups)
    /\ auth_group' = auth_group \union {g}
    /\ steady' = steady \ {g}
    /\ job' = [w \in Worker |-> [job[w] EXCEPT !.undisputed = @ \ {g}]]
    /\ UNCHANGED <<group_prefix, portal_groups, flags>>

\* Only a configured flag: the sync never looks at another.
AdminTogglesFlag(f) ==
    /\ f \in Configured
    /\ flags' = [flags EXCEPT ![f] = ~@]
    /\ job' = [w \in Worker |-> [job[w] EXCEPT !.undisputed = @ \ FlagGroups[f]]]
    /\ UNCHANGED <<group_prefix, portal_groups, auth_group, user_groups, steady>>

SyncStep(w) ==
    \/ FetchClaims(w)
    \/ LoadUser(w)
    \/ ReadStale(w)
    \/ RemoveStale(w)
    \/ ResolveGroups(w)
    \/ ReadMemberships(w)
    \/ WriteMemberships(w)
    \/ AddGroups(w)
    \/ SyncFlags(w)

Next ==
    \/ \E w \in Worker : SyncStep(w) \/ RequestEnds(w)
    \/ \E g \in Group : PortalChanges(g) \/ AdminTogglesGroup(g)
    \/ \E f \in Flag : AdminTogglesFlag(f)

Spec == Init /\ [][Next]_vars

-----------------------------------------------------------------------------
(* Properties *)

\* A sync leaves what its claim says, whatever was there before and whatever an
\* earlier sync left half done: of each group that it manages, and of each flag,
\* unless the admin or a login that claims otherwise wrote in the meantime.
\* Logins that agree on a group cannot undo it for one another, though each acts
\* on memberships and flags that it has read some statements ago.
Applied(w) ==
    SyncFlags(w) =>
        /\ \A g \in job[w].undisputed \intersect Managed :
            g \in user_groups' <=> g \in job[w].claims
        /\ \A f \in Configured :
            FlagGroups[f] \subseteq job[w].undisputed
                => flags'[f] = Desired(w, f)

UndisputedClaimsApply == [][\A w \in Worker : Applied(w)]_vars

\* With a prefix, the memberships outside it are local: no sync touches one,
\* even one that the claim names as well.
LocalGroupsUntouched ==
    [][group_prefix /\ (\E w \in Worker : SyncStep(w))
         => user_groups' \ Prefixed = user_groups \ Prefixed]_vars

\* A user who has a group before a login and in the claim of every login never
\* loses it for a moment, whatever other logins or failures interleave.
SteadyGroupsKept == steady \subseteq user_groups

-----------------------------------------------------------------------------

\* README, STAFF_GROUPS: the flag is set on every login from the intersection
\* with the claim's groups, grants and revokes.
FlagsSetOnEveryLogin ==
    [][\A w \in Worker :
         SyncFlags(w) => \A f \in Configured : flags'[f] = Desired(w, f)]_vars
=============================================================================
