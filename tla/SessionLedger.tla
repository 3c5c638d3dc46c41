---------------------------- MODULE SessionLedger ----------------------------
(***************************************************************************)
(* What a relying party promises about its sessions, without tables,       *)
(* requests or database statements: a ledger of the sessions that are      *)
(* signed in, by session key, and the logouts under way. PortalSessions    *)
(* implements it.                                                          *)
(***************************************************************************)
CONSTANTS
    Key, User, Sub, FirstAccounts, Sid, SidSub, Worker, None

VARIABLES
    ledger,     \* Key -> [user, sid] of the session signed in under it, or None
    used,       \* keys a browser has been given
    owner,      \* Sub -> the user that has connected this portal account, or None
    untracked,  \* <<key, sid>>: a logout of the sid may miss the session
    due         \* Worker -> the logout it carries out and what that owes, or None

vars == <<ledger, used, owner, untracked, due>>

Entry == [user: User, sid: Sid \union {None}]
Logout == [sid: Sid, keys: SUBSET Key]

TypeOK ==
    /\ ledger \in [Key -> Entry \union {None}]
    /\ used \subseteq Key
    /\ owner \in [Sub -> User \union {None}]
    /\ untracked \subseteq Key \X Sid
    /\ due \in [Worker -> Logout \union {None}]

Init ==
    /\ ledger = [k \in Key |-> None]
    /\ used = {}
    /\ owner = FirstAccounts
    /\ untracked = {}
    /\ due = [w \in Worker |-> None]

-----------------------------------------------------------------------------

\* A portal account gets its user, once and for all.
Connect(p, u) ==
    /\ owner[p] = None
    /\ owner' = [owner EXCEPT ![p] = u]
    /\ UNCHANGED <<ledger, used, untracked, due>>

\* A login opens a session under a key never used before.
Open(k, u, s) ==
    /\ k \notin used
    /\ used' = used \union {k}
    /\ s # None => owner[SidSub[s]] = u
    /\ ledger' = [ledger EXCEPT ![k] = [user |-> u, sid |-> s]]
    /\ UNCHANGED <<owner, untracked, due>>

\* A session passes to a portal session of its user, from then on to that only.
Bind(k, s) ==
    /\ ledger[k] # None
    /\ ledger[k].user = owner[SidSub[s]]
    /\ ledger' = [ledger EXCEPT ![k].sid = s]
    /\ untracked' = untracked \union ({k} \X ({ledger[k].sid} \ {None, s}))
    /\ UNCHANGED <<used, owner, due>>

\* The browser ends its own session, or a login in it does.
Close(k) ==
    /\ ledger[k] # None
    /\ ledger' = [ledger EXCEPT ![k] = None]
    /\ UNCHANGED <<used, owner, untracked, due>>

\* Sessions drop out of reach, of one portal session or one key at a time.
LoseTrack(pairs) ==
    /\ untracked' = untracked \union pairs
    /\ \/ \E s \in Sid : pairs \subseteq Key \X {s}
       \/ \E k \in Key : pairs \subseteq {k} \X Sid
    /\ UNCHANGED <<ledger, used, owner, due>>

\* A logout owes the end of every session of the sid that it can reach now.
BeginLogout(w, s) ==
    /\ due[w] = None
    /\ due' = [due EXCEPT ![w] =
                 [sid |-> s,
                  keys |-> {k \in Key : /\ ledger[k] # None
                                        /\ ledger[k].sid = s
                                        /\ <<k, s>> \notin untracked}]]
    /\ UNCHANGED <<ledger, used, owner, untracked>>

\* It closes all it owes, and no session but those of the account's user that
\* belong to its portal session, to none, or that changed hands.
FinishLogout(w, closed) ==
    /\ due[w] # None
    /\ \A k \in due[w].keys \ closed : <<k, due[w].sid>> \in untracked
    /\ \A k \in closed : ledger[k] # None =>
        /\ ledger[k].user = owner[SidSub[due[w].sid]]
        /\ \/ ledger[k].sid \in {due[w].sid, None}
           \/ \E s \in Sid : <<k, s>> \in untracked
    /\ ledger' = [k \in Key |-> IF k \in closed THEN None ELSE ledger[k]]
    /\ due' = [due EXCEPT ![w] = None]
    /\ UNCHANGED <<used, owner, untracked>>

\* Logouts fail, several at once when a process dies, and owe everything to
\* the portal's next attempt.
AbandonLogouts(workers) ==
    /\ due' = [w \in Worker |-> IF w \in workers THEN None ELSE due[w]]
    /\ UNCHANGED <<ledger, used, owner, untracked>>

Next ==
    \/ \E pairs \in SUBSET (Key \X Sid) : LoseTrack(pairs)
    \/ \E p \in Sub, u \in User : Connect(p, u)
    \/ \E k \in Key :
        \/ \E u \in User, s \in Sid \union {None} : Open(k, u, s)
        \/ \E s \in Sid : Bind(k, s)
        \/ Close(k)
    \/ \E w \in Worker :
        \/ \E s \in Sid : BeginLogout(w, s)
        \/ \E closed \in SUBSET Key : FinishLogout(w, closed)
    \/ \E workers \in SUBSET Worker : AbandonLogouts(workers)

Spec == Init /\ [][Next]_vars
=============================================================================
