-------------------------------- MODULE Owners --------------------------------
(***************************************************************************)
(* Who may use the server: owners are approved and revoked by login        *)
(* (dashboard.rs, api.rs), logins are pinned to the accounts that held     *)
(* them when the app's installations were read (reconcile.rs), and every   *)
(* way into the queue asks again (mod.rs).  GitHub accounts are renamed    *)
(* and their old logins taken by others meanwhile.                         *)
(*                                                                         *)
(* An account has one repository at most, named by its owner.  Of the      *)
(* queue there is what a removal meets: one waiting and one running job.   *)
(***************************************************************************)
EXTENDS Naturals, FiniteSets

CONSTANTS
    Accounts,    \* GitHub accounts (their IDs)
    Logins,      \* the names they may have
    Owning,      \* the accounts that have a repository; the others have none
    EnvOwners,   \* the app's owner and the owners of the environment
    MaxEvents,   \* bound: changes at GitHub and restarts
    MaxOps       \* bound: what holds the reconcile lock, one after the other

NoAccount == 0
NoLogin   == 0

ASSUME OwnersAssumption ==
    /\ NoAccount \notin Accounts
    /\ NoLogin \notin Logins
    /\ Owning \subseteq Accounts
    /\ EnvOwners \subseteq Logins
    /\ MaxEvents \in Nat /\ MaxOps \in Nat

VARIABLES
    github,    \* account -> its login, and whether the app is installed
    prefs,     \* Preferences, in memory and in settings.json
    cache,     \* Server.installations: account -> what the last round knew
    read,      \* whether there was a round since the start (install_url is set)
    listed,    \* dashboard.repos: account -> owner name of its repository
    waiting,   \* account -> owner name of the job that waits
    running,   \* account -> owner name of the job that runs, and whether it is told to stop
    handler,   \* a webhook or a request that was let in and has not enqueued
    op,        \* the holder of reconcile_lock
    granted,   \* history: accounts an administrator's decision reached
    promised,  \* history: logins allowed by name that no account was seen under
    overlooked, \* history: accounts an eviction judged by another job's owner name
    events, ops

history == <<granted, promised, overlooked>>
vars == <<github, prefs, cache, read, listed, waiting, running, handler, op, history,
          events, ops>>
queue == <<waiting, running, handler>>

NotListed == [there |-> FALSE, name |-> NoLogin, allowed |-> FALSE,
              suspended |-> FALSE, error |-> FALSE]
NotRun    == [name |-> NoLogin, told |-> FALSE]
NoHandler == [account |-> NoAccount, name |-> NoLogin, asked |-> FALSE, token |-> FALSE]
Nobody    == [a \in Accounts |-> NoLogin]
NoOp      == [at |-> "idle", for |-> "round", login |-> NoLogin,
              answer |-> [a \in Accounts |-> NotListed], names |-> Nobody,
              inventory |-> Nobody, todo |-> {}]

Init ==
    /\ github \in [Accounts -> [login : Logins, app : {"active"}]]
    /\ \A a, b \in Accounts : github[a].login = github[b].login => a = b
    /\ prefs = [allowed |-> {}, pins |-> [l \in Logins |-> NoAccount],
                revokedLogins |-> {}, revokedIds |-> {}]
    /\ cache = [a \in Accounts |-> NotListed]
    /\ read = FALSE
    /\ listed = Nobody
    /\ waiting = Nobody
    /\ running = [a \in Accounts |-> NotRun]
    /\ handler = NoHandler
    /\ op = NoOp
    /\ granted = {}
    /\ promised = EnvOwners
    /\ overlooked = {}
    /\ events = 0
    /\ ops = 0

-------------------------------------------------------------------------------
(* Preferences: the answer to "may this owner?", and what changes it.      *)

\* Mutant: a login that is pinned to another account.
AllowedByName(p, login, account, implicit) ==
    /\ login \notin p.revokedLogins
    /\ account \notin p.revokedIds
    /\ \/ implicit
       \/ login \in p.allowed
       \/ account # NoAccount /\ \E k \in p.allowed : p.pins[k] = account

\* owner_allowed.  The account is NoAccount where only a name is known.
OwnerAllowed(p, login, account, implicit) ==
    LET id == IF account = NoAccount THEN p.pins[login] ELSE account
    IN  /\ login \notin p.revokedLogins
        /\ id \notin p.revokedIds
        /\ account = NoAccount \/ p.pins[login] \in {NoAccount, account}
        /\ \/ implicit
           \/ login \in p.allowed
           \/ account # NoAccount /\ \E k \in p.allowed : p.pins[k] = account

\* implicit_owner: by name, or pinned to the account of such a name.
Implicit(p, login, account) ==
    LET id == IF account = NoAccount THEN p.pins[login] ELSE account
    IN  login \in EnvOwners \/ (id # NoAccount /\ \E k \in EnvOwners : p.pins[k] = id)

Allowed(p, login, account) == OwnerAllowed(p, login, account, Implicit(p, login, account))
NameAllowed(p, login) == Allowed(p, login, NoAccount)

ApproveOwner(p, login, id) ==
    [p EXCEPT
        !.revokedLogins = @ \ {login},
        !.revokedIds = @ \ {id},
        !.allowed = {k \in @ : id = NoAccount \/ p.pins[k] # id} \cup {login},
        !.pins[login] = IF id = NoAccount THEN @ ELSE id]

RevokeOwner(p, login, id) ==
    [p EXCEPT
        !.allowed = {k \in @ : k # login /\ (id = NoAccount \/ p.pins[k] # id)},
        !.revokedLogins = @ \cup {login},
        !.revokedIds = @ \cup ({id} \ {NoAccount})]

-------------------------------------------------------------------------------
(* GitHub.                                                                 *)

Event == events < MaxEvents /\ events' = events + 1

\* An account takes a login nobody has; its old one is free for others.
Rename(a) ==
    /\ Event
    /\ \E l \in Logins : /\ \A b \in Accounts : github[b].login # l
                         /\ github' = [github EXCEPT ![a].login = l]
    /\ UNCHANGED <<prefs, cache, read, listed, queue, op, history, ops>>

Install(a) ==
    /\ Event
    /\ \E s \in {"active", "suspended", "gone"} \ {github[a].app} :
          github' = [github EXCEPT ![a].app = s]
    /\ UNCHANGED <<prefs, cache, read, listed, queue, op, history, ops>>

-------------------------------------------------------------------------------
(* Into the queue and out of it.                                           *)

\* webhook: the payload's owner, by name and ID.
Webhook(a) ==
    /\ a \in Owning
    /\ handler = NoHandler
    /\ github[a].app = "active"
    /\ Allowed(prefs, github[a].login, a)
    /\ handler' = [account |-> a, name |-> github[a].login, asked |-> FALSE,
                   token |-> TRUE]
    /\ UNCHANGED <<github, prefs, cache, read, listed, waiting, running, op,
                   history, events, ops>>

\* A review asked for in the dashboard, of a repository in the inventory: pulls::allowed.
\* Its lookup takes a token first.
Request(a) ==
    /\ handler = NoHandler
    /\ listed[a] # NoLogin
    /\ NameAllowed(prefs, listed[a])
    /\ read => cache[a].there /\ cache[a].allowed /\ ~cache[a].suspended
    /\ handler' = [account |-> a, name |-> listed[a], asked |-> TRUE, token |-> TRUE]
    /\ UNCHANGED <<github, prefs, cache, read, listed, waiting, running, op,
                   history, events, ops>>

\* enqueue_checked, under the queue's lock: the installation as the last round left it,
\* and the owner again.
InstallationUsable(a) ==
    read => /\ cache[a].there /\ cache[a].allowed
            /\ ~cache[a].suspended /\ ~cache[a].error
\* Mutant: the check at the door is enough.
OwnerWasAllowed(name) == TRUE
OwnerStillAllowed(name) == NameAllowed(prefs, name)

Enqueue ==
    /\ handler # NoHandler
    /\ waiting' = IF /\ InstallationUsable(handler.account)
                     /\ OwnerStillAllowed(handler.name)
                     /\ handler.token
                  THEN [waiting EXCEPT ![handler.account] = handler.name] ELSE waiting
    /\ handler' = NoHandler
    /\ UNCHANGED <<github, prefs, cache, read, listed, running, op, history,
                   events, ops>>

Start(a) ==
    /\ waiting[a] # NoLogin /\ running[a] = NotRun
    /\ running' = [running EXCEPT ![a] = [name |-> waiting[a], told |-> FALSE]]
    /\ waiting' = [waiting EXCEPT ![a] = NoLogin]
    /\ UNCHANGED <<github, prefs, cache, read, listed, handler, op, history,
                   events, ops>>

Finish(a) ==
    /\ running[a] # NotRun
    /\ running' = [running EXCEPT ![a] = NotRun]
    /\ UNCHANGED <<github, prefs, cache, read, listed, waiting, handler, op, history, events, ops>>

\* remove_repo: out of the inventory and the queue; a request's lookup loses its token.
RemoveWork(gone) ==
    /\ waiting' = [a \in Accounts |-> IF a \in gone THEN NoLogin ELSE waiting[a]]
    /\ running' = [a \in Accounts |->
                      [running[a] EXCEPT !.told = @ \/ (a \in gone /\ running[a] # NotRun)]]
LosesToken(gone) ==
    handler' = [handler EXCEPT !.token = @ /\ ~(handler.asked /\ handler.account \in gone)]
RemoveRepos(gone) ==
    /\ listed' = [a \in Accounts |-> IF a \in gone THEN NoLogin ELSE listed[a]]
    /\ RemoveWork(gone)
    /\ LosesToken(gone)

\* webhook: the app was suspended or removed.  The event may come late or never.
Lifecycle(a) ==
    /\ github[a].app # "active"
    /\ cache' = [cache EXCEPT ![a].suspended = @ \/ cache[a].there]
    /\ RemoveRepos(IF Allowed(prefs, github[a].login, a) THEN {a} ELSE {})
    /\ UNCHANGED <<github, prefs, read, op, history, events, ops>>

-------------------------------------------------------------------------------
(* Under the reconcile lock.                                               *)

Take == op = NoOp /\ ops < MaxOps /\ ops' = ops + 1

\* change_owner: both decisions begin with a look at the installations.
Decide(for) ==
    /\ Take
    /\ \E l \in Logins : op' = [NoOp EXCEPT !.at = "ask", !.for = for, !.login = l]
    /\ UNCHANGED <<github, prefs, cache, read, listed, queue, history, events>>

\* The repositories somebody knows of, by the name of the last to speak:
\* the inventory, a waiting job, a running one.
KnownName(a) ==
    IF running[a] # NotRun THEN running[a].name
    ELSE IF waiting[a] # NoLogin THEN waiting[a] ELSE listed[a]
KnownNames == [a \in Accounts |-> KnownName(a)]

\* once: the hourly round, one somebody asked for, or the end of a decision (once_locked).
Round ==
    /\ \/ Take
       \/ op.at = "refresh" /\ UNCHANGED ops
    /\ op' = [NoOp EXCEPT !.at = "ask", !.names = KnownNames]
    /\ UNCHANGED <<github, prefs, cache, read, listed, queue, history, events>>

\* discover: GitHub answers with the installations.
Ask ==
    /\ op.at = "ask"
    /\ op' = [op EXCEPT !.at = "store",
                 !.answer = [a \in Accounts |->
                    IF github[a].app = "gone" THEN NotListed
                    ELSE [there |-> TRUE, name |-> github[a].login, allowed |-> FALSE,
                          suspended |-> github[a].app = "suspended", error |-> FALSE]]]
    /\ UNCHANGED <<github, prefs, cache, read, listed, queue, history, events, ops>>

\* discover fails: an approval and a round end; a revocation goes on with what is cached.
AskFails ==
    /\ op.at = "ask"
    /\ op' = IF op.for = "revoke" THEN [op EXCEPT !.at = "decide", !.answer = cache] ELSE NoOp
    /\ UNCHANGED <<github, prefs, cache, read, listed, queue, history, events, ops>>

Rightful == {a \in Accounts : op.answer[a].there /\ Allowed(prefs, op.answer[a].name, a)}
Explicit(a) ==
    \/ op.answer[a].name \in prefs.allowed
    \/ \E k \in prefs.allowed : prefs.pins[k] = a

\* The loop over the installations: each rightful account is pinned to its login of
\* today, which replaces the login it was approved by.  What one account's turn changes
\* does not bear on another's: a login pinned to one is not rightful for the other.
Pinned ==
    [prefs EXCEPT
        !.pins = [l \in Logins |->
            IF \E a \in Rightful : op.answer[a].name = l
            THEN CHOOSE a \in Rightful : op.answer[a].name = l ELSE prefs.pins[l]],
        !.allowed = {l \in @ : \A a \in Rightful : Explicit(a) => prefs.pins[l] # a}
                    \cup {op.answer[a].name : a \in {b \in Rightful : Explicit(b)}}]

Answered ==
    [a \in Accounts |-> [op.answer[a] EXCEPT
        !.allowed = a \in Rightful,
        !.error = op.answer[a].there /\ cache[a].error]]

Store ==
    /\ op.at = "store"
    /\ prefs' = Pinned
    /\ cache' = Answered
    /\ read' = TRUE
    /\ granted' = granted \cup {a \in Rightful : op.answer[a].name \in promised}
    /\ promised' = promised \ {op.answer[a].name : a \in Rightful}
    /\ op' = [op EXCEPT !.answer = Answered,
                 !.at = IF op.for = "round" THEN "list" ELSE "decide",
                 !.todo = {a \in Rightful : op.for = "round" /\ ~op.answer[a].suspended}]
    /\ UNCHANGED <<github, listed, queue, overlooked, events, ops>>

\* The account of the login: the installation of that name, else the pin.
Holders == {a \in Accounts : op.answer[a].there /\ op.answer[a].name = op.login}
Holder  == IF Holders # {} THEN CHOOSE a \in Holders : TRUE ELSE prefs.pins[op.login]

Approve ==
    /\ op.at = "decide" /\ op.for = "approve"
    /\ IF Holders = {}
       THEN /\ op' = NoOp
            /\ UNCHANGED <<prefs, granted, promised>>
       ELSE /\ prefs' = ApproveOwner(prefs, op.login, Holder)
            /\ granted' = granted \cup {Holder}
            /\ promised' = promised \ {op.login}
            /\ op' = [NoOp EXCEPT !.at = "refresh"]
    /\ UNCHANGED <<github, cache, read, listed, queue, overlooked, events, ops>>

Revoke ==
    /\ op.at = "decide" /\ op.for = "revoke"
    /\ prefs' = RevokeOwner(prefs, op.login, Holder)
    /\ granted' = granted \ {Holder}
    /\ promised' = promised \ {op.login}
    /\ op' = [NoOp EXCEPT !.at = "collect", !.for = "revoke"]
    /\ UNCHANGED <<github, cache, read, listed, queue, overlooked, events, ops>>

\* server_settings: the list of owners is saved with one taken off, one added, or both;
\* the pins and the revocations are not the client's.  An added owner must not be revoked.
Accepted(x) == x # NoLogin /\ OwnerAllowed(prefs, x, prefs.pins[x], TRUE)

Saved(r, x) ==
    LET input == [prefs EXCEPT !.allowed = (@ \ {r}) \cup ({x} \ {NoLogin})]
        less  == IF r = NoLogin THEN input ELSE RevokeOwner(input, r, prefs.pins[r])
    IN  IF Accepted(x) THEN ApproveOwner(less, x, prefs.pins[x])
        ELSE [less EXCEPT !.allowed = @ \ {x}]

Settings ==
    /\ Take
    /\ \E r \in prefs.allowed \cup {NoLogin}, x \in (Logins \ prefs.allowed) \cup {NoLogin} :
          /\ r # NoLogin \/ x # NoLogin
          /\ prefs' = Saved(r, x)
          /\ granted' = (IF r = NoLogin THEN granted ELSE granted \ {prefs.pins[r]})
                        \cup (IF Accepted(x) THEN {prefs.pins[x]} \ {NoAccount} ELSE {})
          /\ promised' = (promised \ {r})
                         \cup {l \in {x} : Accepted(x) /\ prefs.pins[x] = NoAccount}
    /\ op' = [NoOp EXCEPT !.at = "collect", !.for = "settings"]
    /\ UNCHANGED <<github, cache, read, listed, queue, overlooked, events>>

\* evict_unapproved: what is known is collected, then every repository of an owner
\* that is not allowed by name is removed.
Collect ==
    /\ op.at = "collect"
    /\ op' = [op EXCEPT !.at = "evict", !.names = KnownNames]
    /\ overlooked' = overlooked \cup {a \in Accounts : waiting[a] \notin {NoLogin, KnownName(a)}}
    /\ UNCHANGED <<github, prefs, cache, read, listed, queue, granted, promised, events, ops>>

Evict ==
    /\ op.at = "evict"
    /\ RemoveRepos({a \in Accounts : op.names[a] # NoLogin /\ ~NameAllowed(prefs, op.names[a])})
    /\ op' = IF op.for = "settings" THEN NoOp ELSE [NoOp EXCEPT !.at = "refresh"]
    /\ UNCHANGED <<github, prefs, cache, read, history, events, ops>>

\* once_locked: an installation's repositories are listed.  One that was renamed is
\* removed under its old name; an owner that is not the installation's ends the round.
List(a) ==
    /\ op.at = "list" /\ a \in op.todo
    /\ github[a].app = "active"
    /\ cache' = [cache EXCEPT ![a].error = FALSE]
    /\ RemoveRepos(IF op.names[a] \notin {NoLogin, github[a].login} THEN {a} ELSE {})
    /\ op' = IF github[a].login = op.answer[a].name \/ a \notin Owning
             THEN [op EXCEPT !.todo = @ \ {a}, !.answer[a].error = FALSE,
                             !.inventory[a] = IF a \in Owning THEN github[a].login ELSE NoLogin]
             ELSE NoOp
    /\ UNCHANGED <<github, prefs, read, history, events, ops>>

\* It cannot be: denied, the repositories count as gone; an outage keeps what is listed.
ListFails(a) ==
    /\ op.at = "list" /\ a \in op.todo
    /\ \E kept \in {NoLogin, listed[a]} :
          /\ github[a].app # "active" \/ kept = listed[a]
          /\ op' = [op EXCEPT !.todo = @ \ {a}, !.answer[a].error = TRUE,
                              !.inventory[a] = kept]
    /\ UNCHANGED <<github, prefs, cache, read, listed, queue, history, events, ops>>

\* What is no longer in the inventory goes; the inventory and the installations, as this
\* round saw them, are written.
ListEnd ==
    /\ op.at = "list" /\ op.todo = {}
    /\ LET gone == {a \in Accounts : op.names[a] # NoLogin /\ op.inventory[a] = NoLogin}
       IN  RemoveWork(gone) /\ LosesToken(gone)
    /\ listed' = op.inventory
    /\ cache' = op.answer
    /\ op' = NoOp
    /\ UNCHANGED <<github, prefs, read, history, events, ops>>

\* The preferences and the inventory are on disk, the queue and the cache are not.
Restart ==
    /\ Event
    /\ cache' = [a \in Accounts |-> NotListed]
    /\ read' = FALSE
    /\ waiting' = Nobody
    /\ running' = [a \in Accounts |-> NotRun]
    /\ handler' = NoHandler
    /\ op' = NoOp
    /\ UNCHANGED <<github, prefs, listed, history, ops>>

-------------------------------------------------------------------------------
Next ==
    \/ \E a \in Accounts :
          \/ Rename(a) \/ Install(a) \/ Webhook(a) \/ Request(a) \/ Start(a) \/ Finish(a)
          \/ Lifecycle(a) \/ List(a) \/ ListFails(a)
    \/ Enqueue
    \/ \E for \in {"approve", "revoke"} : Decide(for)
    \/ Round \/ Ask \/ AskFails \/ Store \/ Approve \/ Revoke
    \/ Settings \/ Collect \/ Evict \/ ListEnd
    \/ Restart

Spec == Init /\ [][Next]_vars

-------------------------------------------------------------------------------
Names    == Logins \cup {NoLogin}
Listings == [there : BOOLEAN, name : Names, allowed : BOOLEAN, suspended : BOOLEAN,
             error : BOOLEAN]

(* The types of the variables.                                             *)
TypeOK ==
    /\ github \in [Accounts -> [login : Logins, app : {"active", "suspended", "gone"}]]
    /\ prefs \in [allowed : SUBSET Logins, pins : [Logins -> Accounts \cup {NoAccount}],
                  revokedLogins : SUBSET Logins, revokedIds : SUBSET Accounts]
    /\ cache \in [Accounts -> Listings]
    /\ listed \in [Accounts -> Names]
    /\ waiting \in [Accounts -> Names]
    /\ running \in [Accounts -> [name : Names, told : BOOLEAN]]
    /\ handler \in [account : Accounts \cup {NoAccount}, name : Names,
                    asked : BOOLEAN, token : BOOLEAN]
    /\ op \in [at : {"idle", "ask", "store", "decide", "collect", "evict", "refresh", "list"},
               for : {"round", "approve", "revoke", "settings"}, login : Names,
               answer : [Accounts -> Listings], names : [Accounts -> Names],
               inventory : [Accounts -> Names], todo : SUBSET Accounts]
    /\ granted \subseteq Accounts /\ promised \subseteq Logins

(* An account is let in, under whatever login, only if a decision of an     *)
(* administrator reached it that was not taken back, or the login was       *)
(* promised by name and nobody was seen under it yet.  Neither a rename, a  *)
(* new holder of an old login, an older client's save of the settings nor   *)
(* a restart lets anybody else in, or a revoked account back.               *)
AllowedMeansApproved ==
    \A l \in Logins, a \in Accounts :
        Allowed(prefs, l, a) => a \in granted \/ l \in promised

(* Once a revocation has evicted, nothing works under a revoked login or    *)
(* one pinned to a revoked account, also what was let in before the         *)
(* revocation and enqueued after it.  (An eviction judges a repository by   *)
(* one name, and a running job of an older one hides a waiting one: those   *)
(* are excepted until the next round removes them.)                         *)
Evicting == op.at \in {"collect", "evict"}
Works(a, name) == \/ waiting[a] = name
                  \/ running[a].name = name /\ ~running[a].told
RevokedHasNoWork ==
    ~Evicting => \A a \in Accounts \ overlooked, l \in Logins :
        Works(a, l) => l \notin prefs.revokedLogins /\ prefs.pins[l] \notin prefs.revokedIds
=============================================================================
