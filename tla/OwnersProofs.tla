----------------------------- MODULE OwnersProofs -----------------------------
(***************************************************************************)
(* Nobody is let in whom no decision reached, and a revocation leaves no   *)
(* work behind, for all accounts, logins and orders of renames, rounds     *)
(* and decisions.                                                          *)
(***************************************************************************)
EXTENDS Owners, TLAPS

-------------------------------------------------------------------------------
(* The inductive invariant.                                                *)

\* A decision is about a login; what was found listed has a name.
Decides == op.for \in {"approve", "revoke"} /\ op.at \in {"ask", "store", "decide"}
OpIsAboutSomebody ==
    /\ Decides => op.login \in Logins
    /\ op.at \in {"ask", "store", "decide"} => op.for \in {"round", "approve", "revoke"}
    /\ op.at = "decide" => op.for # "round"
ListedHaveNames ==
    \A a \in Accounts : /\ cache[a].there => cache[a].name \in Logins
                        /\ op.answer[a].there => op.answer[a].name \in Logins

\* What a login is pinned to was approved once, and is still, or it is revoked.
PinsAreDecided ==
    \A l \in Logins : prefs.pins[l] # NoAccount => prefs.pins[l] \in granted \cup prefs.revokedIds

\* A login that is allowed by name and pinned to nobody is a promise.
NamesArePromised ==
    \A l \in Logins :
        /\ prefs.pins[l] = NoAccount
        /\ l \in prefs.allowed \/ (l \in EnvOwners /\ l \notin prefs.revokedLogins)
        => l \in promised

OwnersInv == TypeOK /\ OpIsAboutSomebody /\ ListedHaveNames /\ PinsAreDecided /\ NamesArePromised

\* A name under which nothing may work.
NameRevoked(l) == l \in prefs.revokedLogins \/ prefs.pins[l] \in prefs.revokedIds

\* An eviction has collected every job of a revoked name, but those it overlooked.
CollectedTheRevoked ==
    op.at = "evict" =>
        \A a \in Accounts \ overlooked, l \in Logins :
            Works(a, l) /\ NameRevoked(l) => op.names[a] = l

WorkInv == RevokedHasNoWork /\ CollectedTheRevoked

-------------------------------------------------------------------------------
(* Owners.                                                                 *)

\* What the invariant says of a name and an account: the heart of the matter.
LEMMA AllowedIsDecided ==
    ASSUME OwnersInv, NEW l \in Logins, NEW a \in Accounts, Allowed(prefs, l, a)
    PROVE  a \in granted \/ l \in promised
<1>1. /\ l \notin prefs.revokedLogins
      /\ a \notin prefs.revokedIds
      /\ prefs.pins[l] \in {NoAccount, a}
      /\ Implicit(prefs, l, a) \/ l \in prefs.allowed \/ \E k \in prefs.allowed : prefs.pins[k] = a
  BY OwnersAssumption DEF Allowed, OwnerAllowed
<1>2. ASSUME NEW k \in Logins, prefs.pins[k] = a  PROVE a \in granted
  BY <1>1, <1>2, OwnersAssumption DEF OwnersInv, PinsAreDecided
<1>3. CASE prefs.pins[l] = a  BY <1>2, <1>3
<1>4. CASE prefs.pins[l] = NoAccount
  <2>1. CASE l \in EnvOwners \/ l \in prefs.allowed
    BY <1>1, <1>4, <2>1 DEF OwnersInv, NamesArePromised
  <2>2. CASE \E k \in EnvOwners \cup prefs.allowed : prefs.pins[k] = a
    BY <1>2, <2>2, OwnersAssumption DEF OwnersInv, TypeOK
  <2> QED  BY <1>1, <2>1, <2>2, OwnersAssumption DEF Implicit
<1> QED  BY <1>1, <1>3, <1>4

\* The invariant implies the property.
THEOREM InvariantApproves == OwnersInv => AllowedMeansApproved
BY AllowedIsDecided DEF AllowedMeansApproved

\* At first nobody is pinned, and who is allowed by name was promised by it.
THEOREM OwnersInit == Init => OwnersInv
BY OwnersAssumption DEF Init, OwnersInv, TypeOK, OpIsAboutSomebody, Decides, ListedHaveNames,
   PinsAreDecided, NamesArePromised, NotListed, NotRun, NoHandler, Nobody, NoOp, Names, Listings

\* What the dispatcher, GitHub and the queue do leaves the owners alone.
OwnersUnchanged == UNCHANGED <<prefs, granted, promised>>

\* Jobs that are removed leave a table of the same type.
LEMMA TypeOfRemoval ==
    ASSUME TypeOK, NEW gone, RemoveWork(gone), LosesToken(gone)
    PROVE  /\ waiting' \in [Accounts -> Names]
           /\ running' \in [Accounts -> [name : Names, told : BOOLEAN]]
           /\ handler' \in [account : Accounts \cup {NoAccount}, name : Names,
                            asked : BOOLEAN, token : BOOLEAN]
<1>1. waiting' \in [Accounts -> Names]  BY DEF TypeOK, RemoveWork, Names
<1>2. running' \in [Accounts -> [name : Names, told : BOOLEAN]]
  <2>1. running' = [a \in Accounts |->
                      [running[a] EXCEPT !.told = @ \/ (a \in gone /\ running[a] # NotRun)]]
    BY DEF RemoveWork
  <2>2. ASSUME NEW a \in Accounts
        PROVE  [running[a] EXCEPT !.told = @ \/ (a \in gone /\ running[a] # NotRun)]
                    \in [name : Names, told : BOOLEAN]
    <3>1. running[a] \in [name : Names, told : BOOLEAN]
      BY DEF TypeOK
    <3> QED  BY <3>1
  <2> QED  BY <2>1, <2>2
<1>3. handler' \in [account : Accounts \cup {NoAccount}, name : Names,
                    asked : BOOLEAN, token : BOOLEAN]
  BY DEF TypeOK, LosesToken
<1> QED  BY <1>1, <1>2, <1>3

OpTypes == [at : {"idle", "ask", "store", "decide", "collect", "evict", "refresh", "list"},
            for : {"round", "approve", "revoke", "settings"}, login : Names,
            answer : [Accounts -> Listings], names : [Accounts -> Names],
            inventory : [Accounts -> Names], todo : SUBSET Accounts]

\* The reconcile lock with no holder has the type of its holder.
LEMMA TypeOfNoOp ==
    /\ NoOp \in [at : {"idle", "ask", "store", "decide", "collect", "evict", "refresh", "list"},
               for : {"round", "approve", "revoke", "settings"}, login : Names,
               answer : [Accounts -> Listings], names : [Accounts -> Names],
               inventory : [Accounts -> Names], todo : SUBSET Accounts]
    /\ NotListed \in Listings /\ ~NotListed.there
    /\ Nobody \in [Accounts -> Names]
    /\ NoOp.at = "idle" /\ NoOp.for = "round"
    /\ \A a \in Accounts : ~NoOp.answer[a].there
BY DEF NoOp, NotListed, Nobody, Names, Listings

\* The names the inventory knows are logins or none.
LEMMA TypeOfKnownNames ==
    ASSUME TypeOK
    PROVE  KnownNames \in [Accounts -> Names]
BY DEF TypeOK, KnownNames, KnownName

\* The preferences keep their type.
LEMMA TypeOfApproved ==
    ASSUME NEW p \in [allowed : SUBSET Logins, pins : [Logins -> Accounts \cup {NoAccount}],
                      revokedLogins : SUBSET Logins, revokedIds : SUBSET Accounts],
           NEW l \in Logins, NEW id \in Accounts \cup {NoAccount}
    PROVE  /\ ApproveOwner(p, l, id) \in
                [allowed : SUBSET Logins, pins : [Logins -> Accounts \cup {NoAccount}],
                 revokedLogins : SUBSET Logins, revokedIds : SUBSET Accounts]
           /\ RevokeOwner(p, l, id) \in
                [allowed : SUBSET Logins, pins : [Logins -> Accounts \cup {NoAccount}],
                 revokedLogins : SUBSET Logins, revokedIds : SUBSET Accounts]
BY DEF ApproveOwner, RevokeOwner

\* A round replaces the pins and the allowed logins.
LEMMA PrefsReplaced ==
    ASSUME NEW p \in [allowed : SUBSET Logins, pins : [Logins -> Accounts \cup {NoAccount}],
                      revokedLogins : SUBSET Logins, revokedIds : SUBSET Accounts],
           NEW x \in [Logins -> Accounts \cup {NoAccount}], NEW y \in SUBSET Logins
    PROVE  [p EXCEPT !.pins = x, !.allowed = y] \in
                [allowed : SUBSET Logins, pins : [Logins -> Accounts \cup {NoAccount}],
                 revokedLogins : SUBSET Logins, revokedIds : SUBSET Accounts]
OBVIOUS

\* A round: the accounts that are rightful are pinned.
LEMMA StoreKeepsOwners ==
    ASSUME OwnersInv, Store
    PROVE  TypeOK' /\ OpIsAboutSomebody' /\ ListedHaveNames' /\ PinsAreDecided' /\ NamesArePromised'
<1> DEFINE Named(l) == \E a \in Rightful : op.answer[a].name = l
<1>0. TypeOK /\ ListedHaveNames /\ OpIsAboutSomebody /\ PinsAreDecided /\ NamesArePromised
  BY DEF OwnersInv
<1>1. \A a \in Rightful : a \in Accounts /\ op.answer[a].name \in Logins
  BY <1>0 DEF Rightful, ListedHaveNames
<1>2. /\ Pinned.revokedLogins = prefs.revokedLogins /\ Pinned.revokedIds = prefs.revokedIds
      /\ Pinned.allowed \subseteq prefs.allowed \cup {op.answer[a].name : a \in Rightful}
      /\ Pinned.pins = [l \in Logins |-> IF Named(l)
                          THEN CHOOSE a \in Rightful : op.answer[a].name = l ELSE prefs.pins[l]]
  BY <1>0 DEF Pinned, TypeOK
<1>3. ASSUME NEW l \in Logins, Named(l)
      PROVE  Pinned.pins[l] \in Rightful /\ op.answer[Pinned.pins[l]].name = l
  BY <1>2, <1>3
<1>4. ASSUME NEW l \in Logins, ~Named(l)  PROVE Pinned.pins[l] = prefs.pins[l]
  BY <1>2, <1>4
<1>5. Pinned \in [allowed : SUBSET Logins, pins : [Logins -> Accounts \cup {NoAccount}],
                  revokedLogins : SUBSET Logins, revokedIds : SUBSET Accounts]
  <2>1. Pinned.pins \in [Logins -> Accounts \cup {NoAccount}]
    BY <1>0, <1>1, <1>2, <1>3, <1>4 DEF TypeOK
  <2>2. Pinned.allowed \subseteq Logins  BY <1>0, <1>1, <1>2 DEF TypeOK
  <2>3. prefs \in [allowed : SUBSET Logins, pins : [Logins -> Accounts \cup {NoAccount}],
                   revokedLogins : SUBSET Logins, revokedIds : SUBSET Accounts]
    BY <1>0 DEF TypeOK
  <2>4. Pinned = [prefs EXCEPT !.pins = Pinned.pins, !.allowed = Pinned.allowed]
    BY <2>3 DEF Pinned
  <2>5. Pinned.allowed \in SUBSET Logins  BY <2>2
  <2>6. [prefs EXCEPT !.pins = Pinned.pins, !.allowed = Pinned.allowed] \in
                [allowed : SUBSET Logins, pins : [Logins -> Accounts \cup {NoAccount}],
                 revokedLogins : SUBSET Logins, revokedIds : SUBSET Accounts]
    BY Zenon, <2>1, <2>3, <2>5, PrefsReplaced
  <2> QED  BY Zenon, <2>4, <2>6
<1>6. /\ prefs' = Pinned
      /\ granted' = granted \cup {a \in Rightful : op.answer[a].name \in promised}
      /\ promised' = promised \ {op.answer[a].name : a \in Rightful}
  BY DEF Store
<1>7. PinsAreDecided'
  <2> SUFFICES ASSUME NEW l \in Logins, Pinned.pins[l] # NoAccount
               PROVE  Pinned.pins[l] \in granted' \cup prefs.revokedIds
    BY <1>2, <1>6 DEF PinsAreDecided
  <2>1. CASE Named(l)
    <3>1. /\ Pinned.pins[l] \in Accounts /\ op.answer[Pinned.pins[l]].name = l
          /\ Pinned.pins[l] \in Rightful
      BY <1>1, <1>3, <2>1
    <3>2. Allowed(prefs, l, Pinned.pins[l])  BY <3>1 DEF Rightful
    <3>3. Pinned.pins[l] \in granted \/ l \in promised  BY <3>1, <3>2, AllowedIsDecided
    <3> QED  BY <1>6, <3>1, <3>3
  <2>2. CASE ~Named(l)  BY <1>0, <1>4, <1>6, <2>2 DEF PinsAreDecided
  <2> QED  BY <2>1, <2>2
<1>8. NamesArePromised'
  <2> SUFFICES ASSUME NEW l \in Logins, Pinned.pins[l] = NoAccount,
                      l \in Pinned.allowed \/ (l \in EnvOwners /\ l \notin prefs.revokedLogins)
               PROVE  l \in promised'
    BY <1>2, <1>6 DEF NamesArePromised
  <2>1. ~Named(l)  BY <1>1, <1>3, OwnersAssumption
  <2>2. l \in promised  BY <1>0, <1>2, <1>4, <2>1 DEF NamesArePromised
  <2> QED  BY <1>6, <2>1, <2>2
<1>9. cache' \in [Accounts -> Listings] /\ Answered = cache' /\
      \A a \in Accounts : Answered[a].there => Answered[a].name \in Logins
  <2>1. \A a \in Accounts : op.answer[a] \in Listings /\ cache[a] \in Listings  BY <1>0 DEF TypeOK
  <2>2. \A a \in Accounts : Answered[a] \in Listings /\ Answered[a].there = op.answer[a].there
                            /\ Answered[a].name = op.answer[a].name
    <3> SUFFICES ASSUME NEW a \in Accounts
                 PROVE  Answered[a] \in Listings /\ Answered[a].there = op.answer[a].there
                        /\ Answered[a].name = op.answer[a].name
      OBVIOUS
    <3>2. Answered[a] = [op.answer[a] EXCEPT !.allowed = a \in Rightful,
                            !.error = op.answer[a].there /\ cache[a].error]
      BY Zenon DEF Answered
    <3>3. op.answer[a] \in Listings  BY <2>1
    <3> DEFINE right == a \in Rightful
    <3>. right \in BOOLEAN  OBVIOUS
    <3> HIDE DEF right
    <3>4. PICK x \in BOOLEAN : x = right  OBVIOUS
    <3>5. PICK y \in BOOLEAN : y = (op.answer[a].there /\ cache[a].error)  OBVIOUS
    <3>6. Answered[a] = [op.answer[a] EXCEPT !.allowed = x, !.error = y]
      BY Zenon, <3>2, <3>4, <3>5 DEF right
    <3> QED  BY <3>3, <3>6 DEF Listings
  <2> QED  BY <1>0, <2>2 DEF Store, Answered, ListedHaveNames
<1>10. /\ op' \in [at : {"idle", "ask", "store", "decide", "collect", "evict", "refresh", "list"},
               for : {"round", "approve", "revoke", "settings"}, login : Names,
               answer : [Accounts -> Listings], names : [Accounts -> Names],
               inventory : [Accounts -> Names], todo : SUBSET Accounts]
       /\ op'.answer = Answered /\ op'.login = op.login /\ op'.for = op.for
       /\ op'.at \in {"list", "decide"} /\ (op'.at = "decide" <=> op.for # "round")
       /\ op.at = "store"
  BY <1>0, <1>9 DEF Store, TypeOK, Rightful
<1>11. TypeOK'
  BY <1>0, <1>1, <1>5, <1>6, <1>9, <1>10 DEF Store, TypeOK, queue
<1>12. OpIsAboutSomebody' /\ ListedHaveNames'
  <2>1. op.for \in {"round", "approve", "revoke"}
    BY <1>0, <1>10 DEF OpIsAboutSomebody
  <2> QED  BY <1>0, <1>9, <1>10, <2>1 DEF OpIsAboutSomebody, Decides, ListedHaveNames
<1> QED  BY <1>7, <1>8, <1>11, <1>12

\* The account a decision is about: an installation of today or a pin.
LEMMA HolderIsAnAccount ==
    ASSUME TypeOK, op.login \in Logins
    PROVE  /\ Holder \in Accounts \cup {NoAccount}
           /\ Holders # {} => Holder \in Accounts
BY DEF TypeOK, Holder, Holders

\* Approving and revoking keep the owners' invariant.
LEMMA DecisionsKeepOwners ==
    ASSUME OwnersInv, Approve \/ Revoke
    PROVE  TypeOK' /\ OpIsAboutSomebody' /\ ListedHaveNames' /\ PinsAreDecided' /\ NamesArePromised'
<1>0. TypeOK /\ ListedHaveNames /\ OpIsAboutSomebody /\ PinsAreDecided /\ NamesArePromised
  BY DEF OwnersInv
<1>1. op.login \in Logins  BY <1>0 DEF Approve, Revoke, OpIsAboutSomebody, Decides
<1>2. Holder \in Accounts \cup {NoAccount} /\ (Holders # {} => Holder \in Accounts)
  BY <1>0, <1>1, HolderIsAnAccount
<1>3. prefs \in [allowed : SUBSET Logins, pins : [Logins -> Accounts \cup {NoAccount}],
                 revokedLogins : SUBSET Logins, revokedIds : SUBSET Accounts]
  BY <1>0 DEF TypeOK
<1>4. CASE Approve /\ Holders = {}
  BY <1>0, <1>4, TypeOfNoOp DEF Approve, TypeOK, OpIsAboutSomebody, Decides, ListedHaveNames,
     PinsAreDecided, NamesArePromised, queue
<1>5. CASE Approve /\ Holders # {}
  <2>1. /\ prefs' = ApproveOwner(prefs, op.login, Holder)
        /\ granted' = granted \cup {Holder} /\ promised' = promised \ {op.login}
        /\ Holder \in Accounts
    BY <1>2, <1>5 DEF Approve
  <2>2. op' = [NoOp EXCEPT !.at = "refresh"]  BY <1>5 DEF Approve
  <2>3. TypeOK'
    <3>1. prefs' \in [allowed : SUBSET Logins, pins : [Logins -> Accounts \cup {NoAccount}],
                     revokedLogins : SUBSET Logins, revokedIds : SUBSET Accounts]
      BY <1>1, <1>3, <2>1, TypeOfApproved
    <3> QED  BY <1>0, <1>5, <2>1, <2>2, <3>1, TypeOfNoOp DEF Approve, TypeOK, queue
  <2>4. OpIsAboutSomebody' /\ ListedHaveNames'
    BY <1>0, <1>5, <2>2, TypeOfNoOp DEF Approve, OpIsAboutSomebody, Decides, ListedHaveNames
  <2>5. PinsAreDecided' /\ NamesArePromised'
    BY <1>0, <1>1, <1>3, <2>1, OwnersAssumption DEF PinsAreDecided, NamesArePromised, ApproveOwner
  <2> QED  BY <2>3, <2>4, <2>5
<1>6. CASE Revoke
  <2>1. /\ prefs' = RevokeOwner(prefs, op.login, Holder)
        /\ granted' = granted \ {Holder} /\ promised' = promised \ {op.login}
    BY <1>6 DEF Revoke
  <2>2. op' = [NoOp EXCEPT !.at = "collect", !.for = "revoke"]  BY <1>6 DEF Revoke
  <2>3. TypeOK'
    <3>1. prefs' \in [allowed : SUBSET Logins, pins : [Logins -> Accounts \cup {NoAccount}],
                     revokedLogins : SUBSET Logins, revokedIds : SUBSET Accounts]
      BY <1>1, <1>2, <1>3, <2>1, TypeOfApproved
    <3> QED  BY <1>0, <1>6, <2>1, <2>2, <3>1, TypeOfNoOp DEF Revoke, TypeOK, queue
  <2>4. OpIsAboutSomebody' /\ ListedHaveNames'
    BY <1>0, <1>6, <2>2, TypeOfNoOp DEF Revoke, OpIsAboutSomebody, Decides, ListedHaveNames
  <2>5. PinsAreDecided' /\ NamesArePromised'
    BY <1>0, <1>1, <1>2, <1>3, <2>1, OwnersAssumption
    DEF PinsAreDecided, NamesArePromised, RevokeOwner
  <2> QED  BY <2>3, <2>4, <2>5
<1> QED  BY <1>4, <1>5, <1>6

\* server_settings: what is saved, step by step.
LEMMA SavedIs ==
    ASSUME TypeOK, NEW r \in prefs.allowed \cup {NoLogin},
           NEW x \in (Logins \ prefs.allowed) \cup {NoLogin}
    PROVE  LET saved == Saved(r, x)
               pin(l) == prefs.pins[l]
           IN  /\ saved \in [allowed : SUBSET Logins, pins : [Logins -> Accounts \cup {NoAccount}],
                             revokedLogins : SUBSET Logins, revokedIds : SUBSET Accounts]
               /\ saved.pins = prefs.pins
               /\ saved.allowed \subseteq (prefs.allowed \ {r}) \cup {l \in {x} : Accepted(x)}
               /\ saved.revokedLogins \subseteq prefs.revokedLogins \cup ({r} \ {NoLogin})
               /\ prefs.revokedLogins \cup ({r} \ {NoLogin}) \subseteq saved.revokedLogins
               /\ (prefs.revokedIds \cup (IF r = NoLogin THEN {} ELSE {pin(r)} \ {NoAccount}))
                     \ (IF Accepted(x) THEN {pin(x)} ELSE {}) \subseteq saved.revokedIds
<1> DEFINE input == [prefs EXCEPT !.allowed = (@ \ {r}) \cup ({x} \ {NoLogin})]
           less  == IF r = NoLogin THEN input ELSE RevokeOwner(input, r, prefs.pins[r])
           T == [allowed : SUBSET Logins, pins : [Logins -> Accounts \cup {NoAccount}],
                 revokedLogins : SUBSET Logins, revokedIds : SUBSET Accounts]
<1>0. prefs \in T /\ NoLogin \notin Logins /\ NoAccount \notin Accounts
  BY OwnersAssumption DEF TypeOK
<1>1. /\ input \in T /\ input.pins = prefs.pins
      /\ input.allowed = (prefs.allowed \ {r}) \cup ({x} \ {NoLogin})
      /\ input.revokedLogins = prefs.revokedLogins /\ input.revokedIds = prefs.revokedIds
  BY <1>0
<1> HIDE DEF input
<1>2. /\ less \in T /\ less.pins = prefs.pins /\ less.allowed \subseteq input.allowed
      /\ less.revokedLogins = prefs.revokedLogins \cup ({r} \ {NoLogin})
      /\ less.revokedIds = prefs.revokedIds
                             \cup (IF r = NoLogin THEN {} ELSE {prefs.pins[r]} \ {NoAccount})
  <2>1. CASE r = NoLogin  BY <1>1, <2>1
  <2>2. CASE r # NoLogin
    <3>1. r \in Logins /\ prefs.pins[r] \in Accounts \cup {NoAccount}  BY <1>0, <2>2
    <3>2. less = RevokeOwner(input, r, prefs.pins[r])  BY <2>2
    <3>3. less \in T  BY <1>1, <3>1, <3>2, TypeOfApproved
    <3> QED  BY <1>1, <2>2, <3>1, <3>2, <3>3 DEF RevokeOwner
  <2> QED  BY <2>1, <2>2
<1> HIDE DEF less
<1>3. CASE Accepted(x)
  <2>1. x \in Logins /\ prefs.pins[x] \in Accounts \cup {NoAccount} /\ x \notin prefs.revokedLogins
        /\ x # r
    BY <1>0, <1>3 DEF Accepted, OwnerAllowed
  <2>2. Saved(r, x) = ApproveOwner(less, x, prefs.pins[x])  BY <1>3 DEF Saved, less, input
  <2>3. Saved(r, x) \in T  BY <1>2, <2>1, <2>2, TypeOfApproved
  <2>4. /\ Saved(r, x).revokedLogins = less.revokedLogins \ {x}
        /\ Saved(r, x).revokedIds = less.revokedIds \ {prefs.pins[x]}
        /\ Saved(r, x).allowed \subseteq less.allowed \cup {x}
        /\ Saved(r, x).pins = [less.pins EXCEPT ![x] =
                                  IF prefs.pins[x] = NoAccount THEN @ ELSE prefs.pins[x]]
    BY <1>2, <2>2 DEF ApproveOwner
  <2>5. Saved(r, x).pins = prefs.pins  BY <1>0, <1>2, <2>1, <2>4
  <2>6. Saved(r, x).allowed \subseteq (prefs.allowed \ {r}) \cup {l \in {x} : Accepted(x)}
    BY <1>1, <1>2, <1>3, <2>4
  <2>7. Saved(r, x).revokedLogins = prefs.revokedLogins \cup ({r} \ {NoLogin})
    BY <1>2, <2>1, <2>4
  <2> QED  BY <1>2, <1>3, <2>3, <2>4, <2>5, <2>6, <2>7
<1>4. CASE ~Accepted(x)
  <2>1. Saved(r, x) = [less EXCEPT !.allowed = @ \ {x}]  BY <1>4 DEF Saved, less, input
  <2>2. /\ Saved(r, x) \in T /\ Saved(r, x).pins = less.pins
        /\ Saved(r, x).allowed = less.allowed \ {x}
        /\ Saved(r, x).revokedLogins = less.revokedLogins
        /\ Saved(r, x).revokedIds = less.revokedIds
    BY <1>2, <2>1
  <2> QED  BY <1>1, <1>2, <1>4, <2>2
<1> QED  BY <1>3, <1>4

\* Saving the settings keeps the owners' invariant.
LEMMA SettingsKeepOwners ==
    ASSUME OwnersInv, Settings
    PROVE  TypeOK' /\ OpIsAboutSomebody' /\ ListedHaveNames' /\ PinsAreDecided' /\ NamesArePromised'
<1>0. TypeOK /\ ListedHaveNames /\ PinsAreDecided /\ NamesArePromised
  BY DEF OwnersInv
<1>1. PICK r \in prefs.allowed \cup {NoLogin}, x \in (Logins \ prefs.allowed) \cup {NoLogin} :
        /\ prefs' = Saved(r, x)
        /\ granted' = (IF r = NoLogin THEN granted ELSE granted \ {prefs.pins[r]})
                      \cup (IF Accepted(x) THEN {prefs.pins[x]} \ {NoAccount} ELSE {})
        /\ promised' = (promised \ {r})
                       \cup {l \in {x} : Accepted(x) /\ prefs.pins[x] = NoAccount}
  BY DEF Settings
<1>2. /\ prefs' \in [allowed : SUBSET Logins, pins : [Logins -> Accounts \cup {NoAccount}],
                     revokedLogins : SUBSET Logins, revokedIds : SUBSET Accounts]
      /\ prefs'.pins = prefs.pins
      /\ prefs'.allowed \subseteq (prefs.allowed \ {r}) \cup {l \in {x} : Accepted(x)}
      /\ prefs.revokedLogins \cup ({r} \ {NoLogin}) \subseteq prefs'.revokedLogins
      /\ (prefs.revokedIds \cup (IF r = NoLogin THEN {} ELSE {prefs.pins[r]} \ {NoAccount}))
            \ (IF Accepted(x) THEN {prefs.pins[x]} ELSE {}) \subseteq prefs'.revokedIds
  BY <1>0, <1>1, SavedIs
<1>3. Accepted(x) => x \in Logins  BY DEF Accepted
<1>4. prefs \in [allowed : SUBSET Logins, pins : [Logins -> Accounts \cup {NoAccount}],
                 revokedLogins : SUBSET Logins, revokedIds : SUBSET Accounts]
  BY <1>0 DEF TypeOK
<1>5. PinsAreDecided'
  <2> SUFFICES ASSUME NEW l \in Logins, prefs.pins[l] # NoAccount
               PROVE  prefs.pins[l] \in granted' \cup prefs'.revokedIds
    BY <1>2 DEF PinsAreDecided
  <2>1. prefs.pins[l] \in granted \cup prefs.revokedIds  BY <1>0 DEF PinsAreDecided
  <2>2. CASE Accepted(x) /\ prefs.pins[x] = prefs.pins[l]  BY <1>1, <2>2
  <2>3. CASE ~(Accepted(x) /\ prefs.pins[x] = prefs.pins[l])
    <3>1. CASE r # NoLogin /\ prefs.pins[r] = prefs.pins[l]  BY <1>2, <2>3, <3>1
    <3>2. CASE ~(r # NoLogin /\ prefs.pins[r] = prefs.pins[l])  BY <1>1, <1>2, <2>1, <2>3, <3>2
    <3> QED  BY <3>1, <3>2
  <2> QED  BY <2>2, <2>3
<1>6. NamesArePromised'
  <2> SUFFICES ASSUME NEW l \in Logins, prefs.pins[l] = NoAccount,
                      l \in prefs'.allowed \/ (l \in EnvOwners /\ l \notin prefs'.revokedLogins)
               PROVE  l \in promised'
    BY <1>2 DEF NamesArePromised
  <2>1. CASE l = x /\ Accepted(x)  BY <1>1, <2>1
  <2>2. CASE ~(l = x /\ Accepted(x))
    <3>1. l # r /\ (l \in prefs.allowed \/ (l \in EnvOwners /\ l \notin prefs.revokedLogins))
      BY <1>2, <2>2, OwnersAssumption
    <3>2. l \in promised  BY <1>0, <3>1 DEF NamesArePromised
    <3> QED  BY <1>1, <3>1, <3>2
  <2> QED  BY <2>1, <2>2
<1>7. op' = [NoOp EXCEPT !.at = "collect", !.for = "settings"]  BY DEF Settings
<1>8. granted' \subseteq Accounts /\ promised' \subseteq Logins
  BY <1>0, <1>1, <1>3, <1>4 DEF TypeOK
<1>9. TypeOK'  BY <1>0, <1>2, <1>7, <1>8, TypeOfNoOp DEF Settings, TypeOK, queue
<1>10. OpIsAboutSomebody' /\ ListedHaveNames'
  BY <1>0, <1>7, TypeOfNoOp DEF Settings, OpIsAboutSomebody, Decides, ListedHaveNames
<1> QED  BY <1>5, <1>6, <1>9, <1>10

\* What else happens does not change who is allowed.
LEMMA RestKeepsOwners ==
    ASSUME UNCHANGED <<prefs, granted, promised>>, PinsAreDecided, NamesArePromised
    PROVE  PinsAreDecided' /\ NamesArePromised'
BY DEF PinsAreDecided, NamesArePromised

\* The steps that leave the reconcile lock's holder and the cache alone.
LEMMA EnqueueKeepsTypes ==
    ASSUME TypeOK, Enqueue
    PROVE  TypeOK' /\ UNCHANGED <<cache, op, prefs, granted, promised>>
<1>1. waiting' \in [Accounts -> Names]  BY DEF Enqueue, TypeOK
<1>2. handler' \in [account : Accounts \cup {NoAccount}, name : Names,
                    asked : BOOLEAN, token : BOOLEAN]
  BY DEF Enqueue, NoHandler, Names
<1> QED  BY <1>1, <1>2 DEF Enqueue, TypeOK, history

\* Jobs that come, start, end or are checked leave the owners alone.
LEMMA QueueStepsKeepTypes ==
    ASSUME TypeOK, NEW a \in Accounts,
           Rename(a) \/ Install(a) \/ Webhook(a) \/ Request(a) \/ Start(a) \/ Finish(a)
    PROVE  TypeOK' /\ UNCHANGED <<cache, op, prefs, granted, promised>>
<1>0. github \in [Accounts -> [login : Logins, app : {"active", "suspended", "gone"}]]
  BY DEF TypeOK
<1>1. CASE Rename(a)
  <2>1. PICK l \in Logins : github' = [github EXCEPT ![a].login = l]  BY <1>1 DEF Rename
  <2>2. github' \in [Accounts -> [login : Logins, app : {"active", "suspended", "gone"}]]
    BY <1>0, <2>1
  <2> QED  BY <1>1, <2>2 DEF Rename, TypeOK, history, queue
<1>2. CASE Install(a)
  <2>1. github' \in [Accounts -> [login : Logins, app : {"active", "suspended", "gone"}]]
    BY <1>0, <1>2 DEF Install
  <2> QED  BY <1>2, <2>1 DEF Install, TypeOK, history, queue
<1>3. CASE Webhook(a)
  <2>1. github[a].login \in Names  BY DEF TypeOK, Names
  <2>2. handler' \in [account : Accounts \cup {NoAccount}, name : Names,
                      asked : BOOLEAN, token : BOOLEAN]
    BY <1>3, <2>1 DEF Webhook
  <2> QED  BY <1>3, <2>2 DEF Webhook, TypeOK, history
<1>4. CASE Request(a)
  <2>1. listed[a] \in Names  BY DEF TypeOK
  <2>2. handler' \in [account : Accounts \cup {NoAccount}, name : Names,
                      asked : BOOLEAN, token : BOOLEAN]
    BY <1>4, <2>1 DEF Request
  <2> QED  BY <1>4, <2>2 DEF Request, TypeOK, history
<1>5. CASE Start(a)
  <2>1. /\ waiting' \in [Accounts -> Names]
        /\ running' \in [Accounts -> [name : Names, told : BOOLEAN]]
    BY <1>5 DEF Start, TypeOK, Names
  <2> QED  BY <1>5, <2>1 DEF Start, TypeOK, history
<1>6. CASE Finish(a)
  <2>1. running' \in [Accounts -> [name : Names, told : BOOLEAN]]
    BY <1>6 DEF Finish, NotRun, TypeOK, Names
  <2> QED  BY <1>6, <2>1 DEF Finish, TypeOK, history
<1> QED  BY <1>1, <1>2, <1>3, <1>4, <1>5, <1>6

\* The steps under the lock that decide nothing.
OwnersKept == /\ TypeOK' /\ OpIsAboutSomebody' /\ ListedHaveNames'
              /\ UNCHANGED <<prefs, granted, promised>>

\* A reconcile round keeps the owners' invariant up to the point where it stores.
LEMMA RoundStepsKeepOwners ==
    ASSUME OwnersInv,
           \/ \E a \in Accounts : Lifecycle(a) \/ List(a) \/ ListFails(a)
           \/ \E for \in {"approve", "revoke"} : Decide(for)
           \/ Round \/ Ask \/ AskFails \/ Collect \/ Evict \/ ListEnd \/ Restart
    PROVE  OwnersKept
<1>0. TypeOK /\ ListedHaveNames /\ OpIsAboutSomebody  BY DEF OwnersInv
<1> USE TypeOfNoOp DEF OwnersKept, history, OpIsAboutSomebody, Decides, ListedHaveNames
<1>1. ASSUME NEW a \in Accounts, Lifecycle(a)  PROVE OwnersKept
  <2>1. PICK gone : RemoveRepos(gone)  BY <1>1 DEF Lifecycle
  <2>2. /\ listed' \in [Accounts -> Names]
        /\ waiting' \in [Accounts -> Names]
        /\ running' \in [Accounts -> [name : Names, told : BOOLEAN]]
        /\ handler' \in [account : Accounts \cup {NoAccount}, name : Names,
                         asked : BOOLEAN, token : BOOLEAN]
    BY <1>0, <2>1, TypeOfRemoval DEF RemoveRepos, TypeOK, Names
  <2>3. cache' \in [Accounts -> Listings] /\ \A b \in Accounts :
            cache'[b].there = cache[b].there /\ cache'[b].name = cache[b].name
    <3>1. cache \in [Accounts -> Listings]  BY <1>0 DEF TypeOK
    <3> DEFINE e == [cache[a] EXCEPT !.suspended = @ \/ cache[a].there]
    <3>2. e \in Listings /\ e.there = cache[a].there /\ e.name = cache[a].name
      BY <3>1 DEF Listings
    <3>3. cache' = [cache EXCEPT ![a] = e]  BY <1>1 DEF Lifecycle
    <3> HIDE DEF e
    <3> QED  BY <3>1, <3>2, <3>3
  <2>4. UNCHANGED <<github, prefs, op, granted, promised>>  BY <1>1 DEF Lifecycle
  <2>5. TypeOK'  BY <1>0, <2>2, <2>3, <2>4 DEF TypeOK
  <2> QED  BY <1>0, <2>3, <2>4, <2>5
<1>2. ASSUME NEW a \in Accounts, List(a)  PROVE OwnersKept
  <2>1. PICK gone : RemoveRepos(gone)  BY <1>2 DEF List
  <2>2. /\ listed' \in [Accounts -> Names]
        /\ waiting' \in [Accounts -> Names]
        /\ running' \in [Accounts -> [name : Names, told : BOOLEAN]]
        /\ handler' \in [account : Accounts \cup {NoAccount}, name : Names,
                         asked : BOOLEAN, token : BOOLEAN]
    BY <1>0, <2>1, TypeOfRemoval DEF RemoveRepos, TypeOK, Names
  <2>3. cache' \in [Accounts -> Listings] /\ \A b \in Accounts :
            cache'[b].there = cache[b].there /\ cache'[b].name = cache[b].name
    <3>1. cache \in [Accounts -> Listings]  BY <1>0 DEF TypeOK
    <3> DEFINE e == [cache[a] EXCEPT !.error = FALSE]
    <3>2. e \in Listings /\ e.there = cache[a].there /\ e.name = cache[a].name
      BY <3>1 DEF Listings
    <3>3. cache' = [cache EXCEPT ![a] = e]  BY <1>2 DEF List
    <3> HIDE DEF e
    <3> QED  BY <3>1, <3>2, <3>3
  <2>4. UNCHANGED <<github, prefs, granted, promised>>  BY <1>2 DEF List
  <2> DEFINE answer    == [op.answer EXCEPT ![a].error = FALSE]
             inventory == [op.inventory EXCEPT
                              ![a] = IF a \in Owning THEN github[a].login ELSE NoLogin]
  <2>5. /\ answer \in [Accounts -> Listings]
        /\ \A b \in Accounts : answer[b].there = op.answer[b].there
                               /\ answer[b].name = op.answer[b].name
    <3>1. op.answer \in [Accounts -> Listings]  BY <1>0 DEF TypeOK
    <3> DEFINE e == [op.answer[a] EXCEPT !.error = FALSE]
    <3>2. e \in Listings /\ e.there = op.answer[a].there /\ e.name = op.answer[a].name
      BY <3>1 DEF Listings
    <3>3. answer = [op.answer EXCEPT ![a] = e]  OBVIOUS
    <3> HIDE DEF e, answer
    <3> QED  BY <3>1, <3>2, <3>3
  <2>6. inventory \in [Accounts -> Names]  BY <1>0 DEF TypeOK, Names
  <2>7. \/ op' = [op EXCEPT !.todo = @ \ {a}, !.answer = answer, !.inventory = inventory]
        \/ op' = NoOp
    BY <1>2 DEF List
  <2> HIDE DEF answer, inventory
  <2>8. op.at = "list"  BY <1>2 DEF List
  <2>9. op' \in OpTypes /\ op'.at # "decide" /\ ~Decides' /\ op'.at \notin {"ask", "store", "decide"}
    <3>1. CASE op' = NoOp  BY <3>1 DEF OpTypes
    <3>2. CASE op' = [op EXCEPT !.todo = @ \ {a}, !.answer = answer, !.inventory = inventory]
      <4>1. op \in OpTypes  BY <1>0 DEF TypeOK, OpTypes
      <4>2. op' \in OpTypes /\ op'.at = "list"  BY <2>5, <2>6, <2>8, <3>2, <4>1 DEF OpTypes
      <4> QED  BY <4>2
    <3> QED  BY <2>7, <3>1, <3>2
  <2>10. \A b \in Accounts : op'.answer[b].there =>
            op.answer[b].there /\ op'.answer[b].name = op.answer[b].name
    <3>1. op \in OpTypes  BY <1>0 DEF TypeOK, OpTypes
    <3>2. op' = NoOp \/ op'.answer = answer  BY <2>7, <3>1 DEF OpTypes
    <3> QED  BY <2>5, <3>2
  <2>11. TypeOK'  BY <2>2, <2>3, <2>4, <2>9, <1>0 DEF TypeOK, OpTypes
  <2> QED  BY <1>0, <2>3, <2>4, <2>9, <2>10, <2>11
<1>3. ASSUME NEW a \in Accounts, ListFails(a)  PROVE OwnersKept
  <2>1. PICK kept \in {NoLogin, listed[a]} :
            op' = [op EXCEPT !.todo = @ \ {a}, !.answer[a].error = TRUE, !.inventory[a] = kept]
    BY <1>3 DEF ListFails
  <2>2. kept \in Names  BY <1>0 DEF TypeOK, Names
  <2> DEFINE answer    == [op.answer EXCEPT ![a].error = TRUE]
             inventory == [op.inventory EXCEPT ![a] = kept]
  <2>3. /\ answer \in [Accounts -> Listings]
        /\ \A b \in Accounts : answer[b].there = op.answer[b].there
                               /\ answer[b].name = op.answer[b].name
    <3>1. op.answer \in [Accounts -> Listings]  BY <1>0 DEF TypeOK
    <3> DEFINE e == [op.answer[a] EXCEPT !.error = TRUE]
    <3>2. e \in Listings /\ e.there = op.answer[a].there /\ e.name = op.answer[a].name
      BY <3>1 DEF Listings
    <3>3. answer = [op.answer EXCEPT ![a] = e]  OBVIOUS
    <3> HIDE DEF e, answer
    <3> QED  BY <3>1, <3>2, <3>3
  <2>4. inventory \in [Accounts -> Names]  BY <1>0, <2>2 DEF TypeOK
  <2>5. op' = [op EXCEPT !.todo = @ \ {a}, !.answer = answer, !.inventory = inventory]
        /\ op.at = "list"
    <3>1. op.at = "list"  BY <1>3 DEF ListFails
    <3>2. op' = [op EXCEPT !.todo = @ \ {a}, !.answer = answer, !.inventory = inventory]
      BY <2>1
    <3> QED  BY <3>1, <3>2
  <2> HIDE DEF answer, inventory
  <2>6. op' \in OpTypes /\ op'.at = "list"
    BY <1>0, <2>3, <2>4, <2>5 DEF TypeOK, OpTypes
  <2>7. \A b \in Accounts : op'.answer[b].there =>
            op.answer[b].there /\ op'.answer[b].name = op.answer[b].name
    BY <1>0, <2>3, <2>5 DEF TypeOK
  <2>8. TypeOK'  BY <1>0, <1>3, <2>6 DEF ListFails, TypeOK, OpTypes, queue
  <2> QED  BY <1>0, <1>3, <2>6, <2>7, <2>8 DEF ListFails
<1>4. ASSUME NEW for \in {"approve", "revoke"}, Decide(for)  PROVE OwnersKept
  <2>1. PICK l \in Logins : op' = [NoOp EXCEPT !.at = "ask", !.for = for, !.login = l]
    BY <1>4 DEF Decide
  <2> QED  BY <1>0, <1>4, <2>1 DEF Decide, TypeOK, queue, Names
<1>5. CASE Round
  <2>1. op' = [NoOp EXCEPT !.at = "ask", !.names = KnownNames]  BY <1>5 DEF Round
  <2> QED  BY <1>0, <1>5, <2>1, TypeOfKnownNames DEF Round, TypeOK, queue
<1>6. CASE Ask
  <2> DEFINE answer == [a \in Accounts |->
                IF github[a].app = "gone" THEN NotListed
                ELSE [there |-> TRUE, name |-> github[a].login, allowed |-> FALSE,
                      suspended |-> github[a].app = "suspended", error |-> FALSE]]
  <2>1. answer \in [Accounts -> Listings] /\ \A a \in Accounts : answer[a].there => answer[a].name \in Logins
    BY <1>0 DEF TypeOK, Listings, Names
  <2> HIDE DEF answer
  <2>2. op' = [op EXCEPT !.at = "store", !.answer = answer]  BY <1>6 DEF Ask, answer
  <2> QED  BY <1>0, <1>6, <2>1, <2>2 DEF Ask, TypeOK, queue
<1>7. CASE AskFails
  <2>1. op' \in {[op EXCEPT !.at = "decide", !.answer = cache], NoOp} /\ op.at = "ask"
        /\ (op' # NoOp => op.for = "revoke")
    BY <1>7 DEF AskFails
  <2> QED  BY <1>0, <1>7, <2>1 DEF AskFails, TypeOK, queue
<1>8. CASE Collect
  BY <1>0, <1>8, TypeOfKnownNames DEF Collect, TypeOK, queue
<1>9. CASE Evict
  <2>1. PICK gone : RemoveRepos(gone)  BY <1>9 DEF Evict
  <2>2. /\ listed' \in [Accounts -> Names]
        /\ waiting' \in [Accounts -> Names]
        /\ running' \in [Accounts -> [name : Names, told : BOOLEAN]]
        /\ handler' \in [account : Accounts \cup {NoAccount}, name : Names,
                         asked : BOOLEAN, token : BOOLEAN]
    BY <1>0, <2>1, TypeOfRemoval DEF RemoveRepos, TypeOK, Names
  <2> QED  BY <1>0, <1>9, <2>2 DEF Evict, TypeOK
<1>10. CASE ListEnd
  <2>1. PICK gone : RemoveWork(gone) /\ LosesToken(gone)  BY <1>10 DEF ListEnd
  <2>2. /\ waiting' \in [Accounts -> Names]
        /\ running' \in [Accounts -> [name : Names, told : BOOLEAN]]
        /\ handler' \in [account : Accounts \cup {NoAccount}, name : Names,
                         asked : BOOLEAN, token : BOOLEAN]
    BY <1>0, <2>1, TypeOfRemoval
  <2>3. /\ listed' = op.inventory /\ cache' = op.answer /\ op' = NoOp
        /\ UNCHANGED <<github, prefs, granted, promised>>
    BY <1>10 DEF ListEnd
  <2> QED  BY <1>0, <2>2, <2>3 DEF TypeOK
<1>11. CASE Restart
  BY <1>0, <1>11 DEF Restart, TypeOK, NotRun, NoHandler, Names
<1> HIDE DEF OwnersKept
<1> QED  BY <1>1, <1>2, <1>3, <1>4, <1>5, <1>6, <1>7, <1>8, <1>9, <1>10, <1>11

\* Every step keeps the invariant.
THEOREM OwnersStep == OwnersInv /\ [Next]_vars => OwnersInv'
<1> SUFFICES ASSUME OwnersInv, [Next]_vars  PROVE OwnersInv'
  OBVIOUS
<1>0. TypeOK /\ OpIsAboutSomebody /\ ListedHaveNames /\ PinsAreDecided /\ NamesArePromised
  BY DEF OwnersInv
<1>1. ASSUME NEW a \in Accounts,
             \/ Rename(a) \/ Install(a) \/ Webhook(a) \/ Request(a) \/ Start(a) \/ Finish(a)
      PROVE  OwnersInv'
  BY <1>0, <1>1, QueueStepsKeepTypes, RestKeepsOwners
  DEF OwnersInv, OpIsAboutSomebody, Decides, ListedHaveNames
<1>2. CASE Enqueue
  BY <1>0, <1>2, EnqueueKeepsTypes, RestKeepsOwners
  DEF OwnersInv, OpIsAboutSomebody, Decides, ListedHaveNames
<1>3. CASE \/ \E a \in Accounts : Lifecycle(a) \/ List(a) \/ ListFails(a)
           \/ \E for \in {"approve", "revoke"} : Decide(for)
           \/ Round \/ Ask \/ AskFails \/ Collect \/ Evict \/ ListEnd \/ Restart
  BY <1>0, <1>3, RoundStepsKeepOwners, RestKeepsOwners DEF OwnersInv, OwnersKept
<1>4. CASE Store  BY <1>4, StoreKeepsOwners DEF OwnersInv
<1>5. CASE Approve \/ Revoke  BY <1>5, DecisionsKeepOwners DEF OwnersInv
<1>6. CASE Settings  BY <1>6, SettingsKeepOwners DEF OwnersInv
<1>7. CASE UNCHANGED vars
  BY <1>0, <1>7 DEF vars, history, OwnersInv, TypeOK, OpIsAboutSomebody, Decides, ListedHaveNames,
     PinsAreDecided, NamesArePromised
<1> QED  BY <1>1, <1>2, <1>3, <1>4, <1>5, <1>6, <1>7 DEF Next

\* Whoever is let in was approved and not revoked since, or promised by name.
THEOREM OnlyTheApproved == Spec => []AllowedMeansApproved
BY OwnersInit, OwnersStep, InvariantApproves, PTL DEF Spec

-------------------------------------------------------------------------------
(* Work.                                                                   *)

\* The name check refuses what is revoked.
LEMMA RevokedIsRefused ==
    ASSUME TypeOK, NEW l \in Logins, NameAllowed(prefs, l)
    PROVE  ~NameRevoked(l)
BY DEF NameAllowed, Allowed, OwnerAllowed, NameRevoked

\* A removal leaves no work of what it removes, and adds none.
LEMMA RemovalEndsWork ==
    ASSUME TypeOK, NEW gone, RemoveWork(gone), NEW a \in Accounts, NEW l \in Logins, Works(a, l)'
    PROVE  Works(a, l) /\ a \notin gone
<1>1. l # NoLogin  BY OwnersAssumption
<1>2. waiting'[a] = IF a \in gone THEN NoLogin ELSE waiting[a]  BY DEF RemoveWork
<1>0. running \in [Accounts -> [name : Names, told : BOOLEAN]]  BY DEF TypeOK
<1>3. running'[a].name = running[a].name /\
      (running'[a].told <=> running[a].told \/ (a \in gone /\ running[a] # NotRun))
  BY <1>0 DEF RemoveWork
<1>4. CASE waiting'[a] = l  BY <1>1, <1>2, <1>4 DEF Works
<1>5. CASE running'[a].name = l /\ ~running'[a].told
  <2>0. NotRun.name = NoLogin  BY DEF NotRun
  <2>a. running[a].name = l  BY Zenon, <1>3, <1>5
  <2>1. running[a].name = l /\ running[a] # NotRun  BY Zenon, <1>1, <2>0, <2>a
  <2>2. ~running[a].told /\ a \notin gone  BY <1>3, <1>5, <2>1
  <2> QED  BY <2>1, <2>2 DEF Works
<1> QED  BY <1>4, <1>5 DEF Works

\* Steps that revoke nothing, give work to nobody revoked and do not end an eviction.
LEMMA NothingRevokedNothingNew ==
    ASSUME WorkInv,
           \A l \in Logins : NameRevoked(l)' => NameRevoked(l),
           \A a \in Accounts, l \in Logins : Works(a, l)' /\ NameRevoked(l)' => Works(a, l),
           overlooked' = overlooked,
           \/ op'.at = op.at /\ op'.names = op.names
           \/ op.at \notin {"collect", "evict"} /\ op'.at \notin {"collect", "evict"}
    PROVE  WorkInv'
<1>1. CASE op'.at = "collect"
  BY <1>1 DEF WorkInv, RevokedHasNoWork, CollectedTheRevoked, Evicting
<1>2. CASE op'.at = "evict"
  <2>1. op.at = "evict" /\ op'.names = op.names  BY <1>2
  <2>2. CollectedTheRevoked'  BY <2>1 DEF WorkInv, CollectedTheRevoked
  <2> QED  BY <1>2, <2>2 DEF WorkInv, RevokedHasNoWork, Evicting
<1>3. CASE op'.at \notin {"collect", "evict"}
  <2>1. op.at \notin {"collect", "evict"}  BY <1>3
  <2>2. \A a \in Accounts \ overlooked, l \in Logins : Works(a, l) => ~NameRevoked(l)
    BY <2>1 DEF WorkInv, RevokedHasNoWork, Evicting, NameRevoked
  <2>3. \A a \in Accounts \ overlooked', l \in Logins : Works(a, l)' => ~NameRevoked(l)'
    BY <2>2
  <2> QED  BY <1>3, <2>3 DEF WorkInv, RevokedHasNoWork, CollectedTheRevoked, Evicting, NameRevoked
<1> QED  BY <1>1, <1>2, <1>3

\* A round's store revokes no name and no account.
LEMMA StoreRevokesNothing ==
    ASSUME OwnersInv, Store, NEW l \in Logins, NameRevoked(l)'
    PROVE  NameRevoked(l)
<1>1. TypeOK /\ prefs' = Pinned  BY DEF OwnersInv, Store
<1>2. prefs'.revokedLogins = prefs.revokedLogins /\ prefs'.revokedIds = prefs.revokedIds
  BY <1>1 DEF Pinned, TypeOK
<1>3. CASE \E a \in Rightful : op.answer[a].name = l
  <2>1. prefs'.pins[l] \in Rightful  BY <1>1, <1>3 DEF Pinned, TypeOK
  <2>2. prefs'.pins[l] \in Accounts /\ Allowed(prefs, op.answer[prefs'.pins[l]].name, prefs'.pins[l])
    BY <2>1 DEF Rightful
  <2>3. prefs'.pins[l] \notin prefs.revokedIds
    BY <2>2, OwnersAssumption DEF Allowed, OwnerAllowed
  <2> QED  BY <1>2, <2>3 DEF NameRevoked
<1>4. CASE ~\E a \in Rightful : op.answer[a].name = l
  <2>1. prefs'.pins[l] = prefs.pins[l]  BY <1>1, <1>4 DEF Pinned, TypeOK
  <2> QED  BY <1>2, <2>1 DEF NameRevoked
<1> QED  BY <1>3, <1>4

\* At first nobody is revoked and nothing works.
THEOREM WorkInit == Init => WorkInv
BY OwnersAssumption DEF Init, WorkInv, RevokedHasNoWork, CollectedTheRevoked, Evicting, Works,
   Nobody, NotRun, NoOp

\* Every step keeps the revoked without work.
THEOREM WorkStep == OwnersInv /\ WorkInv /\ [Next]_vars => WorkInv'
<1> SUFFICES ASSUME OwnersInv, WorkInv, [Next]_vars  PROVE WorkInv'
  OBVIOUS
<1>0. TypeOK  BY DEF OwnersInv
<1> DEFINE SameRevoked == UNCHANGED prefs
           NoNewWork   == \A a \in Accounts, l \in Logins : Works(a, l)' => Works(a, l)
           Outside     == op.at \notin {"collect", "evict"} /\ op'.at \notin {"collect", "evict"}
<1>a. ASSUME UNCHANGED <<prefs, waiting, running, overlooked>>, Outside \/ UNCHANGED op
      PROVE  WorkInv'
  <2>1. \A l \in Logins : NameRevoked(l)' <=> NameRevoked(l)  BY <1>a DEF NameRevoked
  <2>2. NoNewWork  BY <1>a DEF Works
  <2> QED  BY <1>a, <2>1, <2>2, NothingRevokedNothingNew
<1>b. ASSUME NEW gone, RemoveWork(gone), UNCHANGED <<prefs, overlooked>>, Outside \/ UNCHANGED op
      PROVE  WorkInv'
  <2>1. \A l \in Logins : NameRevoked(l)' <=> NameRevoked(l)  BY <1>b DEF NameRevoked
  <2>2. NoNewWork  BY <1>0, <1>b, RemovalEndsWork
  <2> QED  BY <1>b, <2>1, <2>2, NothingRevokedNothingNew
<1>1. ASSUME NEW a \in Accounts, Rename(a) \/ Install(a) \/ Webhook(a) \/ Request(a)
      PROVE  WorkInv'
  BY <1>1, <1>a DEF Rename, Install, Webhook, Request, history, queue
<1>2. CASE Enqueue
  <2>1. \A l \in Logins : NameRevoked(l)' <=> NameRevoked(l)  BY <1>2 DEF Enqueue, NameRevoked
  <2>2. ASSUME NEW a \in Accounts, NEW l \in Logins, Works(a, l)', NameRevoked(l)'
        PROVE  Works(a, l)
    <3>1. CASE waiting' = waiting  BY <1>2, <2>2, <3>1 DEF Enqueue, Works
    <3>2. CASE waiting' # waiting
      <4>1. /\ waiting' = [waiting EXCEPT ![handler.account] = handler.name]
            /\ NameAllowed(prefs, handler.name)
        BY <1>2, <3>2 DEF Enqueue, OwnerStillAllowed
      <4>2. CASE a = handler.account /\ l = handler.name
        BY <1>0, <2>1, <2>2, <4>1, <4>2, RevokedIsRefused
      <4>3. CASE a = handler.account /\ l # handler.name
        BY <1>0, <1>2, <2>2, <4>1, <4>3 DEF Enqueue, Works, TypeOK
      <4>4. CASE a # handler.account
        BY <1>0, <1>2, <2>2, <4>1, <4>4 DEF Enqueue, Works, TypeOK
      <4> QED  BY <4>2, <4>3, <4>4
    <3> QED  BY <3>1, <3>2
  <2> QED  BY <1>2, <2>1, <2>2, NothingRevokedNothingNew DEF Enqueue, history
<1>3. ASSUME NEW a \in Accounts, Start(a) \/ Finish(a)  PROVE WorkInv'
  <2>1. \A l \in Logins : NameRevoked(l)' <=> NameRevoked(l)
    BY <1>3 DEF Start, Finish, NameRevoked
  <2>2. NoNewWork
    <3>1. CASE Start(a)
      <4>1. ASSUME NEW b \in Accounts, NEW l \in Logins, Works(b, l)'  PROVE Works(b, l)
        <5>1. CASE b = a
          BY <1>0, <3>1, <4>1, <5>1, OwnersAssumption DEF Start, Works, TypeOK
        <5>2. CASE b # a  BY <1>0, <3>1, <4>1, <5>2 DEF Start, Works, TypeOK
        <5> QED  BY <5>1, <5>2
      <4> QED  BY <4>1
    <3>2. CASE Finish(a)
      <4>1. ASSUME NEW b \in Accounts, NEW l \in Logins, Works(b, l)'  PROVE Works(b, l)
        <5>1. CASE b = a
          BY <1>0, <3>2, <4>1, <5>1, OwnersAssumption DEF Finish, Works, TypeOK, NotRun
        <5>2. CASE b # a  BY <1>0, <3>2, <4>1, <5>2 DEF Finish, Works, TypeOK
        <5> QED  BY <5>1, <5>2
      <4> QED  BY <4>1
    <3> QED  BY <1>3, <3>1, <3>2
  <2> QED  BY <1>3, <2>1, <2>2, NothingRevokedNothingNew DEF Start, Finish, history
<1>4. ASSUME NEW a \in Accounts, Lifecycle(a)  PROVE WorkInv'
  BY <1>4, <1>b DEF Lifecycle, RemoveRepos, history
<1>5. ASSUME NEW a \in Accounts, List(a)  PROVE WorkInv'
  <2>1. PICK gone : RemoveWork(gone)  BY <1>5 DEF List, RemoveRepos
  <2>2. Outside
    BY <1>0, <1>5 DEF List, TypeOK, NoOp
  <2> QED  BY <1>5, <2>1, <2>2, <1>b DEF List, history
<1>6. ASSUME NEW a \in Accounts, ListFails(a)  PROVE WorkInv'
  <2>1. Outside  BY <1>0, <1>6 DEF ListFails, TypeOK
  <2> QED  BY <1>6, <2>1, <1>a DEF ListFails, history, queue
<1>7. CASE \/ \E for \in {"approve", "revoke"} : Decide(for)
           \/ Round \/ Ask \/ AskFails
  <2>1. Outside
    <3>1. ASSUME NEW for \in {"approve", "revoke"}, Decide(for)  PROVE Outside
      BY <3>1 DEF Decide, Take, NoOp
    <3>2. CASE Round  BY <3>2 DEF Round, Take, NoOp
    <3>3. CASE Ask  BY <1>0, <3>3 DEF Ask, TypeOK
    <3>4. CASE AskFails  BY <1>0, <3>4 DEF AskFails, TypeOK, NoOp
    <3> QED  BY <1>7, <3>1, <3>2, <3>3, <3>4
  <2> QED  BY <1>7, <2>1, <1>a DEF Decide, Round, Ask, AskFails, history, queue
<1>8. CASE Store
  <2>1. Outside  BY <1>0, <1>8 DEF Store, TypeOK
  <2>2. NoNewWork  BY <1>8 DEF Store, Works, queue
  <2> QED  BY <1>8, <2>1, <2>2, StoreRevokesNothing, NothingRevokedNothingNew DEF Store
<1>9. CASE Approve
  <2>1. Outside  BY <1>9 DEF Approve, NoOp
  <2>2. NoNewWork  BY <1>9 DEF Approve, Works, queue
  <2>3. ASSUME NEW l \in Logins, NameRevoked(l)'  PROVE NameRevoked(l)
    <3>1. CASE UNCHANGED prefs  BY <2>3, <3>1 DEF NameRevoked
    <3>2. CASE prefs' = ApproveOwner(prefs, op.login, Holder)
      BY <1>0, <2>3, <3>2, OwnersAssumption DEF ApproveOwner, NameRevoked, TypeOK
    <3> QED  BY <1>9, <3>1, <3>2 DEF Approve
  <2> QED  BY <1>9, <2>1, <2>2, <2>3, NothingRevokedNothingNew DEF Approve
<1>10. CASE Revoke \/ Settings
  <2>1. op'.at = "collect"  BY <1>10 DEF Revoke, Settings, NoOp
  <2> QED  BY <2>1 DEF WorkInv, RevokedHasNoWork, CollectedTheRevoked, Evicting
<1>11. CASE Collect
  <2>1. op'.at = "evict" /\ op'.names = KnownNames
    BY <1>0, <1>11 DEF Collect, TypeOK
  <2>2. ASSUME NEW a \in Accounts \ overlooked', NEW l \in Logins, Works(a, l)'
        PROVE  op'.names[a] = l
    <3>1. waiting[a] \in {NoLogin, KnownName(a)} /\ op'.names[a] = KnownName(a)
      BY <1>11, <2>1, <2>2 DEF Collect, KnownNames
    <3>2. waiting[a] = l \/ running[a].name = l
      BY <1>11, <2>2 DEF Collect, queue, Works
    <3> QED  BY <3>1, <3>2, OwnersAssumption DEF KnownName, NotRun
  <2>3. CollectedTheRevoked'  BY <2>2 DEF CollectedTheRevoked
  <2> QED  BY <2>1, <2>3 DEF WorkInv, RevokedHasNoWork, Evicting
<1>12. CASE Evict
  <2> DEFINE gone == {a \in Accounts : op.names[a] # NoLogin /\ ~NameAllowed(prefs, op.names[a])}
  <2>1. op.at = "evict" /\ op'.at \in {"idle", "refresh"} /\ RemoveWork(gone)
        /\ UNCHANGED <<prefs, overlooked>>
    BY <1>12 DEF Evict, RemoveRepos, NoOp, history
  <2>2. ASSUME NEW a \in Accounts \ overlooked, NEW l \in Logins, Works(a, l)', NameRevoked(l)
        PROVE  FALSE
    <3>1. Works(a, l) /\ a \notin gone  BY <1>0, <2>1, <2>2, RemovalEndsWork
    <3>2. op.names[a] = l  BY <2>1, <2>2, <3>1 DEF WorkInv, CollectedTheRevoked
    <3>3. ~NameAllowed(prefs, l)  BY <1>0, <2>2, RevokedIsRefused
    <3> QED  BY <2>2, <3>1, <3>2, <3>3, OwnersAssumption
  <2> QED  BY <2>1, <2>2 DEF WorkInv, RevokedHasNoWork, CollectedTheRevoked, Evicting, NameRevoked
<1>13. CASE ListEnd
  <2>1. PICK gone : RemoveWork(gone)  BY <1>13 DEF ListEnd
  <2>2. Outside  BY <1>13 DEF ListEnd, NoOp
  <2> QED  BY <1>13, <2>1, <2>2, <1>b DEF ListEnd, history
<1>14. CASE Restart
  BY <1>14, OwnersAssumption
  DEF Restart, WorkInv, RevokedHasNoWork, CollectedTheRevoked, Evicting, Works, Nobody, NotRun, NoOp
<1>15. CASE UNCHANGED vars  BY <1>15, <1>a DEF vars, history
<1> QED  BY <1>1, <1>2, <1>3, <1>4, <1>5, <1>6, <1>7, <1>8, <1>9, <1>10, <1>11, <1>12, <1>13,
            <1>14, <1>15 DEF Next

\* After its eviction a revocation leaves no work behind.
THEOREM RevocationEndsWork == Spec => []RevokedHasNoWork
<1>1. WorkInv => RevokedHasNoWork  BY DEF WorkInv
<1> QED  BY <1>1, OwnersInit, OwnersStep, WorkInit, WorkStep, PTL DEF Spec
=============================================================================
