-------------------------- MODULE FixControllerProofs --------------------------
(***************************************************************************)
(* What is committed is what the workspace held when it was compared, and  *)
(* nothing the policy forbids; no fix is worked on without consent, no     *)
(* private preview is ever written, and the controller implements          *)
(* FixLifecycle: for all paths, contents and workspaces, and any number of *)
(* fixes, attempts, changes and restarts.                                  *)
(***************************************************************************)
EXTENDS FixController, FiniteSetTheorems, TLAPS

-------------------------------------------------------------------------------
(* Patches.                                                                *)

\* Whatever an agent may leave at a path.
Workspaces == [Paths -> Files \cup {Nothing, Directory}]

\* A comparison of the workspace with its head is a tree's files again.
LEMMA TakenIsFiles ==
    ASSUME NEW head \in Trees, NEW w \in Workspaces
    PROVE  Taken(head, w) \in [Paths -> Files \cup {Nothing}]
BY DEF Taken, Trees, Workspaces

\* One change for each path: a commit takes the workspace's side of it.
LEMMA CommittedIs ==
    ASSUME NEW head, head \in [Paths -> Files \cup {Nothing}],
           NEW tree, tree \in [Paths -> Files \cup {Nothing}]
    PROVE  Committed(head, Diff(head, tree)) = tree
<1> DEFINE taken == Diff(head, tree)
<1> SUFFICES ASSUME NEW p \in Paths
             PROVE  Committed(head, taken)[p] = tree[p]
  BY DEF Committed
<1>1. CASE head[p] = tree[p]
  <2>1. ~\E c \in taken : c.path = p
    BY <1>1 DEF Diff
  <2> QED  BY <1>1, <2>1 DEF Committed
<1>2. CASE head[p] # tree[p]
  <2>1. [path |-> p, old |-> head[p], new |-> tree[p]] \in taken
    BY <1>2 DEF Diff
  <2>2. \E c \in taken : c.path = p
    BY <2>1
  <2>3. \A c \in taken : c.path = p => c.new = tree[p]
    BY DEF Diff
  <2> HIDE DEF taken
  <2>4. (CHOOSE c \in taken : c.path = p).new = tree[p]
    BY <2>2, <2>3
  <2> QED  BY <2>2, <2>4 DEF Committed
<1> QED  BY <1>1, <1>2

\* A patch has as many changes as it has paths at most, and is finite.
LEMMA PatchIsFinite ==
    ASSUME NEW head, NEW tree
    PROVE  IsFiniteSet(Diff(head, tree)) /\ Cardinality(Diff(head, tree)) \in Nat
<1> DEFINE S == {p \in Paths : head[p] # tree[p]}
<1> DEFINE change == [p \in S |-> [path |-> p, old |-> head[p], new |-> tree[p]]]
<1>1. IsFiniteSet(S)
  BY PatchAssumption, FS_Subset
<1>2. change \in Surjection(S, Diff(head, tree))
  BY DEF Diff, Surjection
<1> HIDE DEF S, change
<1>3. IsFiniteSet(Diff(head, tree))
  BY <1>1, <1>2, FS_Surjection
<1> QED  BY <1>3, FS_CardinalityType

\* Whatever the workspace holds: a patch that validation keeps is never refused
\* by create_commit's own checks, and the commit's tree is exactly the workspace
\* that was compared, deletions, modes and empty submodules included.
THEOREM AllowedPatchIsCommitted ==
    ASSUME NEW head \in Trees, NEW w \in Workspaces,
           Kept(Diff(head, Taken(head, w)))
    PROVE  /\ Accepted(Diff(head, Taken(head, w)))
           /\ Committed(head, Diff(head, Taken(head, w))) = Taken(head, w)
<1> DEFINE tree == Taken(head, w)
<1> DEFINE taken == Diff(head, tree)
<1>1. /\ head \in [Paths -> Files \cup {Nothing}]
      /\ tree \in [Paths -> Files \cup {Nothing}]
  BY TakenIsFiles DEF Trees
<1>2. taken # {} /\ Cardinality(taken) <= 100
  <2>1. Cardinality(taken) \in Nat /\ Cardinality(taken) <= MaxFiles /\ taken # {}
    BY PatchIsFinite DEF Kept, Allowed
  <2> HIDE DEF taken
  <2> QED  BY <2>1, PatchAssumption
<1>3. ASSUME NEW c \in taken
      PROVE  /\ c.path \notin Sensitive
             /\ ~Holds(c.old, Binary) /\ ~Holds(c.new, Binary)
             /\ IF c.new = Nothing THEN Regular(c.old) ELSE Regular(c.new)
             /\ c.new.mode = "exec" => c.old.mode = "exec"
             /\ ~Holds(c.new, Secret)
  <2>1. ~Forbidden(c)
    BY <1>3 DEF Kept, Allowed
  <2>2. /\ c.old \in Files \cup {Nothing} /\ c.new \in Files \cup {Nothing}
        /\ c.old # c.new
    BY <1>1, <1>3 DEF Diff
  <2>3. c.new # Nothing => Regular(c.new)
    BY <2>1, <2>2 DEF Forbidden, Regular, Files
  <2>4. c.new = Nothing => Regular(c.old)
    BY <2>1, <2>2 DEF Forbidden, Regular, Files
  <2> QED  BY <2>1, <2>3, <2>4 DEF Forbidden
<1>4. Committed(head, taken) = tree
  BY <1>1, CommittedIs
<1> HIDE DEF taken, tree
<1>5. Accepted(taken)
  BY <1>2, <1>3 DEF Accepted
<1> QED  BY <1>4, <1>5 DEF taken, tree

\* Whatever the agent did: a commit leaves credentials, .gitmodules, links and
\* submodules as they are at the reviewed head, and CI files unless they are
\* allowed; it makes no file executable and brings no credentials in.
THEOREM ForbiddenStaysAsItWas ==
    ASSUME NEW head \in Trees, NEW w \in Workspaces,
           Kept(Diff(head, Taken(head, w))), NEW p \in Paths
    PROVE  LET commit == Committed(head, Diff(head, Taken(head, w)))
           IN  commit[p] # head[p] =>
                 /\ p \notin Sensitive \cup Gitmodules
                 /\ p \in Workflows => WorkflowsAllowed
                 /\ {head[p].mode, commit[p].mode} \cap {"link", "gitlink"} = {}
                 /\ commit[p].mode = "exec" => head[p].mode = "exec"
                 /\ ~Holds(commit[p], Secret \cup Binary)
<1> DEFINE tree == Taken(head, w)
<1> DEFINE c == [path |-> p, old |-> head[p], new |-> tree[p]]
<1>1. Committed(head, Diff(head, tree)) = tree
  BY AllowedPatchIsCommitted
<1>2. ASSUME tree[p] # head[p]  PROVE ~Forbidden(c)
  <2>1. c \in Diff(head, tree)
    BY <1>2 DEF Diff
  <2> HIDE DEF tree, c
  <2> QED  BY <2>1 DEF Kept, Allowed, tree
<1>3. ~Forbidden(c) =>
        /\ p \notin Sensitive \cup Gitmodules
        /\ p \in Workflows => WorkflowsAllowed
        /\ {head[p].mode, tree[p].mode} \cap {"link", "gitlink"} = {}
        /\ tree[p].mode = "exec" => head[p].mode = "exec"
        /\ ~Holds(tree[p], Secret \cup Binary)
  <2> HIDE DEF tree
  <2> QED  BY DEF Forbidden, Holds
<1> HIDE DEF tree, c
<1> QED  BY <1>1, <1>2, <1>3 DEF tree

-------------------------------------------------------------------------------
(* The inductive invariant, one fix at a time.                             *)

FixTypes ==
    /\ state \in [Fixes -> States]
    /\ consent \in [Fixes -> {"none", "once", "persistent"}]
    /\ authority \in [Fixes -> {"requester", "admin", "auto"}]
    /\ preview \in [Fixes -> BOOLEAN]
    /\ attempt \in [Fixes -> Nat]
    /\ checked \in [Fixes -> {"none", "bad", "good"}]
    /\ patch \in [Fixes -> Nat]
    /\ place \in [Fixes -> Places]
    /\ post \in [Fixes -> Posts]
    /\ approvals \in [Fixes -> Nat]
    /\ writes \in [Fixes -> Nat]

\* Where a fix may be while a worker is inside generate.
Generating == {"queued", "failed"} \cup Working \cup Final

\* Places behind the check of the consent.
Consented == {"prepare", "retry", "begin", "edit", "check", "verify"}

\* Between a claim and the record of its result.
Claimed == {"claimed", "created", "rechecked", "written", "lost"}

\* Where a fix may be after one of its branches was written, until an
\* administrator asks for another attempt.
AfterWrite == {"published", "verifying", "verified", "publishing", "publish_failed"} \cup Final

AbsentIsIdle(f) == state[f] = "absent" => place[f] = "idle" /\ post[f] = "none" /\ writes[f] = 0

WorkerHoldsIt(f) ==
    /\ place[f] \in InGenerate => state[f] \in Generating
    /\ place[f] \in {"edit", "check", "verify"} => state[f] # "queued"

ConsentIsGiven(f) ==
    place[f] \in Consented \/ state[f] \in Working => consent[f] # "none"

\* A fix that was delivered.
Delivered == {"published", "verifying", "verified"}

ClaimHoldsIt(f) ==
    /\ post[f] \in Claimed => state[f] = "publishing"
    /\ post[f] \in {"follow", "enqueue"} => state[f] \in Delivered

\* A preview is not delivered; and what was written does not become a preview,
\* because the worker only asks for the requester's role if no administrator
\* answers for the fix.
StaysPublic(f) ==
    /\ post[f] \in {"created", "rechecked"} => ~preview[f]
    /\ writes[f] # 0 => ~preview[f]
    /\ writes[f] # 0 /\ authority[f] = "requester" =>
         state[f] \in AfterWrite /\ place[f] \notin InGenerate

PatchIsProven(f) ==
    /\ place[f] = "verify" => patch[f] = attempt[f]
    /\ state[f] \in {"ready", "publishing"} => Proven(f)

WritesAreApproved(f) ==
    /\ writes[f] <= approvals[f]
    /\ post[f] \in {"claimed", "created", "rechecked"} => writes[f] < approvals[f]
    /\ post[f] = "written" => writes[f] > 0

Facts(f) ==
    /\ AbsentIsIdle(f) /\ WorkerHoldsIt(f) /\ ConsentIsGiven(f) /\ ClaimHoldsIt(f)
    /\ StaysPublic(f) /\ PatchIsProven(f) /\ WritesAreApproved(f)

FixInv == FixTypes /\ \A f \in Fixes : Facts(f)

\* At first there is no fix, no worker and no delivery.
LEMMA FixInitially == Init => FixInv
<1> SUFFICES ASSUME Init  PROVE FixInv
  OBVIOUS
<1>1. FixTypes
  <2>1. preview \in [Fixes -> BOOLEAN]
    BY DEF Init
  <2>2. /\ attempt \in [Fixes -> Nat] /\ patch \in [Fixes -> Nat]
        /\ approvals \in [Fixes -> Nat] /\ writes \in [Fixes -> Nat]
    BY DEF Init
  <2>3. /\ state \in [Fixes -> States] /\ place \in [Fixes -> Places] /\ post \in [Fixes -> Posts]
    BY DEF Init, States, Places, Posts
  <2>4. /\ consent \in [Fixes -> {"none", "once", "persistent"}]
        /\ authority \in [Fixes -> {"requester", "admin", "auto"}]
        /\ checked \in [Fixes -> {"none", "bad", "good"}]
    BY DEF Init
  <2> QED  BY <2>1, <2>2, <2>3, <2>4 DEF FixTypes
<1>2. ASSUME NEW f \in Fixes  PROVE Facts(f)
  <2>1. /\ state[f] = "absent" /\ place[f] = "idle" /\ post[f] = "none"
        /\ writes[f] = 0 /\ approvals[f] = 0
    BY DEF Init
  <2> QED  BY <2>1 DEF Facts, AbsentIsIdle, WorkerHoldsIt, ConsentIsGiven, ClaimHoldsIt,
                       StaysPublic, PatchIsProven, WritesAreApproved, Claimed, Consented,
                       InGenerate, Working
<1> QED  BY <1>1, <1>2 DEF FixInv

-------------------------------------------------------------------------------
(* One fix at a time.                                                      *)

Same(f) ==
    /\ state'[f] = state[f] /\ consent'[f] = consent[f] /\ authority'[f] = authority[f]
    /\ preview'[f] = preview[f] /\ attempt'[f] = attempt[f] /\ checked'[f] = checked[f]
    /\ patch'[f] = patch[f] /\ place'[f] = place[f] /\ post'[f] = post[f]
    /\ approvals'[f] = approvals[f] /\ writes'[f] = writes[f]

\* A step about one fix, and the types it keeps.
Alone(f) == FixTypes' /\ \A g \in Fixes \ {f} : Same(g)

\* What is the same of a fix keeps its facts.
LEMMA SameKeeps ==
    ASSUME NEW f \in Fixes, Facts(f), Same(f)
    PROVE  Facts(f)'
<1> USE DEF Same, Facts
<1>1. AbsentIsIdle(f)' /\ WorkerHoldsIt(f)' /\ ConsentIsGiven(f)' /\ ClaimHoldsIt(f)'
  BY DEF AbsentIsIdle, WorkerHoldsIt, ConsentIsGiven, ClaimHoldsIt
<1>2. StaysPublic(f)'
  BY DEF StaysPublic
<1>3. PatchIsProven(f)' /\ WritesAreApproved(f)'
  BY DEF PatchIsProven, Proven, WritesAreApproved
<1> QED  BY <1>1, <1>2, <1>3

\* A step about one fix keeps the invariant if it keeps the facts of that fix.
LEMMA OneFix ==
    ASSUME FixInv, NEW f \in Fixes, Alone(f), Facts(f)'
    PROVE  FixInv'
BY SameKeeps DEF FixInv, Alone

\* The facts of a fix, one by one.
LEMMA FactsAre ==
    ASSUME NEW f \in Fixes
    PROVE  Facts(f)' <=> /\ AbsentIsIdle(f)' /\ WorkerHoldsIt(f)' /\ ConsentIsGiven(f)'
                         /\ ClaimHoldsIt(f)' /\ StaysPublic(f)' /\ PatchIsProven(f)'
                         /\ WritesAreApproved(f)'
BY DEF Facts

\* What a change of the record's state does.
LEMMA Changes ==
    ASSUME FixTypes, NEW f \in Fixes, NEW s \in States, Change(f, s) \/ Set(f, s)
    PROVE  /\ state' \in [Fixes -> States]
           /\ \A g \in Fixes \ {f} : state'[g] = state[g]
           /\ Change(f, s) => state'[f] = IF state[f] \in Final THEN state[f] ELSE s
           /\ Set(f, s) => state'[f] = s
BY DEF FixTypes, Change, Changed, Set

\* What a step of a worker does.
LEMMA Steps ==
    ASSUME FixTypes, NEW f \in Fixes, NEW from, NEW to \in Places, Step(f, from, to)
    PROVE  /\ place' \in [Fixes -> Places]
           /\ \A g \in Fixes \ {f} : place'[g] = place[g]
           /\ place[f] = from /\ place'[f] \in {"end", to}
           /\ UNCHANGED <<post, approvals, writes>>
BY DEF FixTypes, Step, Places, postVars

-------------------------------------------------------------------------------
(* The worker inside generate.                                             *)

\* While a worker generates, nobody publishes the fix, and a fix that was written
\* before has an administrator who answers for it.
LEMMA InGenerateIs ==
    ASSUME FixInv, NEW f \in Fixes, place[f] \in InGenerate
    PROVE  /\ state[f] \in Generating /\ state[f] # "absent"
           /\ post[f] = "none"
           /\ writes[f] # 0 => authority[f] # "requester" /\ ~preview[f]
<1>1. FixTypes /\ Facts(f)
  BY DEF FixInv
<1>2. state[f] \in Generating
  BY <1>1 DEF Facts, WorkerHoldsIt
<1>3. post[f] = "none"
  BY <1>1, <1>2 DEF Facts, ClaimHoldsIt, FixTypes, Posts, Claimed, Delivered, Generating, Working, Final
<1> QED  BY <1>1, <1>2, <1>3 DEF Facts, StaysPublic, Generating, Working, Final

\* What the steps inside generate have in common: what keeps the facts.
LEMMA GenerateKeeps ==
    ASSUME FixInv, NEW f \in Fixes, Alone(f), place[f] \in InGenerate,
           consent'[f] = consent[f], authority'[f] = authority[f],
           UNCHANGED <<post, approvals, writes>>,
           preview'[f] = preview[f] \/ preview'[f] = PreviewOnly(f),
           state'[f] \in Generating \cup Broken \cup {"awaiting_confirmation", "ready"},
           place'[f] \in InGenerate => state'[f] \in Generating,
           place'[f] \in {"edit", "check", "verify"} => state'[f] # "queued",
           place'[f] \in Consented \/ state'[f] \in Working => consent[f] # "none",
           place'[f] = "verify" => patch'[f] = attempt'[f],
           state'[f] = "ready" => Proven(f)'
    PROVE  FixInv'
<1>1. /\ state[f] \in Generating /\ post[f] = "none"
      /\ writes[f] # 0 => authority[f] # "requester" /\ ~preview[f]
  BY InGenerateIs
<1>2. state'[f] \notin {"absent", "publishing"} \cup Delivered
  BY DEF Generating, Broken, Working, Final, Delivered
<1>3. post'[f] = "none" /\ writes'[f] = writes[f] /\ approvals'[f] = approvals[f]
  BY <1>1
<1>4. writes[f] # 0 => ~preview'[f] /\ authority'[f] # "requester"
  BY <1>1 DEF PreviewOnly
<1>5. AbsentIsIdle(f)' /\ WorkerHoldsIt(f)' /\ ConsentIsGiven(f)' /\ ClaimHoldsIt(f)'
  BY <1>2, <1>3 DEF AbsentIsIdle, WorkerHoldsIt, ConsentIsGiven, ClaimHoldsIt, Claimed
<1>6. StaysPublic(f)'
  BY <1>3, <1>4 DEF StaysPublic
<1>7. PatchIsProven(f)' /\ WritesAreApproved(f)'
  BY <1>2, <1>3 DEF PatchIsProven, WritesAreApproved, FixInv, Facts
<1> QED  BY <1>5, <1>6, <1>7, FactsAre, OneFix

\* The steps of generate, and an error in it.
LEMMA GenerateSteps ==
    ASSUME FixInv, NEW f \in Fixes, Generate(f) \/ Drop(f) \/ Fail(f)
    PROVE  FixInv'
<1>1. /\ FixTypes
      /\ place[f] \in InGenerate => state[f] \in Generating
      /\ place[f] \in {"edit", "check", "verify"} => state[f] # "queued"
      /\ place[f] \in Consented \/ state[f] \in Working => consent[f] # "none"
      /\ place[f] = "verify" => patch[f] = attempt[f]
  BY DEF FixInv, Facts, WorkerHoldsIt, ConsentIsGiven, PatchIsProven
<1>2. /\ "end" \notin InGenerate \cup Consented
      /\ Consented \subseteq InGenerate /\ InGenerate \subseteq Places
      /\ Broken \cup Generating \cup {"awaiting_confirmation", "ready"} \subseteq States
      /\ "failed" \in Broken /\ Generating \cap (Broken \cup {"awaiting_confirmation", "ready"}) = {"failed"}
  BY DEF InGenerate, Consented, Broken, Places, States, Live, Held, Final, Generating, Working
<1>3. CASE Begin(f)
  <2>1. place[f] = "start" /\ place'[f] \in {"end", "look"} /\ UNCHANGED recordVars
    BY <1>1, <1>3 DEF Begin, Step, FixTypes
  <2>2. Alone(f)
    BY <1>1, <1>3, <2>1 DEF Begin, Step, Alone, Same, FixTypes, recordVars, postVars, Places, InGenerate
  <2>3. place[f] \in InGenerate /\ place'[f] \notin Consented /\ place'[f] # "verify"
    BY <2>1 DEF InGenerate, Consented
  <2>4. state[f] \in Generating /\ state[f] # "ready"
    BY <1>1, <2>3 DEF Generating, Working, Final
  <2>5. UNCHANGED <<state, consent, authority, preview>> /\ UNCHANGED <<post, approvals, writes>>
    BY <1>3 DEF Begin, recordVars, Step, postVars
  <2> QED  BY <1>1, <2>1, <2>2, <2>3, <2>4, <2>5, GenerateKeeps DEF Consented
<1>4. CASE Look(f)
  <2>1. /\ place[f] = "look" /\ place'[f] \in {"end", "prepare"} /\ place' \in [Fixes -> Places]
        /\ \A g \in Fixes \ {f} : place'[g] = place[g]
        /\ UNCHANGED <<post, approvals, writes>>
    BY <1>1, <1>4 DEF Look, Step, FixTypes, postVars, Places, InGenerate
  <2>2. /\ state' \in [Fixes -> States] /\ \A g \in Fixes \ {f} : state'[g] = state[g]
        /\ \/ state'[f] = state[f]
           \/ place'[f] = "end" /\ state'[f] \in {"stale", "awaiting_confirmation"}
    <3>1. CASE UNCHANGED state  BY <1>1, <3>1 DEF FixTypes
    <3>2. CASE Step(f, "look", "end") /\ (Change(f, "stale") \/ Change(f, "awaiting_confirmation"))
      <4>1. place'[f] = "end"
        BY <1>1, <3>2 DEF Step, FixTypes
      <4>2. "stale" \in States /\ "awaiting_confirmation" \in States
        BY DEF States, Broken, Live
      <4> QED  BY <1>1, <3>2, <4>1, <4>2, Changes
    <3> QED  BY <1>4, <3>1, <3>2 DEF Look
  <2>3. /\ preview' \in [Fixes -> BOOLEAN] /\ \A g \in Fixes \ {f} : preview'[g] = preview[g]
        /\ preview'[f] = preview[f] \/ preview'[f] = PreviewOnly(f)
    BY <1>1, <1>4 DEF Look, FixTypes, PreviewOnly
  <2>4. UNCHANGED <<consent, authority, attempt, checked, patch>>
    BY <1>4 DEF Look
  <2>5. Alone(f)
    BY <1>1, <2>1, <2>2, <2>3, <2>4 DEF Alone, Same, FixTypes
  <2>6. place'[f] = "prepare" => consent[f] # "none" /\ state'[f] = state[f]
    BY <1>1, <1>4, <2>1, <2>2 DEF Look, Step, FixTypes
  <2>7. /\ place[f] \in InGenerate /\ place'[f] \notin {"edit", "check", "verify"}
        /\ place'[f] \in Consented \cup InGenerate => place'[f] = "prepare"
    BY <2>1 DEF InGenerate, Consented
  <2>8. /\ state'[f] \in Generating \cup Broken \cup {"awaiting_confirmation", "ready"}
        /\ state'[f] # "ready" /\ state[f] \in Generating
        /\ state'[f] \in Working => state'[f] = state[f]
    BY <1>1, <2>2, <2>7 DEF Generating, Broken, Working, Final
  <2> QED  BY <1>1, <2>1, <2>3, <2>4, <2>5, <2>6, <2>7, <2>8, GenerateKeeps
<1>5. ASSUME NEW ok \in BOOLEAN, Prepare(f, ok)  PROVE FixInv'
  <2>1. /\ place[f] = "prepare" /\ place' \in [Fixes -> Places]
        /\ \A g \in Fixes \ {f} : place'[g] = place[g]
        /\ place'[f] = "end" \/ (ok /\ place'[f] = "retry")
        /\ UNCHANGED <<consent, authority, preview, attempt, checked, patch>>
        /\ UNCHANGED <<post, approvals, writes>>
    BY <1>1, <1>5 DEF Prepare, Step, FixTypes, postVars, Places, InGenerate
  <2>2. /\ state' \in [Fixes -> States] /\ \A g \in Fixes \ {f} : state'[g] = state[g]
        /\ state'[f] = state[f] \/ (~ok /\ state'[f] = "unsupported")
    <3>1. CASE ok  BY <1>1, <1>5, <3>1 DEF Prepare, FixTypes
    <3>2. CASE ~ok
      <4>1. Change(f, "unsupported") /\ "unsupported" \in States
        BY <1>5, <3>2 DEF Prepare, States, Broken
      <4> QED  BY <1>1, <3>2, <4>1, Changes
    <3> QED  BY <3>1, <3>2
  <2>3. Alone(f)
    BY <1>1, <2>1, <2>2 DEF Alone, Same, FixTypes
  <2>4. /\ place[f] \in InGenerate \cap Consented /\ place'[f] \notin {"edit", "check", "verify"}
        /\ place'[f] \in InGenerate => ok
    BY <2>1 DEF InGenerate, Consented
  <2>5. /\ state'[f] \in Generating \cup Broken \cup {"awaiting_confirmation", "ready"}
        /\ state'[f] # "ready" /\ state[f] \in Generating
        /\ ok => state'[f] = state[f]
    BY <1>1, <2>2, <2>4 DEF Generating, Broken, Working, Final
  <2> QED  BY <1>1, <2>1, <2>3, <2>4, <2>5, GenerateKeeps
<1>6. CASE Retry(f)
  <2>1. /\ place[f] = "retry" /\ place' \in [Fixes -> Places]
        /\ \A g \in Fixes \ {f} : place'[g] = place[g]
        /\ place'[f] \in {"end", "begin"}
        /\ UNCHANGED <<consent, authority, attempt, checked, patch>>
        /\ UNCHANGED <<post, approvals, writes>>
    BY <1>1, <1>6 DEF Retry, Step, FixTypes, postVars, Places, InGenerate
  <2>2. /\ state' \in [Fixes -> States] /\ \A g \in Fixes \ {f} : state'[g] = state[g]
        /\ state'[f] = state[f] \/ (place'[f] = "end" /\ state'[f] = "validation_failed")
    <3>1. CASE UNCHANGED state  BY <1>1, <3>1 DEF FixTypes
    <3>2. CASE Step(f, "retry", "end") /\ Change(f, "validation_failed")
      <4>1. "validation_failed" \in States /\ place'[f] = "end"
        BY <1>1, <3>2 DEF Step, FixTypes, States, Broken
      <4> QED  BY <1>1, <3>2, <4>1, Changes
    <3> QED  BY <1>6, <3>1, <3>2 DEF Retry
  <2>3. /\ preview' \in [Fixes -> BOOLEAN] /\ \A g \in Fixes \ {f} : preview'[g] = preview[g]
        /\ preview'[f] = preview[f] \/ preview'[f] = PreviewOnly(f)
    BY <1>1, <1>6 DEF Retry, FixTypes, PreviewOnly
  <2>4. Alone(f)
    BY <1>1, <2>1, <2>2, <2>3 DEF Alone, Same, FixTypes
  <2>5. /\ place[f] \in InGenerate \cap Consented /\ place'[f] \notin {"edit", "check", "verify"}
        /\ place'[f] \in InGenerate => place'[f] # "end"
    BY <2>1 DEF InGenerate, Consented
  <2>6. /\ state'[f] \in Generating \cup Broken \cup {"awaiting_confirmation", "ready"}
        /\ state'[f] # "ready" /\ state[f] \in Generating
        /\ place'[f] # "end" => state'[f] = state[f]
    BY <1>1, <2>2, <2>5 DEF Generating, Broken, Working, Final
  <2> QED  BY <1>1, <2>1, <2>3, <2>4, <2>5, <2>6, GenerateKeeps
<1>7. CASE Attempt(f) \/ Edited(f)
  <2>1. /\ place[f] \in {"begin", "edit"} /\ place' \in [Fixes -> Places]
        /\ \A g \in Fixes \ {f} : place'[g] = place[g]
        /\ place'[f] \in {"end", "edit", "check"}
        /\ UNCHANGED <<consent, authority, preview, patch>>
        /\ UNCHANGED <<post, approvals, writes>>
    BY <1>1, <1>7 DEF Attempt, Edited, Step, FixTypes, postVars, Places, InGenerate
  <2>2. /\ state' \in [Fixes -> States] /\ \A g \in Fixes \ {f} : state'[g] = state[g]
        /\ state'[f] \in Working \cup Final
    <3>1. Working \subseteq States /\ (Change(f, "generating") \/ Change(f, "validating"))
      BY <1>7 DEF Attempt, Edited, States, Live, Working
    <3>2. "generating" \in States /\ "validating" \in States
      BY DEF States, Live
    <3> QED  BY <1>1, <3>1, <3>2, Changes DEF Working
  <2>3. /\ attempt' \in [Fixes -> Nat] /\ \A g \in Fixes \ {f} : attempt'[g] = attempt[g]
        /\ checked' \in [Fixes -> {"none", "bad", "good"}]
        /\ \A g \in Fixes \ {f} : checked'[g] = checked[g]
    BY <1>1, <1>7 DEF Attempt, Edited, FixTypes
  <2>4. Alone(f)
    BY <1>1, <2>1, <2>2, <2>3 DEF Alone, Same, FixTypes
  <2>5. place[f] \in InGenerate \cap Consented /\ place'[f] # "verify"
    BY <2>1 DEF InGenerate, Consented
  <2>6. state'[f] \in Generating /\ state'[f] \notin {"ready", "queued"}
    BY <2>2 DEF Generating, Working, Final
  <2> QED  BY <1>1, <2>1, <2>4, <2>5, <2>6, GenerateKeeps
<1>8. CASE AttemptRefused(f) \/ Drop(f)
  <2>1. /\ place[f] \in InGenerate /\ place' \in [Fixes -> Places]
        /\ \A g \in Fixes \ {f} : place'[g] = place[g]
        /\ place'[f] = "end"
        /\ UNCHANGED recordVars
        /\ UNCHANGED <<post, approvals, writes>>
    BY <1>1, <1>8 DEF AttemptRefused, Drop, Step, FixTypes, postVars, Places, InGenerate
  <2>2. Alone(f)
    BY <1>1, <2>1 DEF Alone, Same, FixTypes, recordVars
  <2>3. /\ state[f] \in Generating /\ state[f] # "ready"
        /\ UNCHANGED <<state, consent, authority, preview>>
    BY <1>1, <2>1 DEF Generating, Working, Final, recordVars
  <2> QED  BY <1>1, <1>2, <2>1, <2>2, <2>3, GenerateKeeps
<1>9. ASSUME NEW kept, NEW clean, PatchChecked(f, kept, clean)  PROVE FixInv'
  <2>1. /\ place[f] = "check" /\ place' \in [Fixes -> Places]
        /\ \A g \in Fixes \ {f} : place'[g] = place[g]
        /\ place'[f] \in {"end", "retry"} \/ (place'[f] = "verify" /\ clean)
        /\ UNCHANGED <<state, consent, authority, preview, attempt, checked>>
        /\ UNCHANGED <<post, approvals, writes>>
    BY <1>1, <1>9 DEF PatchChecked, Step, FixTypes, postVars, Places, InGenerate
  <2>2. /\ patch' \in [Fixes -> Nat] /\ \A g \in Fixes \ {f} : patch'[g] = patch[g]
        /\ clean => patch'[f] = attempt[f]
    BY <1>1, <1>9 DEF PatchChecked, FixTypes
  <2>3. Alone(f)
    BY <1>1, <2>1, <2>2 DEF Alone, Same, FixTypes
  <2>4. /\ place[f] \in InGenerate \cap Consented /\ place[f] \in {"edit", "check", "verify"}
        /\ place'[f] = "verify" => clean
    BY <2>1 DEF InGenerate, Consented
  <2>5. state[f] \in Generating /\ state[f] # "ready"
    BY <1>1, <2>4 DEF Generating, Working, Final
  <2> QED  BY <1>1, <2>1, <2>2, <2>3, <2>4, <2>5, GenerateKeeps
<1>10. ASSUME NEW good \in BOOLEAN, Verified(f, good)  PROVE FixInv'
  <2>1. /\ place[f] = "verify" /\ place' \in [Fixes -> Places]
        /\ \A g \in Fixes \ {f} : place'[g] = place[g]
        /\ place'[f] = "end" \/ (place'[f] = "retry" /\ ~good)
        /\ UNCHANGED <<consent, authority, preview, attempt, patch>>
        /\ UNCHANGED <<post, approvals, writes>>
    BY <1>1, <1>10 DEF Verified, Step, FixTypes, postVars, Places, InGenerate
  <2>2. /\ state' \in [Fixes -> States] /\ \A g \in Fixes \ {f} : state'[g] = state[g]
        /\ state'[f] = state[f] \/ (good /\ state[f] \notin Final /\ state'[f] = "ready")
    <3>1. CASE ~good  BY <1>1, <1>10, <3>1 DEF Verified, FixTypes
    <3>2. CASE good
      <4>1. Change(f, "ready") /\ "ready" \in States
        BY <1>10, <3>2 DEF Verified, States, Live
      <4> QED  BY <1>1, <3>2, <4>1, Changes
    <3> QED  BY <3>1, <3>2
  <2>3. /\ checked' \in [Fixes -> {"none", "bad", "good"}]
        /\ \A g \in Fixes \ {f} : checked'[g] = checked[g]
        /\ good /\ state[f] \notin Final => checked'[f] = "good"
    BY <1>1, <1>10 DEF Verified, FixTypes
  <2>4. Alone(f)
    BY <1>1, <2>1, <2>2, <2>3 DEF Alone, Same, FixTypes
  <2>5. /\ place[f] \in InGenerate \cap Consented /\ place'[f] \notin {"edit", "check", "verify"}
        /\ place'[f] \in InGenerate => ~good
    BY <2>1 DEF InGenerate, Consented
  <2>6. state[f] \in Generating /\ state[f] # "ready" /\ "ready" \notin Working
    BY <1>1, <2>5 DEF Generating, Working, Final
  <2>7. state'[f] = "ready" => Proven(f)'
    BY <1>1, <2>1, <2>2, <2>3, <2>6 DEF Proven
  <2>8. place'[f] \in InGenerate => state'[f] \in Generating
    BY <2>2, <2>5, <2>6
  <2>9. state'[f] \in Working => consent[f] # "none"
    BY <1>1, <2>2, <2>6
  <2> QED  BY <1>1, <2>1, <2>2, <2>4, <2>5, <2>6, <2>7, <2>8, <2>9, GenerateKeeps
<1>11. CASE Fail(f)
  <2>1. /\ place[f] \in InGenerate /\ place' \in [Fixes -> Places]
        /\ \A g \in Fixes \ {f} : place'[g] = place[g]
        /\ place'[f] = "end"
        /\ UNCHANGED <<consent, authority, preview, attempt, checked, patch>>
        /\ UNCHANGED <<post, approvals, writes>>
    BY <1>1, <1>11 DEF Fail, Step, FixTypes, postVars, Places
  <2>2. /\ state' \in [Fixes -> States] /\ \A g \in Fixes \ {f} : state'[g] = state[g]
        /\ state'[f] \in Final \cup {"failed"}
    <3>1. Change(f, "failed") /\ "failed" \in States
      BY <1>11 DEF Fail, States, Broken
    <3> QED  BY <1>1, <3>1, Changes
  <2>3. Alone(f)
    BY <1>1, <2>1, <2>2 DEF Alone, Same, FixTypes
  <2>4. state'[f] \in Generating /\ state'[f] # "ready" /\ state'[f] \notin Working
    BY <2>2 DEF Generating, Working, Final
  <2> QED  BY <1>2, <2>1, <2>3, <2>4, GenerateKeeps
<1> QED  BY <1>3, <1>4, <1>5, <1>6, <1>7, <1>8, <1>9, <1>10, <1>11 DEF Generate

-------------------------------------------------------------------------------
(* Requests, decisions and the rest of the worker.                         *)

\* Nothing of the record, its worker and its delivery changes.
LEMMA NothingHappened ==
    ASSUME FixInv, UNCHANGED <<recordVars, place, post, approvals, writes>>
    PROVE  FixInv'
<1>1. UNCHANGED <<state, consent, authority, preview, attempt, checked, patch, place, post,
                  approvals, writes>>
  BY DEF recordVars
<1>2. FixTypes'
  BY <1>1 DEF FixInv, FixTypes
<1>3. \A f \in Fixes : Same(f)
  BY <1>1 DEF Same
<1> QED  BY <1>2, <1>3, SameKeeps DEF FixInv

\* A step that only moves the worker, out of generate.
LEMMA WorkerMoves ==
    ASSUME FixInv, NEW f \in Fixes, UNCHANGED <<recordVars, post, approvals, writes>>,
           place' \in [Fixes -> Places], \A g \in Fixes \ {f} : place'[g] = place[g],
           place'[f] \notin InGenerate, place[f] # "idle"
    PROVE  FixInv'
<1>1. /\ UNCHANGED <<state, consent, authority, preview, attempt, checked, patch>>
      /\ UNCHANGED <<post, approvals, writes>>
  BY DEF recordVars
<1>2. Alone(f)
  BY <1>1 DEF FixInv, FixTypes, Alone, Same
<1>3. place'[f] \notin Consented \cup {"edit", "check", "verify"}
  BY DEF Consented, InGenerate
<1>4. Facts(f)
  BY DEF FixInv
<1>5. AbsentIsIdle(f)' /\ WorkerHoldsIt(f)' /\ ConsentIsGiven(f)' /\ ClaimHoldsIt(f)'
  BY <1>1, <1>3, <1>4 DEF Facts, AbsentIsIdle, WorkerHoldsIt, ConsentIsGiven, ClaimHoldsIt
<1>6. StaysPublic(f)'
  BY <1>1, <1>4 DEF Facts, StaysPublic
<1>7. PatchIsProven(f)' /\ WritesAreApproved(f)'
  BY <1>1, <1>3, <1>4 DEF Facts, PatchIsProven, WritesAreApproved, Proven
<1> QED  BY <1>2, <1>5, <1>6, <1>7, FactsAre, OneFix

\* The worker's way out.
LEMMA TailSteps ==
    ASSUME FixInv, NEW f \in Fixes, Offer(f) \/ NoOffer(f) \/ Leave(f)
    PROVE  FixInv'
<1>1. place \in [Fixes -> Places]
  BY DEF FixInv, FixTypes
<1>2. {"offer", "leave", "idle", "end"} \subseteq Places \ InGenerate
  BY DEF Places, InGenerate
<1>3. /\ place[f] \in {"end", "offer", "leave"} /\ place'[f] \in {"offer", "leave", "idle", "end"}
      /\ \A g \in Fixes \ {f} : place'[g] = place[g]
      /\ place' \in [Fixes -> Places]
  BY <1>1, <1>2 DEF Offer, NoOffer, Leave, Step
<1>4. UNCHANGED <<recordVars, post, approvals, writes>>
  BY DEF Offer, NoOffer, Leave, Step, postVars
<1> QED  BY <1>2, <1>3, <1>4, WorkerMoves

\* A step that only changes the record, while no worker is inside generate or the
\* fix is dropped for it.
LEMMA RecordMoves ==
    ASSUME FixInv, NEW f \in Fixes, UNCHANGED <<place, post, approvals, writes, attempt, checked, patch>>,
           Alone(f),
           state'[f] \in {"queued", "awaiting_confirmation", "failed"} \cup Final,
           state[f] \notin Held,
           place[f] \in InGenerate => state'[f] \in Final,
           consent'[f] = consent[f] \/ consent'[f] # "none",
           preview'[f] = preview[f] \/ state[f] = "absent",
           authority'[f] = "requester" => \/ state[f] = "absent"
                                          \/ authority[f] = "requester" /\ state'[f] \in Final
    PROVE  FixInv'
<1>1. Facts(f) /\ FixTypes
  BY DEF FixInv
<1>2. post[f] = "none" \/ state[f] \in Held
  BY <1>1 DEF Facts, ClaimHoldsIt, FixTypes, Posts, Claimed, Held, Delivered
<1>3. /\ state'[f] \notin Working \cup {"absent", "ready", "publishing"}
      /\ state'[f] \in Final => state'[f] \in Generating \cap AfterWrite /\ state'[f] # "queued"
      /\ {"edit", "check", "verify"} \subseteq InGenerate
      /\ post[f] = "none"
  BY <1>2 DEF Working, Final, Generating, AfterWrite, InGenerate
<1>4. AbsentIsIdle(f)' /\ WorkerHoldsIt(f)' /\ ConsentIsGiven(f)' /\ ClaimHoldsIt(f)'
  BY <1>1, <1>3 DEF Facts, AbsentIsIdle, WorkerHoldsIt, ConsentIsGiven, ClaimHoldsIt, Claimed
<1>5. StaysPublic(f)'
  <2>1. CASE state[f] = "absent"
    BY <1>1, <1>3, <2>1 DEF Facts, AbsentIsIdle, StaysPublic
  <2>2. CASE state[f] # "absent"
    BY <1>1, <1>3, <2>2 DEF Facts, StaysPublic
  <2> QED  BY <2>1, <2>2
<1>6. PatchIsProven(f)' /\ WritesAreApproved(f)'
  BY <1>1, <1>3 DEF Facts, PatchIsProven, WritesAreApproved
<1> QED  BY <1>4, <1>5, <1>6, FactsAre, OneFix

\* Requests, confirmations, other attempts, cancellations and discards.
LEMMA RequestSteps ==
    ASSUME FixInv, NEW f \in Fixes,
           \/ \E o \in Origins, once, skip \in BOOLEAN : Request(f, o, once, skip)
           \/ \E once \in BOOLEAN : Confirm(f, once)
           \/ Regenerate(f)
           \/ \E s \in Final : Stop(f, s)
    PROVE  FixInv'
<1>1. Facts(f) /\ FixTypes
  BY DEF FixInv
<1>2. {"queued", "awaiting_confirmation", "failed"} \cup Final \subseteq States
  BY DEF States, Live, Broken, Final
<1>3. ASSUME NEW o \in Origins, NEW once \in BOOLEAN, NEW skip \in BOOLEAN,
             Request(f, o, once, skip)
      PROVE  FixInv'
  <2>1. /\ state[f] = "absent" /\ place[f] = "idle"
        /\ UNCHANGED <<attempt, checked, patch>> /\ UNCHANGED <<place, post, approvals, writes>>
    BY <1>1, <1>3 DEF Request, Facts, AbsentIsIdle, workerVars, postVars
  <2>2. \E s \in {"failed", "queued", "awaiting_confirmation"} : Set(f, s)
    BY <1>3 DEF Request
  <2>3. /\ state' \in [Fixes -> States] /\ \A g \in Fixes \ {f} : state'[g] = state[g]
        /\ state'[f] \in {"queued", "awaiting_confirmation", "failed"}
    BY <1>1, <1>2, <2>2, Changes
  <2>4. \E v \in {"none", "once", "persistent"} : consent' = [consent EXCEPT ![f] = v]
    BY <1>3 DEF Request
  <2>5. \E v \in {"requester", "admin", "auto"} : authority' = [authority EXCEPT ![f] = v]
    <3>1. authority' = [authority EXCEPT ![f] = CASE o = "dashboard" -> "admin"
                                                  [] o = "auto" -> "auto"
                                                  [] OTHER -> "requester"]
      BY <1>3 DEF Request
    <3> QED  BY <3>1
  <2>6. \E v \in BOOLEAN : preview' = [preview EXCEPT ![f] = v]
    BY <1>3 DEF Request
  <2>7. Alone(f)
    BY <1>1, <2>1, <2>3, <2>4, <2>5, <2>6 DEF Alone, Same, FixTypes
  <2>8. /\ state[f] \notin Held /\ place[f] \notin InGenerate \cup Consented
        /\ state'[f] \notin Working
    BY <2>1, <2>3 DEF Held, InGenerate, Consented, Working
  <2>9. writes[f] = 0 /\ post[f] = "none"
    BY <1>1, <2>1 DEF Facts, AbsentIsIdle
  <2>10. AbsentIsIdle(f)' /\ WorkerHoldsIt(f)' /\ ConsentIsGiven(f)' /\ ClaimHoldsIt(f)'
    BY <2>1, <2>3, <2>8, <2>9
       DEF AbsentIsIdle, WorkerHoldsIt, ConsentIsGiven, ClaimHoldsIt, Claimed
  <2>11. StaysPublic(f)'
    BY <2>1, <2>9 DEF StaysPublic
  <2>12. PatchIsProven(f)' /\ WritesAreApproved(f)'
    BY <1>1, <2>1, <2>3 DEF Facts, PatchIsProven, WritesAreApproved
  <2> QED  BY <2>7, <2>10, <2>11, <2>12, FactsAre, OneFix
<1>4. ASSUME NEW once \in BOOLEAN, Confirm(f, once)
      PROVE  FixInv'
  <2>1. /\ state[f] = "awaiting_confirmation" /\ Set(f, "queued")
        /\ UNCHANGED <<preview, attempt, checked, patch>> /\ UNCHANGED <<place, post, approvals, writes>>
        /\ authority' = [authority EXCEPT ![f] = "admin"]
    BY <1>4 DEF Confirm, workerVars, postVars
  <2>2. \E v \in {"once", "persistent"} : consent' = [consent EXCEPT ![f] = v]
    BY <1>4 DEF Confirm
  <2>3. /\ state' \in [Fixes -> States] /\ \A g \in Fixes \ {f} : state'[g] = state[g]
        /\ state'[f] = "queued"
    BY <1>1, <1>2, <2>1, Changes
  <2>4. Alone(f) /\ consent'[f] # "none" /\ authority'[f] = "admin"
    <3>1. /\ consent' \in [Fixes -> {"none", "once", "persistent"}] /\ consent'[f] # "none"
          /\ \A g \in Fixes \ {f} : consent'[g] = consent[g]
      BY <1>1, <2>2 DEF FixTypes
    <3>2. /\ authority' \in [Fixes -> {"requester", "admin", "auto"}] /\ authority'[f] = "admin"
          /\ \A g \in Fixes \ {f} : authority'[g] = authority[g]
      BY <1>1, <2>1 DEF FixTypes
    <3> QED  BY <1>1, <2>1, <2>3, <3>1, <3>2 DEF Alone, Same, FixTypes
  <2>5. state[f] \notin Held /\ place[f] \notin InGenerate
    BY <1>1, <2>1 DEF Facts, WorkerHoldsIt, Held, Generating, Working, Final
  <2> QED  BY <2>1, <2>3, <2>4, <2>5, RecordMoves
<1>5. CASE Regenerate(f)
  <2>1. /\ place[f] = "idle" /\ Set(f, "queued")
        /\ state[f] \in {"ready", "failed", "validation_failed", "unsupported", "cancelled"}
        /\ UNCHANGED <<consent, preview, attempt, checked, patch>>
        /\ UNCHANGED <<place, post, approvals, writes>>
        /\ authority' = [authority EXCEPT ![f] = "admin"]
    BY <1>5 DEF Regenerate, Regenerable, workerVars, postVars
  <2>2. /\ state' \in [Fixes -> States] /\ \A g \in Fixes \ {f} : state'[g] = state[g]
        /\ state'[f] = "queued"
    BY <1>1, <1>2, <2>1, Changes
  <2>3. Alone(f) /\ authority'[f] = "admin"
    BY <1>1, <2>1, <2>2 DEF Alone, Same, FixTypes
  <2>4. state[f] \notin Held /\ place[f] \notin InGenerate
    BY <2>1 DEF Held, InGenerate
  <2> QED  BY <2>1, <2>2, <2>3, <2>4, RecordMoves
<1>6. ASSUME NEW s \in Final, Stop(f, s)
      PROVE  FixInv'
  <2>1. /\ state[f] \notin Held \cup {"absent"} /\ Set(f, s)
        /\ UNCHANGED <<consent, authority, preview, attempt, checked, patch>>
        /\ UNCHANGED <<place, post, approvals, writes>>
    BY <1>6 DEF Stop, postVars
  <2>2. /\ state' \in [Fixes -> States] /\ \A g \in Fixes \ {f} : state'[g] = state[g]
        /\ state'[f] \in Final
    BY <1>1, <1>2, <1>6, <2>1, Changes
  <2>3. Alone(f)
    BY <1>1, <2>1, <2>2 DEF Alone, Same, FixTypes
  <2> QED  BY <2>1, <2>2, <2>3, RecordMoves
<1> QED  BY <1>3, <1>4, <1>5, <1>6

-------------------------------------------------------------------------------
(* Claims and deliveries.                                                  *)

\* The claim of a ready fix, by an administrator or by its worker.
LEMMA ClaimSteps ==
    ASSUME FixInv, NEW f \in Fixes,
           (\E as \in Deliveries : Approve(f, as)) \/ ApproveAutomatically(f)
    PROVE  FixInv'
<1>1. Facts(f) /\ FixTypes
  BY DEF FixInv
<1>2. \E by, as : Claim(f, by, as)
  BY DEF Approve, ApproveAutomatically
<1>3. /\ state[f] = "ready" /\ Set(f, "publishing")
      /\ post' = [post EXCEPT ![f] = "claimed"]
      /\ approvals' = [approvals EXCEPT ![f] = @ + 1]
      /\ UNCHANGED <<consent, authority, preview, attempt, checked, patch, writes>>
  BY <1>2 DEF Claim, Approve, ApproveAutomatically
<1>4. /\ place[f] \notin InGenerate
      /\ place[f] \notin Consented \cup {"edit", "check", "verify"}
  BY <1>1, <1>3 DEF Facts, WorkerHoldsIt, Generating, Working, Final, Consented, InGenerate
<1>5. /\ place' \in [Fixes -> Places] /\ \A g \in Fixes \ {f} : place'[g] = place[g]
      /\ place'[f] \notin InGenerate \cup Consented
  <2>1. "deliver" \in Places /\ "deliver" \notin InGenerate \cup Consented
    BY DEF Places, InGenerate, Consented
  <2> QED  BY <1>1, <1>4, <2>1 DEF Approve, ApproveAutomatically, FixTypes
<1>6. /\ state' \in [Fixes -> States] /\ \A g \in Fixes \ {f} : state'[g] = state[g]
      /\ state'[f] = "publishing"
  <2>1. "publishing" \in States
    BY DEF States, Held
  <2> QED  BY <1>1, <1>3, <2>1, Changes
<1>7. Alone(f)
  <2>1. /\ approvals' \in [Fixes -> Nat] /\ \A g \in Fixes \ {f} : approvals'[g] = approvals[g]
        /\ post' \in [Fixes -> Posts] /\ \A g \in Fixes \ {f} : post'[g] = post[g]
    BY <1>1, <1>3 DEF FixTypes, Posts
  <2> QED  BY <1>1, <1>3, <1>5, <1>6, <2>1 DEF Alone, Same, FixTypes
<1>8. post'[f] = "claimed" /\ approvals'[f] = approvals[f] + 1
  BY <1>1, <1>3 DEF FixTypes
<1>9. AbsentIsIdle(f)' /\ WorkerHoldsIt(f)' /\ ConsentIsGiven(f)' /\ ClaimHoldsIt(f)'
  <2>1. place'[f] \notin {"edit", "check", "verify"} /\ "publishing" \notin Working
    BY <1>5 DEF Consented, Working
  <2> QED  BY <1>5, <1>6, <1>8, <2>1
           DEF AbsentIsIdle, WorkerHoldsIt, ConsentIsGiven, ClaimHoldsIt
<1>10. StaysPublic(f)'
  <2>1. state'[f] \in AfterWrite
    BY <1>6 DEF AfterWrite
  <2> QED  BY <1>1, <1>3, <1>5, <1>8, <2>1 DEF Facts, StaysPublic
<1>11. PatchIsProven(f)'
  <2>1. place'[f] # "verify"
    BY <1>5 DEF InGenerate
  <2> QED  BY <1>1, <1>3, <2>1 DEF Facts, PatchIsProven, Proven
<1>12. WritesAreApproved(f)'
  BY <1>1, <1>3, <1>8 DEF Facts, WritesAreApproved, FixTypes
<1> QED  BY <1>7, <1>9, <1>10, <1>11, <1>12, FactsAre, OneFix

\* What the steps of a delivery have in common.
LEMMA DeliveryKeeps ==
    ASSUME FixInv, NEW f \in Fixes,
           UNCHANGED <<consent, authority, preview, attempt, checked, patch, approvals, writes>>,
           state' \in [Fixes -> States], \A g \in Fixes \ {f} : state'[g] = state[g],
           post' \in [Fixes -> Posts], \A g \in Fixes \ {f} : post'[g] = post[g],
           \/ UNCHANGED place
           \/ place[f] = "deliver" /\ place' = [place EXCEPT ![f] = "leave"],
           state[f] \in Held, state'[f] \in Held \cup {"publish_failed"} \cup Final,
           state'[f] = "publishing" => state[f] = "publishing",
           ClaimHoldsIt(f)',
           post'[f] \in {"created", "rechecked"} => ~preview[f],
           post'[f] \in {"claimed", "created", "rechecked"} =>
                post[f] \in {"claimed", "created", "rechecked"},
           post'[f] = "written" => post[f] = "written"
    PROVE  FixInv'
<1>1. Facts(f) /\ FixTypes
  BY DEF FixInv
<1>2. {"leave", "deliver"} \subseteq Places \ InGenerate
  BY DEF Places, InGenerate
<1>3. /\ place' \in [Fixes -> Places] /\ \A g \in Fixes \ {f} : place'[g] = place[g]
      /\ place'[f] \in InGenerate => place'[f] = place[f]
      /\ place'[f] = "verify" => place[f] = "verify"
  BY <1>1, <1>2 DEF FixTypes
<1>4. Alone(f)
  BY <1>1, <1>3 DEF Alone, Same, FixTypes
<1>5. /\ place'[f] \notin InGenerate \cup Consented \cup {"edit", "check", "verify"}
      /\ state'[f] \notin Working \cup {"absent", "ready"}
      /\ state'[f] \in AfterWrite
  BY <1>1, <1>3 DEF Facts, WorkerHoldsIt, Generating, Working, Final, Held, Consented, InGenerate,
                    AfterWrite
<1>6. AbsentIsIdle(f)' /\ WorkerHoldsIt(f)' /\ ConsentIsGiven(f)'
  BY <1>5 DEF AbsentIsIdle, WorkerHoldsIt, ConsentIsGiven
<1>7. StaysPublic(f)'
  BY <1>1, <1>5 DEF Facts, StaysPublic
<1>8. PatchIsProven(f)' /\ WritesAreApproved(f)'
  BY <1>1, <1>5 DEF Facts, PatchIsProven, WritesAreApproved, Proven
<1> QED  BY <1>4, <1>6, <1>7, <1>8, FactsAre, OneFix

\* The steps of publish_authorized, and a browser that goes away, but for the write.
LEMMA DeliverySteps ==
    ASSUME FixInv, NEW f \in Fixes,
           \/ CreateCommit(f) \/ Recheck(f) \/ Refused(f)
           \/ \E again \in BOOLEAN : Published(f, again)
           \/ Follow(f) \/ Enqueue(f) \/ Unfollowed(f)
    PROVE  FixInv'
<1>1. Facts(f) /\ FixTypes
  BY DEF FixInv
<1>2. /\ post[f] \in Claimed => state[f] = "publishing"
      /\ post[f] \in {"follow", "enqueue"} => state[f] \in Delivered
  BY <1>1 DEF Facts, ClaimHoldsIt
<1>3. Delivered \cup {"publishing", "published", "verifying"} \subseteq Held /\ Final \cap Held = {}
  BY DEF Held, Final, Delivered
<1>4. {"published", "verifying", "publish_failed"} \subseteq States
  BY DEF States, Held, Broken
<1>5. UNCHANGED <<consent, authority, preview, attempt, checked, patch, approvals, writes>>
  BY DEF CreateCommit, Recheck, Refused, Published, Follow, Enqueue, Unfollowed, PostStep, PostUnchanged, Return
<1>6. CASE CreateCommit(f) \/ Recheck(f)
  <2>1. /\ UNCHANGED <<state, place>> /\ ~preview[f]
        /\ post[f] \in {"claimed", "created"}
        /\ \E to \in {"created", "rechecked"} : post' = [post EXCEPT ![f] = to]
    BY <1>6 DEF CreateCommit, Recheck, PostStep, PostUnchanged, Deliverable, workerVars
  <2>2. /\ post' \in [Fixes -> Posts] /\ \A g \in Fixes \ {f} : post'[g] = post[g]
        /\ post'[f] \in {"created", "rechecked"}
    BY <1>1, <2>1 DEF FixTypes, Posts
  <2>3. state[f] = "publishing"
    BY <1>2, <2>1 DEF Claimed
  <2>4. ClaimHoldsIt(f)'
    BY <2>1, <2>2, <2>3 DEF ClaimHoldsIt
  <2> QED  BY <1>1, <1>3, <1>5, <2>1, <2>2, <2>3, <2>4, DeliveryKeeps DEF FixTypes
<1>7. ASSUME NEW s \in {"published", "publish_failed"}, Change(f, s), Return(f),
             state[f] \in Held
      PROVE  FixInv'
  <2>1. /\ post' = [post EXCEPT ![f] = "none"]
        /\ place' = [place EXCEPT ![f] = IF @ = "deliver" THEN "leave" ELSE @]
    BY <1>7 DEF Return
  <2>2. /\ post' \in [Fixes -> Posts] /\ \A g \in Fixes \ {f} : post'[g] = post[g]
        /\ post'[f] = "none"
    BY <1>1, <2>1 DEF FixTypes, Posts
  <2>3. \/ UNCHANGED place
        \/ place[f] = "deliver" /\ place' = [place EXCEPT ![f] = "leave"]
    BY <1>1, <2>1 DEF FixTypes
  <2>4. /\ state' \in [Fixes -> States] /\ \A g \in Fixes \ {f} : state'[g] = state[g]
        /\ state'[f] = s
    BY <1>1, <1>3, <1>4, <1>7, Changes
  <2>5. ClaimHoldsIt(f)'
    BY <2>2 DEF ClaimHoldsIt, Claimed
  <2> QED  BY <1>3, <1>5, <1>7, <2>2, <2>3, <2>4, <2>5, DeliveryKeeps
<1>8. CASE Refused(f)
  <2>1. post[f] \in Claimed
    BY <1>8 DEF Refused, Claimed
  <2> QED  BY <1>2, <1>3, <1>7, <1>8, <2>1 DEF Refused
<1>9. CASE Unfollowed(f)
  BY <1>2, <1>3, <1>7, <1>9 DEF Unfollowed
<1>10. CASE \E again \in BOOLEAN : Published(f, again)
  <2>1. state[f] = "publishing" /\ post[f] = "written"
    BY <1>2, <1>10 DEF Published, Claimed
  <2>2. CASE Return(f)
    BY <1>3, <1>7, <1>10, <2>1, <2>2 DEF Published
  <2>3. CASE PostStep(f, "written", "follow") /\ PostUnchanged
    <3>1. /\ post' \in [Fixes -> Posts] /\ \A g \in Fixes \ {f} : post'[g] = post[g]
          /\ post'[f] = "follow" /\ UNCHANGED place
      BY <1>1, <2>3 DEF PostStep, PostUnchanged, FixTypes, Posts, workerVars
    <3>2. /\ state' \in [Fixes -> States] /\ \A g \in Fixes \ {f} : state'[g] = state[g]
          /\ state'[f] = "published"
      BY <1>1, <1>3, <1>4, <1>10, <2>1, Changes DEF Published
    <3>3. ClaimHoldsIt(f)'
      BY <3>1, <3>2 DEF ClaimHoldsIt, Claimed, Delivered
    <3> QED  BY <1>3, <1>5, <2>1, <3>1, <3>2, <3>3, DeliveryKeeps
  <2> QED  BY <1>10, <2>2, <2>3 DEF Published
<1>11. CASE Follow(f)
  <2>1. /\ post' \in [Fixes -> Posts] /\ \A g \in Fixes \ {f} : post'[g] = post[g]
        /\ post[f] = "follow" /\ post'[f] = "enqueue" /\ UNCHANGED place
    BY <1>1, <1>11 DEF Follow, PostStep, PostUnchanged, FixTypes, Posts, workerVars
  <2>2. /\ state' \in [Fixes -> States] /\ \A g \in Fixes \ {f} : state'[g] = state[g]
        /\ state'[f] = "verifying"
    BY <1>1, <1>2, <1>3, <1>4, <1>11, <2>1, Changes DEF Follow
  <2>3. ClaimHoldsIt(f)'
    BY <2>1, <2>2 DEF ClaimHoldsIt, Claimed, Delivered
  <2> QED  BY <1>2, <1>3, <1>5, <2>1, <2>2, <2>3, DeliveryKeeps
<1>12. CASE Enqueue(f)
  <2>1. /\ post' = [post EXCEPT ![f] = "none"] /\ UNCHANGED state /\ post[f] = "enqueue"
        /\ place' = [place EXCEPT ![f] = IF @ = "deliver" THEN "leave" ELSE @]
    BY <1>12 DEF Enqueue, Return
  <2>2. /\ post' \in [Fixes -> Posts] /\ \A g \in Fixes \ {f} : post'[g] = post[g]
        /\ post'[f] = "none"
    BY <1>1, <2>1 DEF FixTypes, Posts
  <2>3. \/ UNCHANGED place
        \/ place[f] = "deliver" /\ place' = [place EXCEPT ![f] = "leave"]
    BY <1>1, <2>1 DEF FixTypes
  <2>4. ClaimHoldsIt(f)'
    BY <2>2 DEF ClaimHoldsIt, Claimed
  <2> QED  BY <1>1, <1>2, <1>3, <1>5, <2>1, <2>2, <2>3, <2>4, DeliveryKeeps DEF FixTypes
<1> QED  BY <1>6, <1>8, <1>9, <1>10, <1>11, <1>12

\* The browser goes away: the claim stays, with nobody at it.
LEMMA DisconnectKeeps ==
    ASSUME FixInv, NEW f \in Fixes, Disconnect(f)
    PROVE  FixInv'
<1>1. Facts(f) /\ FixTypes
  BY DEF FixInv
<1>2. /\ post' = [post EXCEPT ![f] = "none"] /\ UNCHANGED <<state, writes, approvals>>
      /\ place' = [place EXCEPT ![f] = IF @ = "deliver" THEN "leave" ELSE @]
      /\ UNCHANGED <<consent, authority, preview, attempt, checked, patch>> /\ post[f] # "none"
  BY DEF Disconnect, Return
<1>3. state[f] \in Held
  BY <1>1, <1>2 DEF Facts, ClaimHoldsIt, FixTypes, Posts, Claimed, Held, Delivered
<1>4. /\ post' \in [Fixes -> Posts] /\ \A g \in Fixes \ {f} : post'[g] = post[g]
      /\ post'[f] = "none"
  BY <1>1, <1>2 DEF FixTypes, Posts
<1>5. \/ UNCHANGED place
      \/ place[f] = "deliver" /\ place' = [place EXCEPT ![f] = "leave"]
  BY <1>1, <1>2 DEF FixTypes
<1>6. ClaimHoldsIt(f)'
  BY <1>4 DEF ClaimHoldsIt, Claimed
<1> QED  BY <1>1, <1>2, <1>3, <1>4, <1>5, <1>6, DeliveryKeeps DEF FixTypes

\* The one write of a branch: of what was looked at again and is no preview.
LEMMA WriteKeeps ==
    ASSUME FixInv, NEW f \in Fixes, NEW ok \in BOOLEAN, WriteBranch(f, ok)
    PROVE  FixInv'
<1>1. Facts(f) /\ FixTypes
  BY DEF FixInv
<1>2. /\ post[f] = "rechecked" /\ \E to \in {"written", "lost"} : post' = [post EXCEPT ![f] = to]
      /\ writes' = [writes EXCEPT ![f] = @ + 1]
      /\ UNCHANGED <<state, consent, authority, preview, attempt, checked, patch, place, approvals>>
  BY DEF WriteBranch, PostStep, PostUnchanged, workerVars
<1>3. /\ state[f] = "publishing" /\ ~preview[f] /\ writes[f] < approvals[f]
  BY <1>1, <1>2 DEF Facts, ClaimHoldsIt, Claimed, StaysPublic, WritesAreApproved
<1>4. /\ post'[f] \in {"written", "lost"} /\ writes'[f] = writes[f] + 1
      /\ writes[f] \in Nat /\ approvals[f] \in Nat
  BY <1>1, <1>2 DEF FixTypes
<1>5. Alone(f)
  BY <1>1, <1>2 DEF Alone, Same, FixTypes, Posts
<1>6. AbsentIsIdle(f)' /\ WorkerHoldsIt(f)' /\ ConsentIsGiven(f)' /\ ClaimHoldsIt(f)'
  BY <1>1, <1>2, <1>3, <1>4
     DEF Facts, AbsentIsIdle, WorkerHoldsIt, ConsentIsGiven, ClaimHoldsIt, Claimed
<1>7. StaysPublic(f)'
  <2>1. state[f] \in AfterWrite /\ place[f] \notin InGenerate
    BY <1>1, <1>3 DEF Facts, WorkerHoldsIt, Generating, Working, Final, AfterWrite
  <2> QED  BY <1>2, <1>3, <1>4, <2>1 DEF StaysPublic
<1>8. PatchIsProven(f)' /\ WritesAreApproved(f)'
  BY <1>1, <1>2, <1>3, <1>4 DEF Facts, PatchIsProven, WritesAreApproved, Proven
<1> QED  BY <1>5, <1>6, <1>7, <1>8, FactsAre, OneFix

-------------------------------------------------------------------------------
(* The dispatcher, the follow-up review, closed pull requests, shutdown and *)
(* restart.                                                                *)

\* A worker starts on a queued fix.
LEMMA DispatchKeeps ==
    ASSUME FixInv, Dispatch
    PROVE  FixInv'
<1>1. UNCHANGED recordVars /\ UNCHANGED <<post, approvals, writes>>
  BY DEF Dispatch, postVars
<1>2. CASE UNCHANGED place
  BY <1>1, <1>2, NothingHappened
<1>3. ASSUME NEW f \in Waiting, place' = [place EXCEPT ![f] = "start"]
      PROVE  FixInv'
  <2>1. f \in Fixes /\ state[f] = "queued" /\ place[f] = "idle"
    BY <1>3 DEF Waiting
  <2>2. Facts(f) /\ FixTypes
    BY <2>1 DEF FixInv
  <2>3. UNCHANGED <<state, consent, authority, preview, attempt, checked, patch, post, approvals, writes>>
    BY <1>1 DEF recordVars
  <2>4. "start" \in Places /\ "start" \notin Consented \cup {"edit", "check", "verify"}
    BY DEF Places, InGenerate, Consented
  <2>5. place'[f] = "start" /\ Alone(f)
    BY <1>3, <2>1, <2>2, <2>3, <2>4 DEF Alone, Same, FixTypes
  <2>6. /\ state[f] \in Generating \ (Working \cup {"absent", "ready", "publishing"})
        /\ state[f] \notin AfterWrite
    BY <2>1 DEF Generating, Working, AfterWrite, Final
  <2>7. AbsentIsIdle(f)' /\ WorkerHoldsIt(f)' /\ ConsentIsGiven(f)' /\ ClaimHoldsIt(f)'
    BY <2>2, <2>3, <2>4, <2>5, <2>6
       DEF Facts, AbsentIsIdle, WorkerHoldsIt, ConsentIsGiven, ClaimHoldsIt
  <2>8. StaysPublic(f)'
    BY <2>2, <2>3, <2>6 DEF Facts, StaysPublic
  <2>9. PatchIsProven(f)' /\ WritesAreApproved(f)'
    BY <2>2, <2>3, <2>4, <2>5, <2>6 DEF Facts, PatchIsProven, WritesAreApproved
  <2> QED  BY <2>1, <2>5, <2>7, <2>8, <2>9, FactsAre, OneFix
<1> QED  BY <1>2, <1>3 DEF Dispatch

\* The follow-up review ends.
LEMMA ReviewEndsKeeps ==
    ASSUME FixInv, NEW f \in Fixes, NEW complete \in BOOLEAN, ReviewEnds(f, complete)
    PROVE  FixInv'
<1>1. Facts(f) /\ FixTypes
  BY DEF FixInv
<1>2. /\ UNCHANGED <<consent, authority, preview, attempt, checked, patch>>
      /\ UNCHANGED <<place, post, approvals, writes>>
  BY DEF ReviewEnds, workerVars
<1>3. CASE UNCHANGED state
  BY <1>2, <1>3, NothingHappened DEF recordVars
<1>4. CASE state[f] = "verifying" /\ ~(UNCHANGED state)
  <2>1. \E s \in {"verified", "published"} : Change(f, s)
    BY <1>4 DEF ReviewEnds
  <2>2. {"verified", "published"} \subseteq States /\ "verifying" \notin Final
    BY DEF States, Held, Final
  <2>3. /\ state' \in [Fixes -> States] /\ \A g \in Fixes \ {f} : state'[g] = state[g]
        /\ state'[f] \in {"verified", "published"}
    BY <1>1, <1>4, <2>1, <2>2, Changes
  <2>4. Alone(f)
    BY <1>1, <1>2, <2>3 DEF Alone, Same, FixTypes
  <2>5. /\ state'[f] \in AfterWrite
        /\ state'[f] \notin Working \cup {"absent", "ready", "publishing"}
        /\ place[f] \notin InGenerate \cup Consented \cup {"edit", "check", "verify"}
    BY <1>1, <1>4, <2>3 DEF Facts, WorkerHoldsIt, AfterWrite, Working, Generating, Final, InGenerate, Consented
  <2>6. post[f] \notin Claimed
    BY <1>1, <1>4 DEF Facts, ClaimHoldsIt
  <2>7. ClaimHoldsIt(f)'
    BY <1>2, <2>3, <2>6 DEF ClaimHoldsIt, Delivered
  <2>8. AbsentIsIdle(f)' /\ WorkerHoldsIt(f)' /\ ConsentIsGiven(f)'
    BY <1>2, <2>5 DEF AbsentIsIdle, WorkerHoldsIt, ConsentIsGiven
  <2>9. StaysPublic(f)'
    BY <1>1, <1>2, <2>5 DEF Facts, StaysPublic
  <2>10. PatchIsProven(f)' /\ WritesAreApproved(f)'
    BY <1>1, <1>2, <2>5 DEF Facts, PatchIsProven, WritesAreApproved
  <2> QED  BY <2>4, <2>7, <2>8, <2>9, <2>10, FactsAre, OneFix
<1> QED  BY <1>3, <1>4 DEF ReviewEnds

\* Steps that end fixes, all at once: what is not being delivered is cancelled or
\* has failed.
LEMMA EndsKeep ==
    ASSUME FixInv, Invalidate \/ Shutdown
    PROVE  FixInv'
<1>1. /\ UNCHANGED <<consent, authority, preview, attempt, checked, patch>>
      /\ UNCHANGED <<place, post, approvals, writes>>
  BY DEF Invalidate, Shutdown, postVars
<1>2. {"failed", "cancelled"} \subseteq States
  BY DEF States, Broken, Final
<1>3. /\ state' \in [Fixes -> States]
      /\ \A f \in Fixes : \/ state'[f] = state[f]
                          \/ state[f] \in Live /\ state'[f] = "cancelled"
                          \/ state[f] \in {"queued"} \cup Working /\ state'[f] = "failed"
  BY <1>2 DEF Invalidate, Shutdown, FixInv, FixTypes
<1>4. FixTypes'
  BY <1>1, <1>3 DEF FixInv, FixTypes
<1>5. ASSUME NEW f \in Fixes  PROVE Facts(f)'
  <2>1. Facts(f)
    BY DEF FixInv
  <2>2. CASE state'[f] = state[f]
    BY <1>1, <2>1, <2>2, SameKeeps DEF Same
  <2>3. CASE state[f] \in Live /\ state'[f] = "cancelled"
    <3>1. /\ state'[f] \in Generating \cap AfterWrite
          /\ state'[f] \notin Working \cup {"absent", "ready", "publishing", "queued"}
          /\ state[f] \notin {"publishing"} \cup Delivered
      BY <2>3 DEF Generating, AfterWrite, Working, Final, Live, Delivered
    <3>2. AbsentIsIdle(f)' /\ WorkerHoldsIt(f)' /\ ConsentIsGiven(f)' /\ ClaimHoldsIt(f)'
      BY <1>1, <2>1, <3>1 DEF Facts, AbsentIsIdle, WorkerHoldsIt, ConsentIsGiven, ClaimHoldsIt
    <3>3. StaysPublic(f)'
      BY <1>1, <2>1, <3>1 DEF Facts, StaysPublic
    <3>4. PatchIsProven(f)' /\ WritesAreApproved(f)'
      BY <1>1, <2>1, <3>1 DEF Facts, PatchIsProven, WritesAreApproved
    <3> QED  BY <3>2, <3>3, <3>4, FactsAre
  <2>4. CASE state[f] \in {"queued"} \cup Working /\ state'[f] = "failed"
    <3>1. /\ state'[f] \in Generating
          /\ state'[f] \notin Working \cup {"absent", "ready", "publishing", "queued"}
          /\ state[f] \notin {"publishing"} \cup Delivered
          /\ state[f] \notin AfterWrite
      BY <2>4 DEF Generating, AfterWrite, Working, Final, Delivered
    <3>2. AbsentIsIdle(f)' /\ WorkerHoldsIt(f)' /\ ConsentIsGiven(f)' /\ ClaimHoldsIt(f)'
      BY <1>1, <2>1, <3>1 DEF Facts, AbsentIsIdle, WorkerHoldsIt, ConsentIsGiven, ClaimHoldsIt
    <3>3. StaysPublic(f)'
      BY <1>1, <2>1, <3>1 DEF Facts, StaysPublic
    <3>4. PatchIsProven(f)' /\ WritesAreApproved(f)'
      BY <1>1, <2>1, <3>1 DEF Facts, PatchIsProven, WritesAreApproved
    <3> QED  BY <3>2, <3>3, <3>4, FactsAre
  <2> QED  BY <1>3, <2>2, <2>3, <2>4
<1> QED  BY <1>4, <1>5 DEF FixInv

\* Store::load: no worker, no delivery, and no state that needs one.
LEMMA RestartKeeps ==
    ASSUME FixInv, Restart
    PROVE  FixInv'
<1>1. /\ UNCHANGED <<consent, authority, preview, attempt, checked, patch, approvals, writes>>
      /\ state' = [f \in Fixes |-> Reloaded(state[f])]
      /\ place' = [f \in Fixes |-> "idle"] /\ post' = [f \in Fixes |-> "none"]
  BY DEF Restart
<1>2. ASSUME NEW s \in States
      PROVE  /\ Reloaded(s) \in States \ (Working \cup {"publishing"})
             /\ Reloaded(s) = "absent" => s = "absent"
             /\ Reloaded(s) = "ready" => s = "ready"
             /\ s \in AfterWrite => Reloaded(s) \in AfterWrite
  BY <1>2 DEF Reloaded, States, Live, Held, Broken, Working, Final, AfterWrite
<1>3. FixTypes'
  BY <1>1, <1>2 DEF FixInv, FixTypes, Places, Posts
<1>4. ASSUME NEW f \in Fixes  PROVE Facts(f)'
  <2>1. Facts(f) /\ state[f] \in States
    BY DEF FixInv, FixTypes
  <2>2. place'[f] = "idle" /\ post'[f] = "none" /\ state'[f] = Reloaded(state[f])
    BY <1>1
  <2>3. "idle" \notin InGenerate \cup Consented
    BY DEF InGenerate, Consented
  <2>4. AbsentIsIdle(f)' /\ WorkerHoldsIt(f)' /\ ConsentIsGiven(f)' /\ ClaimHoldsIt(f)'
    BY <1>1, <1>2, <2>1, <2>2, <2>3
       DEF Facts, AbsentIsIdle, WorkerHoldsIt, ConsentIsGiven, ClaimHoldsIt, Claimed
  <2>5. StaysPublic(f)'
    BY <1>1, <1>2, <2>1, <2>2, <2>3 DEF Facts, StaysPublic
  <2>6. PatchIsProven(f)' /\ WritesAreApproved(f)'
    BY <1>1, <1>2, <2>1, <2>2 DEF Facts, PatchIsProven, WritesAreApproved, Proven
  <2> QED  BY <2>4, <2>5, <2>6, FactsAre
<1> QED  BY <1>3, <1>4 DEF FixInv

\* Every step keeps the invariant.
THEOREM FixStep == FixInv /\ [Next]_vars => FixInv'
<1> SUFFICES ASSUME FixInv, [Next]_vars  PROVE FixInv'
  OBVIOUS
<1>1. ASSUME NEW f \in Fixes, User(f)  PROVE FixInv'
  BY <1>1, RequestSteps, ClaimSteps DEF User
<1>2. ASSUME NEW f \in Fixes, Worker(f)  PROVE FixInv'
  BY <1>2, GenerateSteps, TailSteps, ClaimSteps DEF Worker
<1>3. ASSUME NEW f \in Fixes, Publish(f) \/ Disconnect(f)  PROVE FixInv'
  BY <1>3, DeliverySteps, WriteKeeps, DisconnectKeeps DEF Publish
<1>4. ASSUME NEW f \in Fixes, NEW complete \in BOOLEAN, ReviewEnds(f, complete)  PROVE FixInv'
  BY <1>4, ReviewEndsKeeps
<1>5. CASE Invalidate \/ Shutdown \/ Restart \/ Dispatch
  BY <1>5, EndsKeep, RestartKeeps, DispatchKeeps
<1>6. CASE \/ Wake \/ Discover \/ ChangeRole \/ ChangePull
           \/ \E s \in Policies : ChangeSettings(s)
           \/ UNCHANGED vars
  BY <1>6, NothingHappened
     DEF Wake, Discover, ChangeRole, ChangePull, ChangeSettings, WorldStep, vars, workerVars, postVars
<1> QED  BY <1>1, <1>2, <1>3, <1>4, <1>5, <1>6 DEF Next, World

\* The invariant holds in every reachable state.
LEMMA FixInvariant == Spec => []FixInv
BY FixInitially, FixStep, PTL DEF Spec

\* No model work is paid for without consent, whichever way a fix was queued.
THEOREM WorkIsConsented == Spec => []ConsentBeforeWork
<1>1. FixInv => ConsentBeforeWork
  BY DEF FixInv, Facts, ConsentIsGiven, ConsentBeforeWork
<1> QED  BY <1>1, FixInvariant, PTL

\* A private preview is never published, whoever confirms it or asks for another
\* attempt.
THEOREM PreviewsStayPrivate == Spec => []PrivateStaysPrivate
<1>1. FixInv => PrivateStaysPrivate
  BY DEF FixInv, Facts, StaysPublic, PrivateStaysPrivate
<1> QED  BY <1>1, FixInvariant, PTL

-------------------------------------------------------------------------------
(* Nobody is stranded, if browsers stay: the state says who is at it.       *)

\* Where a worker is while the record says that it works.
AtWork == {"retry", "begin", "edit", "check", "verify"}

ToldIsDropped(f) ==
    /\ f \in told => place[f] # "idle"
    /\ phase = "up" /\ f \in told => state[f] \in Final

WorkHasWorker(f) == phase = "up" /\ state[f] \in Working => place[f] \in AtWork

DeliveryHasHandler(f) ==
    /\ state[f] = "publishing" => post[f] \in Claimed
    /\ state[f] = "verifying" => follow[f] = "queued" \/ post[f] = "enqueue"

Attended(f) == ToldIsDropped(f) /\ WorkHasWorker(f) /\ DeliveryHasHandler(f)

AttendedInv ==
    /\ follow \in [Fixes -> {"none", "asked", "queued"}]
    /\ \A f \in Fixes : Attended(f)

\* What nobody touches.
Untouched(f) ==
    /\ state'[f] = state[f] /\ place'[f] = place[f] /\ post'[f] = post[f]
    /\ follow'[f] = follow[f] /\ (f \in told' <=> f \in told)

LEMMA UntouchedKeeps ==
    ASSUME NEW f \in Fixes, Attended(f), Untouched(f), phase' = phase
    PROVE  Attended(f)'
BY DEF Attended, Untouched, ToldIsDropped, WorkHasWorker, DeliveryHasHandler

LEMMA AttendedOne ==
    ASSUME AttendedInv, NEW f \in Fixes, phase' = phase,
           follow' \in [Fixes -> {"none", "asked", "queued"}],
           \A g \in Fixes \ {f} : Untouched(g),
           ToldIsDropped(f)', WorkHasWorker(f)', DeliveryHasHandler(f)'
    PROVE  AttendedInv'
<1>1. ASSUME NEW g \in Fixes  PROVE Attended(g)'
  BY UntouchedKeeps DEF AttendedInv, Attended
<1> QED  BY <1>1 DEF AttendedInv

LEMMA NothingToAttend ==
    ASSUME AttendedInv, UNCHANGED <<state, place, post, follow, told, phase>>
    PROVE  AttendedInv'
BY DEF AttendedInv, Attended, ToldIsDropped, WorkHasWorker, DeliveryHasHandler

\* Requests, confirmations, other attempts, cancellations and claims.
LEMMA UserAttends ==
    ASSUME FixInv, FixInv', AttendedInv, NEW f \in Fixes, User(f) \/ ApproveAutomatically(f)
    PROVE  AttendedInv'
<1>1. FixTypes /\ Attended(f)
  BY DEF FixInv, AttendedInv
<1>2. phase' = phase /\ follow' = follow
  BY DEF User, ApproveAutomatically, Request, Confirm, Regenerate, Stop, Approve, Claim, worldVars,
     postVars
<1>3. CASE \/ \E o \in Origins, once, skip \in BOOLEAN : Request(f, o, once, skip)
           \/ \E once \in BOOLEAN : Confirm(f, once)
           \/ Regenerate(f)
  <2>1. PICK s \in {"failed", "queued", "awaiting_confirmation"} : Set(f, s)
    BY <1>3 DEF Request, Confirm, Regenerate
  <2>2. UNCHANGED <<place, told, post>>
    BY <1>3 DEF Request, Confirm, Regenerate, workerVars, postVars
  <2>3. f \in told /\ phase = "up" => FALSE
    BY <1>1, <1>3 DEF Request, Confirm, Regenerate, Attended, ToldIsDropped, Final
  <2>4. /\ state'[f] = s /\ s \notin Working \cup {"publishing", "verifying"}
        /\ \A g \in Fixes \ {f} : state'[g] = state[g]
    BY <1>1, <2>1 DEF Set, FixTypes, Working
  <2> QED  BY <1>1, <1>2, <2>2, <2>3, <2>4, AttendedOne DEF AttendedInv, Untouched, Attended,
              ToldIsDropped, WorkHasWorker, DeliveryHasHandler
<1>4. CASE \E s \in Final : Stop(f, s)
  <2>1. PICK s \in Final : Set(f, s) /\ Tell({f}) /\ UNCHANGED <<place, post>>
    BY <1>4 DEF Stop, postVars
  <2>2. /\ state'[f] = s /\ s \notin Working \cup {"publishing", "verifying"}
        /\ \A g \in Fixes \ {f} : state'[g] = state[g]
    BY <1>1, <2>1 DEF Set, FixTypes, Working, Final
  <2>3. told' = told \cup {g \in {f} : place[g] # "idle"}
    BY <2>1 DEF Tell
  <2>4. ToldIsDropped(f)' /\ WorkHasWorker(f)' /\ DeliveryHasHandler(f)'
    BY <1>1, <2>1, <2>2, <2>3 DEF Attended, ToldIsDropped, WorkHasWorker, DeliveryHasHandler
  <2>5. \A g \in Fixes \ {f} : Untouched(g)
    BY <1>2, <2>1, <2>2, <2>3 DEF Untouched
  <2> QED  BY <1>2, <2>4, <2>5, AttendedOne DEF AttendedInv
<1>5. CASE (\E as \in Deliveries : Approve(f, as)) \/ ApproveAutomatically(f)
  <2>1. /\ state[f] = "ready" /\ \E by, as : Claim(f, by, as)
        /\ place' = place \/ (place' = [place EXCEPT ![f] = "deliver"])
    BY <1>5 DEF Approve, ApproveAutomatically
  <2>2. Set(f, "publishing") /\ post' = [post EXCEPT ![f] = "claimed"] /\ told' = told
    BY <2>1 DEF Claim
  <2>3. /\ state'[f] = "publishing" /\ post'[f] = "claimed"
        /\ place'[f] # "idle" \/ place'[f] = place[f]
        /\ \A g \in Fixes \ {f} : state'[g] = state[g] /\ post'[g] = post[g] /\ place'[g] = place[g]
    BY <1>1, <2>1, <2>2 DEF Set, FixTypes
  <2>4. phase = "up" => f \notin told
    BY <1>1, <2>1 DEF Attended, ToldIsDropped, Final
  <2>5. "publishing" \notin Working \cup {"verifying"} /\ "claimed" \in Claimed
    BY DEF Working, Claimed
  <2>6. ToldIsDropped(f)' /\ WorkHasWorker(f)' /\ DeliveryHasHandler(f)'
    BY <1>1, <1>2, <2>2, <2>3, <2>4, <2>5
       DEF Attended, ToldIsDropped, WorkHasWorker, DeliveryHasHandler
  <2>7. \A g \in Fixes \ {f} : Untouched(g)
    BY <1>2, <2>2, <2>3 DEF Untouched
  <2> QED  BY <1>2, <2>6, <2>7, AttendedOne DEF AttendedInv
<1> QED  BY <1>3, <1>4, <1>5 DEF User

\* A step of the worker: from which place, to which, and what becomes of the record.
LEMMA WorkerAttends ==
    ASSUME FixInv, FixInv', AttendedInv, NEW f \in Fixes, Generate(f) \/ Drop(f) \/ Fail(f)
    PROVE  AttendedInv'
<1>1. FixTypes /\ Attended(f) /\ place[f] \in InGenerate
  BY DEF FixInv, AttendedInv, Generate, Drop, Fail, Begin, Look, Prepare, Retry, Attempt,
         AttemptRefused, Edited, PatchChecked, Verified, Step, InGenerate
<1>2. phase' = phase /\ UNCHANGED <<post, follow, told>>
  BY DEF Generate, Drop, Fail, Begin, Look, Prepare, Retry, Attempt, AttemptRefused, Edited,
         PatchChecked, Verified, Step, worldVars, postVars
<1>3. /\ \A g \in Fixes \ {f} : state'[g] = state[g] /\ place'[g] = place[g]
      /\ place'[f] # "idle" /\ (f \in told => place'[f] = "end")
      /\ state[f] \in Final => state'[f] \in Final
      /\ phase = "up" /\ state'[f] \in Working => place'[f] \in AtWork \/ f \in told
      /\ state'[f] \in {"publishing", "verifying"} => state'[f] = state[f]
  <2> DEFINE Fine(s, from, to) ==
                /\ to \in Places \ {"idle"}
                /\ s \notin {"publishing", "verifying"}
                /\ s \in Working => to \in AtWork
  <2>1. ASSUME NEW s \in States, NEW from \in InGenerate, NEW to, Step(f, from, to), Change(f, s),
               Fine(s, from, to)
        PROVE  /\ \A g \in Fixes \ {f} : state'[g] = state[g] /\ place'[g] = place[g]
               /\ place'[f] # "idle" /\ (f \in told => place'[f] = "end")
               /\ state[f] \in Final => state'[f] \in Final
               /\ phase = "up" /\ state'[f] \in Working => place'[f] \in AtWork \/ f \in told
               /\ state'[f] \in {"publishing", "verifying"} => state'[f] = state[f]
    <3>1. /\ \A g \in Fixes \ {f} : state'[g] = state[g]
          /\ state'[f] = IF state[f] \in Final THEN state[f] ELSE s
      BY <1>1, <2>1, Changes
    <3>2. /\ \A g \in Fixes \ {f} : place'[g] = place[g]
          /\ place'[f] = IF f \in told THEN "end" ELSE to
      BY <1>1, <2>1 DEF Step, FixTypes
    <3>3. Final \cap Working = {}
      BY DEF Final, Working
    <3> QED  BY <2>1, <3>1, <3>2, <3>3
  <2>2. ASSUME NEW from \in InGenerate, NEW to \in Places \ {"idle"}, Step(f, from, to),
               UNCHANGED state,
               phase = "up" /\ state[f] \in Working => to \in AtWork
        PROVE  /\ \A g \in Fixes \ {f} : state'[g] = state[g] /\ place'[g] = place[g]
               /\ place'[f] # "idle" /\ (f \in told => place'[f] = "end")
               /\ state[f] \in Final => state'[f] \in Final
               /\ phase = "up" /\ state'[f] \in Working => place'[f] \in AtWork \/ f \in told
               /\ state'[f] \in {"publishing", "verifying"} => state'[f] = state[f]
    <3>1. /\ \A g \in Fixes \ {f} : place'[g] = place[g]
          /\ place'[f] = IF f \in told THEN "end" ELSE to
      BY <1>1, <2>2 DEF Step, FixTypes
    <3> QED  BY <2>2, <3>1
  <2>3. /\ {"end"} \cup InGenerate \subseteq Places \ {"idle"}
        /\ {"stale", "awaiting_confirmation", "unsupported", "validation_failed", "failed",
            "generating", "validating", "ready"} \subseteq States
    BY DEF Places, InGenerate, States, Live, Broken
  <2>4. /\ {"stale", "awaiting_confirmation", "unsupported", "validation_failed", "failed", "ready"}
              \cap (Working \cup {"publishing", "verifying"}) = {}
        /\ Working = {"generating", "validating"} /\ {"edit", "check", "verify", "retry", "begin"} = AtWork
        /\ AtWork \subseteq InGenerate /\ {"start", "look", "prepare"} \subseteq InGenerate \ AtWork
    BY DEF Working, AtWork, InGenerate
  <2>5. phase = "up" /\ state[f] \in Working => place[f] \in AtWork
    BY <1>1 DEF Attended, WorkHasWorker
  <2>6. CASE Begin(f)
    <3>1. Step(f, "start", IF state[f] = "queued" THEN "look" ELSE "end") /\ UNCHANGED state
      BY <2>6 DEF Begin, recordVars
    <3>2. place[f] = "start"
      BY <3>1 DEF Step
    <3> QED  BY <2>2, <2>3, <2>4, <2>5, <3>1, <3>2
  <2>7. CASE Look(f)
    <3>1. \/ Step(f, "look", "end") /\ Change(f, "stale")
          \/ Step(f, "look", "end") /\ Change(f, "awaiting_confirmation")
          \/ Step(f, "look", "prepare") /\ UNCHANGED state /\ place[f] = "look"
      BY <2>7 DEF Look, Step
    <3> QED  BY <2>1, <2>2, <2>3, <2>4, <2>5, <3>1
  <2>8. CASE \E ok \in BOOLEAN : Prepare(f, ok)
    <3>1. \/ Step(f, "prepare", "end") /\ Change(f, "unsupported")
          \/ Step(f, "prepare", "retry") /\ UNCHANGED state
      BY <2>8 DEF Prepare
    <3> QED  BY <2>1, <2>2, <2>3, <2>4, <3>1
  <2>9. CASE Retry(f)
    <3>1. \/ Step(f, "retry", "end") /\ Change(f, "validation_failed")
          \/ Step(f, "retry", "begin") /\ UNCHANGED state
      BY <2>9 DEF Retry
    <3> QED  BY <2>1, <2>2, <2>3, <2>4, <3>1
  <2>10. CASE Attempt(f) \/ Edited(f)
    <3>1. \/ Step(f, "begin", "edit") /\ Change(f, "generating")
          \/ Step(f, "edit", "check") /\ Change(f, "validating")
      BY <2>10 DEF Attempt, Edited
    <3> QED  BY <2>1, <2>3, <2>4, <3>1
  <2>11. CASE AttemptRefused(f)
    <3>1. Step(f, "begin", "end") /\ UNCHANGED state /\ state[f] \notin Working
      BY <2>11 DEF AttemptRefused, recordVars, Final, Working
    <3> QED  BY <2>2, <2>3, <2>4, <3>1
  <2>12. CASE \E o \in Outcomes : PatchChecked(f, o.kept, o.clean)
    <3>1. \/ Step(f, "check", "verify") /\ UNCHANGED state
          \/ Step(f, "check", "retry") /\ UNCHANGED state
      BY <2>12 DEF PatchChecked
    <3> QED  BY <2>2, <2>3, <2>4, <3>1
  <2>13. CASE \E good \in BOOLEAN : Verified(f, good)
    <3>1. \/ Step(f, "verify", "end") /\ Change(f, "ready")
          \/ Step(f, "verify", "retry") /\ UNCHANGED state
      BY <2>13 DEF Verified
    <3> QED  BY <2>1, <2>2, <2>3, <2>4, <3>1
  <2>14. CASE Fail(f)
    <3>1. Step(f, place[f], "end") /\ Change(f, "failed")
      BY <2>14 DEF Fail
    <3> QED  BY <1>1, <2>1, <2>3, <2>4, <3>1
  <2>15. CASE Drop(f)
    BY <1>1, <2>15 DEF Drop, recordVars, FixTypes
  <2> QED  BY <2>6, <2>7, <2>8, <2>9, <2>10, <2>11, <2>12, <2>13, <2>14, <2>15 DEF Generate
<1>4. phase = "up" /\ f \in told => state[f] \in Final
  BY <1>1 DEF Attended, ToldIsDropped
<1>5. Final \cap Working = {}
  BY DEF Final, Working
<1>6. ToldIsDropped(f)' /\ WorkHasWorker(f)' /\ DeliveryHasHandler(f)'
  BY <1>1, <1>2, <1>3, <1>4, <1>5 DEF Attended, ToldIsDropped, WorkHasWorker, DeliveryHasHandler
<1>7. \A g \in Fixes \ {f} : Untouched(g)
  BY <1>2, <1>3 DEF Untouched
<1> QED  BY <1>2, <1>6, <1>7, AttendedOne DEF AttendedInv

\* The worker's way out and in, when the record is not one that works.
LEMMA TailAttends ==
    ASSUME FixInv, FixInv', AttendedInv
    PROVE  /\ \A f \in Fixes : Offer(f) \/ NoOffer(f) \/ Leave(f) => AttendedInv'
           /\ Dispatch => AttendedInv'
<1>1. FixTypes
  BY DEF FixInv
<1>2. ASSUME NEW f \in Fixes, Offer(f) \/ NoOffer(f) \/ Leave(f)  PROVE AttendedInv'
  <2>1. /\ phase' = phase /\ UNCHANGED <<state, post, follow>>
        /\ place[f] \in {"end", "offer", "leave"} /\ place[f] \notin AtWork
        /\ \A g \in Fixes \ {f} : place'[g] = place[g]
        /\ \/ told' = told /\ place'[f] # "idle"
           \/ told' = told \ {f}
    BY <1>1, <1>2 DEF Offer, NoOffer, Leave, Step, postVars, worldVars, recordVars, FixTypes, AtWork
  <2>2. Attended(f)
    BY DEF AttendedInv
  <2>3. ToldIsDropped(f)' /\ WorkHasWorker(f)' /\ DeliveryHasHandler(f)'
    BY <2>1, <2>2 DEF Attended, ToldIsDropped, WorkHasWorker, DeliveryHasHandler
  <2>4. \A g \in Fixes \ {f} : Untouched(g)
    BY <2>1 DEF Untouched
  <2> QED  BY <2>1, <2>3, <2>4, AttendedOne DEF AttendedInv
<1>3. CASE Dispatch
  <2>1. phase' = phase /\ UNCHANGED <<state, told, post, follow>>
    BY <1>3 DEF Dispatch, worldVars, postVars, recordVars
  <2>2. CASE UNCHANGED place
    BY <2>1, <2>2, NothingToAttend
  <2>3. ASSUME NEW f \in Waiting, place' = [place EXCEPT ![f] = "start"]  PROVE AttendedInv'
    <3>1. f \in Fixes /\ state[f] = "queued" /\ Attended(f)
      BY <2>3 DEF Waiting, AttendedInv
    <3>2. place'[f] = "start" /\ \A g \in Fixes \ {f} : place'[g] = place[g]
      BY <1>1, <2>3, <3>1 DEF FixTypes
    <3>3. ToldIsDropped(f)' /\ WorkHasWorker(f)' /\ DeliveryHasHandler(f)'
      BY <2>1, <3>1, <3>2 DEF Attended, ToldIsDropped, WorkHasWorker, DeliveryHasHandler, Working
    <3>4. \A g \in Fixes \ {f} : Untouched(g)
      BY <2>1, <3>2 DEF Untouched
    <3> QED  BY <2>1, <3>1, <3>3, <3>4, AttendedOne DEF AttendedInv
  <2> QED  BY <1>3, <2>2, <2>3 DEF Dispatch
<1> QED  BY <1>2, <1>3

\* Deliveries go on, return or fail, and follow-up reviews end.
LEMMA PublishAttends ==
    ASSUME FixInv, FixInv', AttendedInv, NEW f \in Fixes,
           Publish(f) \/ \E complete \in BOOLEAN : ReviewEnds(f, complete)
    PROVE  AttendedInv'
<1>1. FixTypes /\ Attended(f) /\ ClaimHoldsIt(f)
  BY DEF FixInv, Facts, AttendedInv
<1>2. follow \in [Fixes -> {"none", "asked", "queued"}]
  BY DEF AttendedInv
<1>3. phase' = phase /\ told' = told
  BY DEF Publish, ReviewEnds, CreateCommit, Recheck, WriteBranch, Refused, Published, Follow,
         Enqueue, Unfollowed, Return, PostStep, PostUnchanged, worldVars, workerVars
<1>4. /\ {"published", "verifying", "verified", "publish_failed"} \subseteq States
      /\ Final \cap {"published", "verifying", "verified", "publish_failed", "publishing"} = {}
      /\ Working \cap {"published", "verifying", "verified", "publish_failed", "publishing"} = {}
      /\ Final \cap Working = {}
  BY DEF States, Held, Broken, Final, Working
<1> DEFINE Goal == /\ follow' \in [Fixes -> {"none", "asked", "queued"}]
                   /\ \A g \in Fixes \ {f} : Untouched(g)
                   /\ place'[f] = place[f] \/ place'[f] = "leave"
                   /\ state'[f] = state[f] \/ state'[f] \notin Working
                   /\ state[f] \notin Working
                   /\ state[f] \in Final => state'[f] \in Final
                   /\ DeliveryHasHandler(f)'
<1>5. ASSUME Goal  PROVE AttendedInv'
  <2>1. ToldIsDropped(f)' /\ WorkHasWorker(f)'
    BY <1>1, <1>3, <1>5 DEF Attended, ToldIsDropped, WorkHasWorker
  <2> QED  BY <1>3, <1>5, <2>1, AttendedOne
<1>6. CASE CreateCommit(f) \/ Recheck(f) \/ \E ok \in BOOLEAN : WriteBranch(f, ok)
  <2>1. /\ UNCHANGED <<state, place, follow>> /\ post[f] \in Claimed
        /\ \E to \in {"created", "rechecked", "written", "lost"} : post' = [post EXCEPT ![f] = to]
    BY <1>6 DEF CreateCommit, Recheck, WriteBranch, PostStep, PostUnchanged, workerVars, Claimed
  <2>2. /\ post'[f] \in Claimed /\ \A g \in Fixes \ {f} : post'[g] = post[g]
        /\ state[f] = "publishing"
    BY <1>1, <2>1 DEF FixTypes, Claimed, ClaimHoldsIt
  <2> QED  BY <1>2, <1>3, <1>4, <1>5, <2>1, <2>2 DEF Untouched, DeliveryHasHandler
<1>7. ASSUME NEW s \in {"published", "publish_failed"}, Change(f, s), Return(f),
             UNCHANGED follow \/ follow' = [follow EXCEPT ![f] = "none"],
             post[f] # "none"
      PROVE  AttendedInv'
  <2>1. /\ state'[f] = IF state[f] \in Final THEN state[f] ELSE s
        /\ \A g \in Fixes \ {f} : state'[g] = state[g]
    BY <1>1, <1>4, <1>7, Changes
  <2>2. /\ \A g \in Fixes \ {f} : post'[g] = post[g] /\ place'[g] = place[g] /\ follow'[g] = follow[g]
        /\ place'[f] \in {place[f], "leave"}
        /\ follow' \in [Fixes -> {"none", "asked", "queued"}]
    BY <1>1, <1>2, <1>7 DEF Return, FixTypes
  <2>3. state[f] \notin Working
    BY <1>1, <1>4, <1>7 DEF ClaimHoldsIt, FixTypes, Posts, Claimed, Delivered
  <2>4. DeliveryHasHandler(f)' /\ state'[f] \notin Working
    BY <1>4, <1>7, <2>1 DEF DeliveryHasHandler
  <2> QED  BY <1>3, <1>4, <1>5, <2>1, <2>2, <2>3, <2>4 DEF Untouched
<1>8. CASE Refused(f) \/ Unfollowed(f) \/ Published(f, FALSE)
  <2>1. \E s \in {"published", "publish_failed"} : Change(f, s)
    BY <1>8 DEF Refused, Unfollowed, Published
  <2>2. /\ Return(f) /\ post[f] # "none"
        /\ UNCHANGED follow \/ follow' = [follow EXCEPT ![f] = "none"]
    BY <1>8 DEF Refused, Unfollowed, Published
  <2> QED  BY <1>7, <2>1, <2>2
<1>9. CASE Published(f, TRUE) \/ Follow(f)
  <2>1. PICK s \in {"published", "verifying"}, to \in {"follow", "enqueue"} :
           /\ Change(f, s) /\ post' = [post EXCEPT ![f] = to] /\ UNCHANGED place
           /\ post[f] \in {"written", "follow"}
           /\ s = "verifying" => to = "enqueue"
           /\ follow' = follow \/ follow' = [follow EXCEPT ![f] = "asked"]
    <3>1. CASE Published(f, TRUE)
      BY <3>1 DEF Published, PostStep, PostUnchanged, workerVars
    <3>2. CASE Follow(f)
      BY <3>2 DEF Follow, PostStep, PostUnchanged, workerVars
    <3> QED  BY <1>9, <3>1, <3>2
  <2>2. /\ state'[f] = IF state[f] \in Final THEN state[f] ELSE s
        /\ \A g \in Fixes \ {f} : state'[g] = state[g]
    BY <1>1, <1>4, <2>1, Changes
  <2>3. /\ post'[f] = to /\ \A g \in Fixes \ {f} : post'[g] = post[g] /\ follow'[g] = follow[g]
        /\ follow' \in [Fixes -> {"none", "asked", "queued"}]
    BY <1>1, <1>2, <2>1 DEF FixTypes
  <2>4. state[f] \notin Working
    BY <1>1, <1>4, <2>1 DEF ClaimHoldsIt, Claimed, Delivered
  <2>5. DeliveryHasHandler(f)' /\ state'[f] \notin Working
    BY <1>4, <2>1, <2>2, <2>3 DEF DeliveryHasHandler
  <2> QED  BY <1>3, <1>4, <1>5, <2>1, <2>2, <2>3, <2>4, <2>5 DEF Untouched
<1>10. CASE Enqueue(f)
  <2>1. /\ follow' = [follow EXCEPT ![f] = "queued"] /\ Return(f) /\ UNCHANGED state
        /\ post[f] = "enqueue"
    BY <1>10 DEF Enqueue
  <2>2. /\ \A g \in Fixes \ {f} : post'[g] = post[g] /\ place'[g] = place[g] /\ follow'[g] = follow[g]
        /\ place'[f] \in {place[f], "leave"} /\ follow'[f] = "queued"
        /\ follow' \in [Fixes -> {"none", "asked", "queued"}]
    BY <1>1, <1>2, <2>1 DEF Return, FixTypes
  <2>3. state[f] \in Delivered
    BY <1>1, <2>1 DEF ClaimHoldsIt
  <2>4. state[f] \notin Working \cup {"publishing"}
    BY <1>4, <2>3 DEF Delivered
  <2> QED  BY <1>3, <1>5, <2>1, <2>2, <2>4 DEF Untouched, DeliveryHasHandler
<1>11. CASE \E complete \in BOOLEAN : ReviewEnds(f, complete)
  <2>1. /\ UNCHANGED <<place, post>> /\ follow' = [follow EXCEPT ![f] = "none"]
        /\ \/ state[f] # "verifying" /\ UNCHANGED state
           \/ \E s \in {"published", "verified"} : state[f] = "verifying" /\ Change(f, s)
    BY <1>11 DEF ReviewEnds, workerVars
  <2>2. \A g \in Fixes \ {f} : follow'[g] = follow[g]
    BY <1>2, <2>1
  <2>3. follow' \in [Fixes -> {"none", "asked", "queued"}]
    BY <1>2, <2>1
  <2>4. CASE state[f] # "verifying" /\ UNCHANGED state
    <3>1. ToldIsDropped(f)' /\ WorkHasWorker(f)' /\ DeliveryHasHandler(f)'
      BY <1>1, <1>3, <2>1, <2>4
         DEF Attended, ToldIsDropped, WorkHasWorker, DeliveryHasHandler
    <3>2. \A g \in Fixes \ {f} : Untouched(g)
      BY <1>3, <2>1, <2>2, <2>4 DEF Untouched
    <3> QED  BY <1>3, <2>3, <3>1, <3>2, AttendedOne
  <2>5. ASSUME NEW s \in {"published", "verified"}, state[f] = "verifying", Change(f, s)
        PROVE  AttendedInv'
    <3>1. state'[f] = s /\ \A g \in Fixes \ {f} : state'[g] = state[g]
      BY <1>1, <1>4, <2>5, Changes
    <3>2. DeliveryHasHandler(f)' /\ state'[f] \notin Working /\ state[f] \notin Working \cup Final
      BY <1>4, <2>5, <3>1 DEF DeliveryHasHandler
    <3> QED  BY <1>3, <1>5, <2>1, <2>2, <2>3, <3>1, <3>2 DEF Untouched
  <2> QED  BY <2>1, <2>4, <2>5
<1>12. \A again \in BOOLEAN : again = TRUE \/ again = FALSE
  OBVIOUS
<1> QED  BY <1>6, <1>8, <1>9, <1>10, <1>11, <1>12 DEF Publish

\* A closed pull request, the end of the process and its next start.
LEMMA EndsAttend ==
    ASSUME FixInv, FixInv', AttendedInv, Invalidate \/ Shutdown \/ Restart
    PROVE  AttendedInv'
<1>1. FixTypes /\ \A f \in Fixes : Attended(f)
  BY DEF FixInv, AttendedInv
<1>2. follow' \in [Fixes -> {"none", "asked", "queued"}]
  BY DEF Invalidate, Shutdown, Restart, postVars, AttendedInv
<1>3. /\ Final \cap (Working \cup {"publishing", "verifying"}) = {}
      /\ "cancelled" \in Final /\ "failed" \notin Working \cup {"publishing", "verifying"}
      /\ {"publishing", "verifying"} \cap Live = {}
      /\ Final \cap ({"queued"} \cup Working) = {}
  BY DEF Final, Working, Live
<1>4. ASSUME NEW f \in Fixes  PROVE Attended(f)'
  <2>1. CASE Invalidate
    <3>1. /\ phase' = phase /\ UNCHANGED <<place, post, follow>>
          /\ \/ state[f] \in Live /\ state'[f] = "cancelled"
             \/ state[f] \notin Live /\ state'[f] = state[f]
          /\ f \in told' => f \in told \/ (state[f] \in Live /\ place[f] # "idle")
      BY <2>1 DEF Invalidate, Tell, postVars, worldVars
    <3> QED  BY <1>1, <1>3, <3>1
             DEF Attended, ToldIsDropped, WorkHasWorker, DeliveryHasHandler
  <2>2. CASE Shutdown
    <3>1. /\ phase' = "stopping" /\ UNCHANGED <<place, post, follow>>
          /\ state'[f] = state[f] \/ state'[f] = "failed"
          /\ f \in told' => f \in told \/ place[f] # "idle"
      BY <2>2 DEF Shutdown, Tell, postVars
    <3> QED  BY <1>1, <1>3, <3>1
             DEF Attended, ToldIsDropped, WorkHasWorker, DeliveryHasHandler
  <2>3. CASE Restart
    <3>1. state'[f] = Reloaded(state[f]) /\ told' = {}
      BY <2>3 DEF Restart
    <3>2. Reloaded(state[f]) \notin Working \cup {"publishing", "verifying"}
      BY DEF Reloaded, Working
    <3> QED  BY <3>1, <3>2 DEF Attended, ToldIsDropped, WorkHasWorker, DeliveryHasHandler
  <2> QED  BY <2>1, <2>2, <2>3
<1> QED  BY <1>2, <1>4 DEF AttendedInv

\* If browsers stay until their approvals are answered, no fix of a server that
\* is up is busy without a worker, a handler or a review at it: cancels, failed
\* deliveries and restarts leave none behind.
THEOREM BusyFixesAreAttended ==
    ASSUME "disconnect" \notin Faults
    PROVE  Spec => []NobodyIsStranded
<1>1. Init => AttendedInv
  BY DEF Init, AttendedInv, Attended, ToldIsDropped, WorkHasWorker, DeliveryHasHandler, Working
<1>2. FixInv /\ FixInv' /\ AttendedInv /\ [Next]_vars => AttendedInv'
  <2> SUFFICES ASSUME FixInv, FixInv', AttendedInv, [Next]_vars  PROVE AttendedInv'
    OBVIOUS
  <2>1. ASSUME NEW f \in Fixes, User(f) \/ Worker(f)  PROVE AttendedInv'
    BY <2>1, UserAttends, WorkerAttends, TailAttends DEF Worker
  <2>2. ASSUME NEW f \in Fixes, Publish(f) \/ Disconnect(f)  PROVE AttendedInv'
    BY <2>2, PublishAttends DEF Disconnect
  <2>3. ASSUME NEW f \in Fixes, NEW complete \in BOOLEAN, ReviewEnds(f, complete)
        PROVE  AttendedInv'
    BY <2>3, PublishAttends
  <2>4. CASE Invalidate \/ Shutdown \/ Restart \/ Dispatch
    BY <2>4, EndsAttend, TailAttends
  <2>5. CASE \/ Wake \/ Discover \/ ChangeRole \/ ChangePull
             \/ \E s \in Policies : ChangeSettings(s)
             \/ UNCHANGED vars
    BY <2>5, NothingToAttend
       DEF Wake, Discover, ChangeRole, ChangePull, ChangeSettings, WorldStep, vars, workerVars,
           postVars, recordVars, worldVars
  <2> QED  BY <2>1, <2>2, <2>3, <2>4, <2>5 DEF Next, World
<1>3. FixInv /\ AttendedInv => NobodyIsStranded
  BY DEF AttendedInv, Attended, WorkHasWorker, DeliveryHasHandler, NobodyIsStranded, AtWork,
         InGenerate, Claimed
<1> QED  BY <1>1, <1>2, <1>3, FixInvariant, PTL DEF Spec

-------------------------------------------------------------------------------
(* The controller implements FixLifecycle.                                 *)

Stage == [f \in Fixes |-> StageOf(state[f])]
Proof == [f \in Fixes |-> Proven(f)]

\* The stages of the states.
LEMMA StagesAre ==
    /\ StageOf("absent") = "none"
    /\ \A s \in {"awaiting_confirmation", "queued"} : StageOf(s) = "asked"
    /\ \A s \in Working : StageOf(s) = "working"
    /\ StageOf("ready") = "ready" /\ StageOf("publishing") = "delivering"
    /\ \A s \in Delivered : StageOf(s) = "delivered"
    /\ \A s \in Broken : StageOf(s) = "ended"
    /\ \A s \in Final : StageOf(s) = "dropped"
BY DEF StageOf, Working, Broken, Final, Delivered

\* Every state has a stage of the abstract specification.
LEMMA StageIsStage ==
    ASSUME NEW s \in States
    PROVE  StageOf(s) \in Lifecycle!Stages
BY StagesAre DEF States, Live, Held, Broken, Working, Delivered, Lifecycle!Stages

\* While a worker generates, the fix is asked for, worked on, ended or dropped.
LEMMA StageOfGenerating ==
    ASSUME NEW s \in Generating
    PROVE  /\ s \in Final => StageOf(s) = "dropped"
           /\ s \in Working => StageOf(s) = "working"
           /\ s = "queued" => StageOf(s) = "asked"
           /\ s = "failed" => StageOf(s) = "ended"
           /\ StageOf(s) \in {"asked", "working", "ended", "dropped"}
BY StagesAre DEF Generating, Broken

\* A step about one fix moves one stage.
LEMMA StageMoves ==
    ASSUME NEW f \in Fixes, \A g \in Fixes \ {f} : state'[g] = state[g]
    PROVE  /\ Stage' = [Stage EXCEPT ![f] = StageOf(state'[f])]
           /\ Stage[f] = StageOf(state[f]) /\ Stage'[f] = StageOf(state'[f])
           /\ state'[f] = state[f] => Stage' = Stage
BY DEF Stage

\* What is proven of a fix depends on that fix.
LEMMA ProofMoves ==
    ASSUME NEW f \in Fixes,
           \A g \in Fixes \ {f} : /\ attempt'[g] = attempt[g]
                                  /\ checked'[g] = checked[g] /\ patch'[g] = patch[g]
    PROVE  /\ \A g \in Fixes \ {f} : Proof'[g] = Proof[g]
           /\ Proof' \in [Fixes -> BOOLEAN]
           /\ Proof'[f] = Proven(f)'
BY DEF Proof, Proven

\* A step that the abstract specification does not see.
Unseen == Stage' = Stage /\ Proof' = Proof /\ UNCHANGED <<approvals, writes>>

Seen == Lifecycle!Next \/ Unseen

\* What is not seen leaves the abstract variables alone.
LEMMA UnseenIs == Unseen => UNCHANGED Lifecycle!vars
BY DEF Unseen, Lifecycle!vars, Stage, Proof

\* Fixes that end, one or many.
LEMMA EndIs ==
    ASSUME state' \in [Fixes -> States],
           \A f \in Fixes :
              \/ StageOf(state'[f]) = StageOf(state[f])
              \/ /\ StageOf(state[f]) \in {"asked", "working", "delivering", "ended"}
                 /\ StageOf(state'[f]) = "ended"
              \/ /\ StageOf(state[f]) \notin {"none", "delivering", "delivered"}
                 /\ StageOf(state'[f]) = "dropped",
           UNCHANGED <<attempt, checked, patch, approvals, writes>>
    PROVE  Lifecycle!Next
<1>1. Stage' \in [Fixes -> Lifecycle!Stages]
  BY StageIsStage DEF Stage
<1>2. Proof' = Proof
  BY DEF Proof, Proven
<1>3. Lifecycle!End
  BY <1>1, <1>2 DEF Stage, Proof, Lifecycle!End
<1> QED  BY <1>3 DEF Lifecycle!Next

\* One fix that is asked for.
LEMMA AskIs ==
    ASSUME NEW f \in Fixes, \A g \in Fixes \ {f} : state'[g] = state[g],
           UNCHANGED <<attempt, checked, patch, approvals, writes>>,
           \/ /\ StageOf(state[f]) \in {"none", "asked", "working", "ready", "ended", "dropped"}
              /\ StageOf(state'[f]) = "asked"
           \/ StageOf(state[f]) = "none" /\ StageOf(state'[f]) = "ended"
    PROVE  Lifecycle!Next
<1>1. Proof' = Proof
  BY DEF Proof, Proven
<1>2. Lifecycle!Ask(f)
  BY <1>1, StageMoves DEF Stage, Proof, Lifecycle!Ask, Lifecycle!Move
<1> QED  BY <1>2 DEF Lifecycle!Next

\* One fix that is worked on.
LEMMA WorkIs ==
    ASSUME NEW f \in Fixes, \A g \in Fixes \ {f} : state'[g] = state[g],
           \A g \in Fixes \ {f} : /\ attempt'[g] = attempt[g]
                                  /\ checked'[g] = checked[g] /\ patch'[g] = patch[g],
           UNCHANGED <<approvals, writes>>,
           \/ /\ StageOf(state[f]) \in {"asked", "working", "ended"}
              /\ StageOf(state'[f]) = "working"
           \/ /\ StageOf(state[f]) \in {"working", "ended"}
              /\ StageOf(state'[f]) = "ready" /\ Proven(f)'
           \/ StageOf(state[f]) \in {"dropped", "ended"} /\ state'[f] = state[f]
    PROVE  Lifecycle!Next
<1>1. /\ \A g \in Fixes \ {f} : Proof'[g] = Proof[g]
      /\ Proof' \in [Fixes -> BOOLEAN]
      /\ Proof'[f] = Proven(f)'
  BY ProofMoves
<1>2. Lifecycle!Work(f)
  BY <1>1, StageMoves DEF Stage, Proof, Lifecycle!Work, Lifecycle!Move
<1> QED  BY <1>2 DEF Lifecycle!Next

\* Nothing of the record changes that the abstract specification sees.
LEMMA StaysUnseen ==
    ASSUME UNCHANGED <<state, attempt, checked, patch, approvals, writes>>
    PROVE  Seen
BY DEF Seen, Unseen, Stage, Proof, Proven

\* A change of state within one stage is not seen.
LEMMA SameStage ==
    ASSUME NEW f \in Fixes, \A g \in Fixes \ {f} : state'[g] = state[g],
           StageOf(state'[f]) = StageOf(state[f]),
           UNCHANGED <<attempt, checked, patch, approvals, writes>>
    PROVE  Seen
<1>1. Stage' = Stage
  BY DEF Stage
<1> QED  BY <1>1 DEF Seen, Unseen, Proof, Proven

\* One fix that ends.
LEMMA OneEnds ==
    ASSUME FixInv, NEW f \in Fixes, state' \in [Fixes -> States],
           \A g \in Fixes \ {f} : state'[g] = state[g],
           \/ StageOf(state'[f]) = StageOf(state[f])
           \/ /\ StageOf(state[f]) \in {"asked", "working", "delivering", "ended"}
              /\ StageOf(state'[f]) = "ended"
           \/ /\ StageOf(state[f]) \notin {"none", "delivering", "delivered"}
              /\ StageOf(state'[f]) = "dropped",
           UNCHANGED <<attempt, checked, patch, approvals, writes>>
    PROVE  Seen
BY EndIs DEF Seen

\* Requests ask, cancellations drop.
LEMMA RequestsSeen ==
    ASSUME FixInv, NEW f \in Fixes,
           \/ \E o \in Origins, once, skip \in BOOLEAN : Request(f, o, once, skip)
           \/ \E once \in BOOLEAN : Confirm(f, once)
           \/ Regenerate(f)
           \/ \E s \in Final : Stop(f, s)
    PROVE  Seen
<1>1. FixTypes /\ state[f] \in States
  BY DEF FixInv, FixTypes
<1>2. {"queued", "awaiting_confirmation", "failed"} \cup Final \subseteq States
  BY DEF States, Live, Broken, Final
<1>3. UNCHANGED <<attempt, checked, patch, approvals, writes>>
  BY DEF Request, Confirm, Regenerate, Stop, postVars
<1>4. CASE \E o \in Origins, once, skip \in BOOLEAN : Request(f, o, once, skip)
  <2>1. /\ state[f] = "absent"
        /\ \E s \in {"failed", "queued", "awaiting_confirmation"} : Set(f, s)
    BY <1>4 DEF Request
  <2>2. /\ \A g \in Fixes \ {f} : state'[g] = state[g]
        /\ state'[f] \in {"failed", "queued", "awaiting_confirmation"}
    BY <1>1, <1>2, <2>1, Changes
  <2>3. StageOf(state[f]) = "none" /\ StageOf(state'[f]) \in {"asked", "ended"}
    BY <2>1, <2>2, StagesAre DEF Broken
  <2> QED  BY <1>3, <2>2, <2>3, AskIs DEF Seen
<1>5. CASE (\E once \in BOOLEAN : Confirm(f, once)) \/ Regenerate(f)
  <2>1. /\ Set(f, "queued")
        /\ state[f] \in {"awaiting_confirmation", "ready", "failed", "validation_failed",
                         "unsupported", "cancelled"}
    BY <1>5 DEF Confirm, Regenerate, Regenerable
  <2>2. (\A g \in Fixes \ {f} : state'[g] = state[g]) /\ state'[f] = "queued"
    BY <1>1, <1>2, <2>1, Changes
  <2>3. /\ StageOf(state[f]) \in {"asked", "ready", "ended", "dropped"}
        /\ StageOf(state'[f]) = "asked"
    BY <2>1, <2>2, StagesAre DEF Broken, Final
  <2> QED  BY <1>3, <2>2, <2>3, AskIs DEF Seen
<1>6. ASSUME NEW s \in Final, Stop(f, s)  PROVE Seen
  <2>1. state[f] \notin Held \cup {"absent"} /\ Set(f, s)
    BY <1>6 DEF Stop
  <2>2. /\ state' \in [Fixes -> States] /\ \A g \in Fixes \ {f} : state'[g] = state[g]
        /\ state'[f] \in Final
    BY <1>1, <1>2, <1>6, <2>1, Changes
  <2>3. StageOf(state[f]) \notin {"none", "delivering", "delivered"}
    BY <1>1, <2>1, StagesAre DEF States, Live, Working
  <2> QED  BY <1>3, <2>2, <2>3, OneEnds, StagesAre
<1> QED  BY <1>4, <1>5, <1>6

\* A state that is reported from inside generate: an end, or another request.
LEMMA ReportSeen ==
    ASSUME FixInv, NEW f \in Fixes, place[f] \in InGenerate,
           NEW s \in Broken \cup {"awaiting_confirmation"}, Change(f, s),
           UNCHANGED <<attempt, checked, patch, approvals, writes>>
    PROVE  Seen
<1>1. FixTypes /\ state[f] \in Generating
  BY InGenerateIs DEF FixInv
<1>2. /\ state' \in [Fixes -> States] /\ \A g \in Fixes \ {f} : state'[g] = state[g]
      /\ state'[f] = IF state[f] \in Final THEN state[f] ELSE s
  <2>1. s \in States
    BY DEF States, Live
  <2> QED  BY <1>1, <2>1, Changes
<1>3. CASE state[f] \in Final
  BY <1>2, <1>3, OneEnds
<1>4. CASE state[f] \notin Final
  <2>1. StageOf(state[f]) \in {"asked", "working", "ended"}
    BY <1>1, <1>4, StageOfGenerating DEF Generating
  <2>2. state'[f] = s
    BY <1>2, <1>4
  <2>3. CASE s \in Broken
    BY <1>2, <2>1, <2>2, <2>3, OneEnds, StagesAre
  <2>4. CASE s = "awaiting_confirmation"
    BY <1>2, <2>1, <2>2, <2>4, AskIs, StagesAre DEF Seen
  <2> QED  BY <2>3, <2>4
<1> QED  BY <1>3, <1>4

\* The worker.
LEMMA GenerateSeen ==
    ASSUME FixInv, NEW f \in Fixes, Generate(f) \/ Drop(f) \/ Fail(f)
    PROVE  Seen
<1>1. FixTypes /\ Facts(f)
  BY DEF FixInv
<1>2. UNCHANGED <<approvals, writes>>
  BY DEF Generate, Drop, Fail, Begin, Look, Prepare, Retry, Attempt, AttemptRefused, Edited,
         PatchChecked, Verified, Step, postVars
<1>3. {"stale", "unsupported", "validation_failed", "failed"} \subseteq Broken
  BY DEF Broken
<1>4. CASE Begin(f) \/ AttemptRefused(f) \/ Drop(f)
  BY <1>2, <1>4, StaysUnseen DEF Begin, AttemptRefused, Drop, recordVars
<1>5. CASE Look(f) \/ Retry(f) \/ Fail(f) \/ \E ok \in BOOLEAN : Prepare(f, ok)
  <2>1. place[f] \in InGenerate /\ UNCHANGED <<attempt, checked, patch>>
    BY <1>5 DEF Look, Retry, Fail, Prepare, Step, InGenerate
  <2>2. UNCHANGED state \/ \E s \in Broken \cup {"awaiting_confirmation"} : Change(f, s)
    BY <1>3, <1>5 DEF Look, Retry, Fail, Prepare
  <2> QED  BY <1>2, <2>1, <2>2, ReportSeen, StaysUnseen
<1>6. CASE Attempt(f) \/ Edited(f)
  <2>1. place[f] \in InGenerate /\ \E s \in Working : Change(f, s)
    BY <1>6 DEF Attempt, Edited, Step, InGenerate, Working
  <2>2. state[f] \in Generating /\ Working \subseteq States
    BY <2>1, InGenerateIs DEF Working, States, Live
  <2>3. /\ \A g \in Fixes \ {f} : state'[g] = state[g]
        /\ state[f] \in Final => state'[f] = state[f]
        /\ state[f] \notin Final => state'[f] \in Working
    BY <1>1, <2>1, <2>2, Changes
  <2>4. \A g \in Fixes \ {f} : /\ attempt'[g] = attempt[g]
                               /\ checked'[g] = checked[g] /\ patch'[g] = patch[g]
    BY <1>1, <1>6 DEF Attempt, Edited, FixTypes
  <2>5. /\ state[f] \in Final => StageOf(state[f]) = "dropped"
        /\ state[f] \notin Final => StageOf(state[f]) \in {"asked", "working", "ended"}
    BY <2>2, StageOfGenerating DEF Generating
  <2> QED  BY <1>2, <2>3, <2>4, <2>5, WorkIs, StagesAre DEF Seen
<1>7. CASE \/ \E o \in Outcomes : PatchChecked(f, o.kept, o.clean)
           \/ \E good \in BOOLEAN : Verified(f, good)
  <2>1. place[f] \in {"check", "verify"} /\ place[f] \in InGenerate
    BY <1>7 DEF PatchChecked, Verified, Step, InGenerate
  <2>2. state[f] \in Generating /\ state[f] # "queued"
    BY <1>1, <2>1, InGenerateIs DEF Facts, WorkerHoldsIt
  <2>3. StageOf(state[f]) \in {"working", "ended", "dropped"}
    BY <2>2, StageOfGenerating DEF Generating
  <2>4. \A g \in Fixes \ {f} : /\ attempt'[g] = attempt[g]
                               /\ checked'[g] = checked[g] /\ patch'[g] = patch[g]
    BY <1>1, <1>7 DEF PatchChecked, Verified, FixTypes
  <2>5. CASE UNCHANGED state
    BY <1>2, <2>3, <2>4, <2>5, WorkIs DEF Seen
  <2>6. CASE Verified(f, TRUE) /\ state[f] \notin Final
    <3>1. Change(f, "ready") /\ "ready" \in States
      BY <2>6 DEF Verified, States, Live
    <3>2. (\A g \in Fixes \ {f} : state'[g] = state[g]) /\ state'[f] = "ready"
      BY <1>1, <2>6, <3>1, Changes
    <3>3. Proven(f)'
      <4>1. place[f] = "verify" /\ UNCHANGED <<attempt, patch>>
            /\ checked' = [checked EXCEPT ![f] = "good"]
        BY <2>6 DEF Verified, Step
      <4> QED  BY <1>1, <4>1 DEF Facts, PatchIsProven, Proven, FixTypes
    <3>4. StageOf(state[f]) \in {"working", "ended"}
      BY <2>2, <2>6, StageOfGenerating DEF Generating
    <3> QED  BY <1>2, <2>4, <3>2, <3>3, <3>4, WorkIs, StagesAre DEF Seen
  <2>7. CASE Verified(f, TRUE) /\ state[f] \in Final
    <3>1. Change(f, "ready") /\ UNCHANGED <<attempt, checked, patch>>
      BY <2>7 DEF Verified
    <3>2. "ready" \in States
      BY DEF States, Live
    <3>3. (\A g \in Fixes \ {f} : state'[g] = state[g]) /\ state'[f] = state[f]
      BY <1>1, <2>7, <3>1, <3>2, Changes
    <3> QED  BY <1>2, <3>1, <3>3, SameStage
  <2> QED  BY <1>7, <2>5, <2>6, <2>7 DEF PatchChecked, Verified
<1> QED  BY <1>4, <1>5, <1>6, <1>7 DEF Generate

\* A claim approves a ready fix.
LEMMA ClaimsSeen ==
    ASSUME FixInv, NEW f \in Fixes,
           (\E as \in Deliveries : Approve(f, as)) \/ ApproveAutomatically(f)
    PROVE  Seen
<1>1. FixTypes
  BY DEF FixInv
<1>2. /\ state[f] = "ready" /\ Set(f, "publishing") /\ approvals' = [approvals EXCEPT ![f] = @ + 1]
      /\ UNCHANGED <<attempt, checked, patch, writes>>
  BY DEF Approve, ApproveAutomatically, Claim
<1>3. (\A g \in Fixes \ {f} : state'[g] = state[g]) /\ state'[f] = "publishing"
  <2>1. "publishing" \in States
    BY DEF States, Held
  <2> QED  BY <1>1, <1>2, <2>1, Changes
<1>4. Proof' = Proof
  BY <1>2 DEF Proof, Proven
<1>5. StageOf(state[f]) = "ready" /\ StageOf(state'[f]) = "delivering"
  BY <1>2, <1>3, StagesAre
<1>6. Lifecycle!Approve(f)
  BY <1>2, <1>3, <1>4, <1>5, StageMoves DEF Stage, Proof, Lifecycle!Approve, Lifecycle!Move
<1> QED  BY <1>6 DEF Seen, Lifecycle!Next

\* A delivery writes a proven patch, once for its approval, and is recorded after.
LEMMA DeliveriesSeen ==
    ASSUME FixInv, NEW f \in Fixes, Publish(f) \/ Disconnect(f)
    PROVE  Seen
<1>1. Facts(f) /\ FixTypes
  BY DEF FixInv
<1>2. /\ post[f] \in Claimed => state[f] = "publishing"
      /\ post[f] \in {"follow", "enqueue"} => state[f] \in Delivered
  BY <1>1 DEF Facts, ClaimHoldsIt
<1>3. UNCHANGED <<attempt, checked, patch, approvals>>
  BY DEF Publish, CreateCommit, Recheck, Refused, Published, Follow, Enqueue, Unfollowed, WriteBranch,
         PostStep, PostUnchanged, Return, Disconnect
<1>4. /\ {"published", "verifying"} \subseteq Delivered /\ Delivered \cap Final = {}
      /\ {"published", "verifying", "publish_failed"} \subseteq States
      /\ "publishing" \notin Final /\ "publish_failed" \in Broken
  BY DEF Delivered, Final, States, Held, Broken
<1>5. CASE CreateCommit(f) \/ Recheck(f) \/ Enqueue(f) \/ Disconnect(f)
  BY <1>3, <1>5, StaysUnseen DEF CreateCommit, Recheck, Enqueue, Disconnect
<1>6. ASSUME NEW ok \in BOOLEAN, WriteBranch(f, ok)  PROVE Seen
  <2>1. /\ post[f] = "rechecked" /\ UNCHANGED state /\ writes' = [writes EXCEPT ![f] = @ + 1]
    BY <1>6 DEF WriteBranch, PostStep
  <2>2. state[f] = "publishing" /\ writes[f] < approvals[f] /\ Proven(f)
    BY <1>1, <1>2, <2>1 DEF Facts, WritesAreApproved, PatchIsProven, Claimed
  <2>3. Stage' = Stage /\ Proof' = Proof /\ Stage[f] = "delivering" /\ Proof[f]
    BY <1>3, <2>1, <2>2, StagesAre DEF Stage, Proof, Proven
  <2>4. Lifecycle!Write(f)
    BY <1>3, <2>1, <2>2, <2>3 DEF Stage, Proof, Lifecycle!Write
  <2> QED  BY <2>4 DEF Seen, Lifecycle!Next
<1>7. CASE Refused(f)
  <2>1. state[f] = "publishing" /\ Change(f, "publish_failed") /\ UNCHANGED writes
    BY <1>2, <1>7 DEF Refused, Claimed
  <2>2. /\ state' \in [Fixes -> States] /\ \A g \in Fixes \ {f} : state'[g] = state[g]
        /\ state'[f] = "publish_failed"
    BY <1>1, <1>4, <2>1, Changes
  <2> QED  BY <1>3, <1>4, <2>1, <2>2, OneEnds, StagesAre
<1>8. CASE \E again \in BOOLEAN : Published(f, again)
  <2>1. /\ post[f] = "written" /\ state[f] = "publishing" /\ Change(f, "published")
        /\ UNCHANGED writes
    BY <1>2, <1>8 DEF Published, Claimed
  <2>2. (\A g \in Fixes \ {f} : state'[g] = state[g]) /\ state'[f] = "published"
    BY <1>1, <1>4, <2>1, Changes
  <2>3. writes[f] > 0 /\ Proof' = Proof
    BY <1>1, <1>3, <2>1 DEF Facts, WritesAreApproved, Proof, Proven
  <2>4. StageOf(state[f]) = "delivering" /\ StageOf(state'[f]) = "delivered"
    BY <1>4, <2>1, <2>2, StagesAre
  <2>5. Lifecycle!Deliver(f)
    BY <1>3, <2>1, <2>2, <2>3, <2>4, StageMoves DEF Stage, Proof, Lifecycle!Deliver, Lifecycle!Move
  <2> QED  BY <2>5 DEF Seen, Lifecycle!Next
<1>9. CASE Follow(f) \/ Unfollowed(f)
  <2>1. /\ state[f] \in Delivered /\ UNCHANGED writes
        /\ Change(f, "verifying") \/ Change(f, "published")
    BY <1>2, <1>9 DEF Follow, Unfollowed, PostStep
  <2>2. (\A g \in Fixes \ {f} : state'[g] = state[g]) /\ state'[f] \in Delivered
    BY <1>1, <1>4, <2>1, Changes
  <2> QED  BY <1>3, <2>1, <2>2, SameStage, StagesAre
<1> QED  BY <1>5, <1>6, <1>7, <1>8, <1>9 DEF Publish

\* What happens to all fixes at once, or to none.
LEMMA WorldSeen ==
    ASSUME FixInv, Invalidate \/ Shutdown \/ Restart
    PROVE  Seen
<1>1. UNCHANGED <<attempt, checked, patch, approvals, writes>>
  BY DEF Invalidate, Shutdown, Restart, postVars
<1>2. state \in [Fixes -> States] /\ {"failed", "cancelled"} \subseteq States
  BY DEF FixInv, FixTypes, States, Broken, Final
<1>3. ASSUME NEW s \in States
      PROVE  /\ Reloaded(s) \in States
             /\ \/ StageOf(Reloaded(s)) = StageOf(s)
                \/ StageOf(s) \in {"working", "delivering"} /\ StageOf(Reloaded(s)) = "ended"
  BY <1>3, StagesAre DEF Reloaded, States, Live, Held, Broken, Working, Delivered
<1>4. /\ state' \in [Fixes -> States]
      /\ \A f \in Fixes : \/ state'[f] = state[f]
                          \/ state[f] \in Live /\ state'[f] = "cancelled"
                          \/ state[f] \in {"queued"} \cup Working /\ state'[f] = "failed"
                          \/ state'[f] = Reloaded(state[f])
  BY <1>2, <1>3 DEF Invalidate, Shutdown, Restart
<1>5. \A f \in Fixes :
              \/ StageOf(state'[f]) = StageOf(state[f])
              \/ /\ StageOf(state[f]) \in {"asked", "working", "delivering", "ended"}
                 /\ StageOf(state'[f]) = "ended"
              \/ /\ StageOf(state[f]) \notin {"none", "delivering", "delivered"}
                 /\ StageOf(state'[f]) = "dropped"
  <2>1. /\ \A s \in Live : StageOf(s) \in {"asked", "working", "ready"}
        /\ StageOf("failed") = "ended" /\ StageOf("cancelled") = "dropped"
        /\ \A s \in {"queued"} \cup Working : StageOf(s) \in {"asked", "working"}
    BY StagesAre DEF Live, Working, Broken, Final
  <2> SUFFICES ASSUME NEW f \in Fixes
               PROVE  \/ StageOf(state'[f]) = StageOf(state[f])
                      \/ /\ StageOf(state[f]) \in {"asked", "working", "delivering", "ended"}
                         /\ StageOf(state'[f]) = "ended"
                      \/ /\ StageOf(state[f]) \notin {"none", "delivering", "delivered"}
                         /\ StageOf(state'[f]) = "dropped"
    OBVIOUS
  <2>2. state[f] \in States
    BY <1>2
  <2>3. CASE state'[f] = state[f]
    BY <2>3
  <2>4. CASE state[f] \in Live /\ state'[f] = "cancelled"
    BY <2>1, <2>4
  <2>5. CASE state[f] \in {"queued"} \cup Working /\ state'[f] = "failed"
    BY <2>1, <2>5
  <2>6. CASE state'[f] = Reloaded(state[f])
    BY <1>3, <2>2, <2>6
  <2> QED  BY <1>4, <2>3, <2>4, <2>5, <2>6
<1> QED  BY <1>1, <1>4, <1>5, EndIs DEF Seen

\* The follow-up review changes a delivered fix only.
LEMMA ReviewSeen ==
    ASSUME FixInv, NEW f \in Fixes, NEW complete \in BOOLEAN, ReviewEnds(f, complete)
    PROVE  Seen
<1>1. UNCHANGED <<attempt, checked, patch, approvals, writes>>
  BY DEF ReviewEnds
<1>2. CASE UNCHANGED state
  BY <1>1, <1>2, StaysUnseen
<1>3. CASE state[f] = "verifying" /\ \E s \in {"verified", "published"} : Change(f, s)
  <2>1. {"verified", "published"} \subseteq States \cap Delivered /\ "verifying" \in Delivered
    BY DEF States, Held, Delivered
  <2>2. (\A g \in Fixes \ {f} : state'[g] = state[g]) /\ state'[f] \in Delivered
    BY <1>3, <2>1, Changes DEF FixInv
  <2> QED  BY <1>1, <1>3, <2>1, <2>2, SameStage, StagesAre
<1> QED  BY <1>2, <1>3 DEF ReviewEnds

\* Every step of the controller is one of the abstract specification, or none.
LEMMA StepSeen ==
    ASSUME FixInv, [Next]_vars
    PROVE  Seen
<1>1. ASSUME NEW f \in Fixes, User(f) \/ Worker(f)  PROVE Seen
  <2>1. CASE Offer(f) \/ NoOffer(f) \/ Leave(f)
    BY <2>1, StaysUnseen DEF Offer, NoOffer, Leave, Step, recordVars, postVars
  <2> QED  BY <1>1, <2>1, RequestsSeen, ClaimsSeen, GenerateSeen DEF User, Worker
<1>2. CASE \/ Wake \/ Dispatch \/ Discover \/ ChangeRole \/ ChangePull
           \/ \E s \in Policies : ChangeSettings(s)
           \/ UNCHANGED vars
  BY <1>2, StaysUnseen
     DEF Wake, Dispatch, Discover, ChangeRole, ChangePull, ChangeSettings, WorldStep, vars,
         recordVars, postVars
<1> QED  BY <1>1, <1>2, DeliveriesSeen, WorldSeen, ReviewSeen DEF Next, World

\* The controller keeps the promise of FixLifecycle: only a proven patch is
\* delivered, at most one branch is written for each approval, and what is being
\* delivered is not cancelled, over cancels that race a worker's result, lost
\* answers, closed connections and restarts in any state.
THEOREM ControllerKeepsThePromise == Spec => KeepsThePromise
<1>1. Init => Lifecycle!Init
  <2> SUFFICES ASSUME Init  PROVE Lifecycle!Init
    OBVIOUS
  <2>1. Stage = [f \in Fixes |-> "none"]
    BY StagesAre DEF Init, Stage
  <2>2. Proof = [f \in Fixes |-> FALSE]
    BY DEF Init, Proof, Proven
  <2> QED  BY <2>1, <2>2 DEF Init, Stage, Proof, Lifecycle!Init
<1>2. FixInv /\ [Next]_vars => [Lifecycle!Next]_(Lifecycle!vars)
  BY StepSeen, UnseenIs DEF Seen
<1> QED  BY <1>1, <1>2, FixInvariant, PTL DEF Spec, KeepsThePromise, Lifecycle!Spec
===============================================================================
