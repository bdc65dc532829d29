---------------------------- MODULE ReviewRunProofs ----------------------------
(***************************************************************************)
(* What a review may claim, for all settings, budgets and findings: which  *)
(* configuration it works under, and that a review that calls itself       *)
(* complete has checked everything.                                        *)
(***************************************************************************)
EXTENDS ReviewRun, TLAPS

-------------------------------------------------------------------------------
(* The command.                                                            *)

\* In event mode nothing that the pull request's head holds has a say: not in
\* which configuration is used, nor in whether the review goes on or is skipped.
THEOREM HeadDecidesNothing ==
    ASSUME NEW call \in Calls, OfPull(call),
           NEW sources \in Sources, NEW other \in Sources,
           \A p \in Places \ {"head"} : sources[p] = other[p]
    PROVE  /\ Loaded(call, sources) = Loaded(call, other)
           /\ Admitted(call, sources) = Admitted(call, other)
           /\ Skipped(call, sources) = Skipped(call, other)
<1>1. Loaded(call, sources) = Loaded(call, other)
  BY DEF Loaded, EventConfig, OfPull, Calls, Places
<1>2. Admitted(call, sources) = Admitted(call, other)
  BY <1>1 DEF Admitted
<1>3. Unconfigured(call, sources) = Unconfigured(call, other)
  BY <1>1 DEF Unconfigured
<1>4. Skipped(call, sources) = Skipped(call, other)
  BY <1>1, <1>3 DEF Skipped
<1> QED  BY <1>1, <1>2, <1>4

\* What is going to be posted is of a pull request and will be validated, a
\* fork's only with leave, under a configuration that is merged or the operator's
\* and sends keys to no plain or malformed address.
THEOREM PostsAreVouchedFor ==
    ASSUME NEW call \in Calls, NEW sources \in Sources, Admitted(call, sources),
           Publishes(call, Loaded(call, sources)) = "comment"
    PROVE  LET cfg == Loaded(call, sources)
           IN  /\ OfPull(call) /\ cfg.validate
               /\ cfg \in {sources["base"], sources["outside"]}
               /\ call.event = "fork" => cfg.forks
               /\ \A r \in Roles : \A e \in Endpoint(cfg, r) :
                     e.url \in {"https", "loopback"} /\ e.key \notin {"reserved", "malformed"}
<1> DEFINE cfg == Loaded(call, sources)
<1>1. OfPull(call) /\ cfg.validate
  BY DEF Admitted, Postable
<1>2. cfg \in {sources["base"], sources["outside"]}
  <2>1. ~call.private
    BY DEF Publishes, Calls
  <2> QED  BY <1>1, <2>1 DEF Loaded, EventConfig, Calls
<1>3. call.event = "fork" => cfg.forks
  BY DEF Admitted, Withheld
<1>4. ASSUME NEW r \in Roles, NEW e \in Endpoint(cfg, r)
      PROVE  e.url \in {"https", "loopback"} /\ e.key \notin {"reserved", "malformed"}
  <2>1. Trusted(cfg, TRUE)
    BY <1>1 DEF Admitted, OfPull
  <2>2. UrlTrusted(e, TRUE) /\ KeyTrusted(e)
    BY <2>1 DEF Trusted
  <2> QED  BY <2>2 DEF UrlTrusted, KeyTrusted
<1> QED  BY <1>1, <1>2, <1>3, <1>4

\* The configuration that the server checked before it started a review is the one
\* that the review uses; an external review uses the server's and posts nothing.
THEOREM ServerAndReviewAgree ==
    ASSUME NEW event \in {"own", "fork"}, NEW sources \in Sources
    PROVE  /\ Loaded(ReviewCall(event, sources), sources) = ServerConfig(sources)
           /\ Admitted(ReviewCall(event, sources), sources) => Trusted(ServerConfig(sources), TRUE)
           /\ Loaded(ExternalCall(event), sources) = sources["outside"]
           /\ \A cfg \in Configs : Publishes(ExternalCall(event), cfg) = "dry-run"
           /\ ~Skipped(ExternalCall(event), sources)
<1>1. Loaded(ReviewCall(event, sources), sources) = ServerConfig(sources)
  BY DEF Loaded, EventConfig, ReviewCall, ServerConfig, OfPull
<1>2. Admitted(ReviewCall(event, sources), sources) => Trusted(ServerConfig(sources), TRUE)
  <2>1. OfPull(ReviewCall(event, sources)) = TRUE
    BY DEF OfPull, ReviewCall
  <2> QED  BY <1>1, <2>1 DEF Admitted
<1>3. Loaded(ExternalCall(event), sources) = sources["outside"]
  BY DEF Loaded, ExternalCall, OfPull
<1>4. \A cfg : Publishes(ExternalCall(event), cfg) = "dry-run"
  BY DEF Publishes, ExternalCall
<1>5. ~Skipped(ExternalCall(event), sources)
  BY <1>4 DEF Skipped, Unconfigured, Withheld, ExternalCall
<1> QED  BY <1>1, <1>2, <1>3, <1>4, <1>5

\* The exit code and the check agree with the report: the check is green only for a
\* complete review, published and written, without findings; a refusal never is.
THEOREM CheckIsHonest ==
    ASSUME NEW complete \in BOOLEAN, NEW published \in BOOLEAN, NEW written \in BOOLEAN,
           NEW accepted
    PROVE  /\ CheckSays(Exit(complete, published, written), complete, accepted) = "success" =>
                  complete /\ published /\ written /\ accepted = {}
           /\ \A call, sources, tree :
                  CheckSays(Refusal(call, sources, tree), complete, accepted) # "success"
BY DEF CheckSays, Exit, Refusal

-------------------------------------------------------------------------------
(* The run.                                                                *)

Phases == {"command", "index", "recheck", "investigate", "plan", "lanes", "synthesis",
           "validate", "dedup", "done", "ended"}

Ats == {"none", "waiting", "running", "over"}
CheckStates == [at : Ats, until : Int, verdict : Verdicts \cup {"none", "unknown"}]
LaneStates  == [at : Ats, until : Int,
                result : {"none", "full", "gaps", "short", "stopped", "skipped"}]

\* What the proofs need to know of the types.
Types ==
    /\ strategy \in {"baseline", "panel", "delegated"}
    /\ validate \in BOOLEAN
    /\ publish \in PublishModes
    /\ exit \in {{}, {0}, {1}, {2}}
    /\ phase \in Phases
    /\ now \in Int
    /\ check \in [Findings -> CheckStates]
    /\ lane \in [LaneIds -> LaneStates]

\* The phases in which the rechecks are over, all lanes are, and all validators are.
Rechecked == phase \in Phases \ {"command", "index", "recheck", "ended"} \/ exit = {0}
Laned     == phase \in {"lanes", "synthesis", "validate", "dedup", "done"} \/ exit = {0}
Handed    == phase \in {"validate", "dedup", "done"} \/ exit = {0}
Judged    == phase \in {"dedup", "done"} \/ exit = {0}

\* The exit code is known at the end, and 0 is for no reason at all.
ExitInv ==
    /\ exit # {} => phase = "ended"
    /\ exit = {0} => partial = {} /\ (publish = "comment" => validate)
    /\ publish = "comment" => validate

\* A check that is over says something, a lane that is over has a result.
OverInv ==
    /\ \A f \in Findings : check[f].at = "over" => check[f].verdict # "none"
    /\ \A l \in LaneIds : lane[l].at = "over" <=> lane[l].result # "none"
    /\ phase # "lanes" => \A l \in LaneIds : lane[l].at \in {"none", "over"}

RecheckInv ==
    /\ phase = "recheck" /\ validate => \A f \in tracked : check[f].at # "none"
    /\ Rechecked /\ validate /\ partial = {} => \A f \in tracked : rechecked[f] \in Verdicts

LanesInv ==
    /\ phase # "lanes" /\ partial = {} => \A l \in LaneIds : lane[l].result \in {"none", "full", "gaps"}
    /\ \A l \in LaneIds : lane[l].result = "gaps" => strategy = "delegated"
    /\ phase \in {"command", "index", "recheck"} => \A l \in LaneIds : lane[l].at = "none"
    /\ phase \in {"plan", "synthesis"} => strategy = "delegated"
    /\ phase = "investigate" => strategy # "panel" /\ (strategy = "delegated" => partial # {})
    /\ Laned /\ strategy = "panel" => \A l \in LaneIds : lane[l].at # "none"
    /\ Laned /\ strategy = "delegated" /\ partial = {} => lane[1].at # "none"

ValidateInv ==
    /\ Handed /\ validate => \A f \in Candidates(raw) : check[f].at # "none"
    /\ Judged /\ validate /\ partial = {} =>
           \A f \in Candidates(raw) : check[f].verdict \in Verdicts

\* What is tracked and what is handed on are findings.
FindingsInv == tracked \subseteq Findings /\ submitted \subseteq Findings /\ raw \subseteq Findings

IInv == Types /\ FindingsInv /\ ExitInv /\ OverInv /\ RecheckInv /\ LanesInv /\ ValidateInv

LEMMA TimesAreIntegers ==
    ASSUME now \in Int, validate \in BOOLEAN, strategy \in {"baseline", "panel", "delegated"}
    PROVE  /\ \A d \in Int : AgentEnd(AgentSeconds, d) \in Int /\ AgentEnd(LaneSeconds, d) \in Int
           /\ \A e \in Int : CutOff(e) \in Int
           /\ Deadline \in Int /\ InvestigationDeadline \in Int
<1> USE ReviewAssumption
<1>1. Deadline \in Int /\ InvestigationDeadline \in Int
  BY DEF Deadline, InvestigationDeadline, Reserve, Smaller
<1>2. \A d \in Int : Left(d) \in Int
  BY DEF Left
<1>3. LaneSeconds \in Int
  BY DEF LaneSeconds
<1>4. \A s \in Int, d \in Int : AgentEnd(s, d) \in Int
  BY <1>2 DEF AgentEnd, Smaller
<1>5. AgentSeconds \in Int
  OBVIOUS
<1>6. \A e \in Int : CutOff(e) \in Int
  BY <1>1 DEF CutOff, Smaller
<1> QED  BY <1>1, <1>3, <1>4, <1>5, <1>6

LEMMA NewChecks ==
    /\ [at |-> "none", until |-> 0, verdict |-> "none"] \in CheckStates
    /\ [at |-> "waiting", until |-> 0, verdict |-> "none"] \in CheckStates
    /\ \A v \in Verdicts \cup {"unknown"} :
          [at |-> "over", until |-> 0, verdict |-> v] \in CheckStates
BY DEF CheckStates, Ats

LEMMA CheckMoved ==
    ASSUME NEW c \in CheckStates, NEW at \in Ats, NEW u \in Int,
           NEW v \in Verdicts \cup {"unknown"}
    PROVE  /\ [c EXCEPT !.at = at, !.until = u] \in CheckStates
           /\ [c EXCEPT !.at = at, !.until = u].at = at
           /\ [c EXCEPT !.at = at, !.until = u].verdict = c.verdict
           /\ [c EXCEPT !.at = at, !.verdict = v] \in CheckStates
           /\ [c EXCEPT !.at = at, !.verdict = v].at = at
           /\ [c EXCEPT !.at = at, !.verdict = v].verdict = v
BY DEF CheckStates

LEMMA InitIsSound == Init => IInv
<1> SUFFICES ASSUME Init  PROVE IInv
  OBVIOUS
<1> USE ReviewAssumption DEF Init
<1>1. Types
  BY DEF Types, PublishModes, NoCheck, NoAgent, Phases, CheckStates, LaneStates, Ats
<1>2. FindingsInv /\ ExitInv
  BY DEF FindingsInv, ExitInv
<1>3. OverInv
  BY DEF OverInv, NoCheck, NoAgent
<1>4. RecheckInv /\ LanesInv /\ ValidateInv
  BY DEF RecheckInv, LanesInv, ValidateInv, Rechecked, Laned, Handed, Judged, NoAgent, Phases
<1> QED  BY <1>1, <1>2, <1>3, <1>4 DEF IInv

\* What a review keeps when it goes on without touching its lanes and checks.
LEMMA CommandKeeps == IInv /\ Command => IInv'
<1> SUFFICES ASSUME IInv, Command  PROVE IInv'
  OBVIOUS
<1> USE DEF IInv, Command
<1>1. PICK i \in Invocations :
         \/ /\ Admitted(i.call, i.sources) /\ Ready(i.call, i.tree)
            /\ strategy' = Loaded(i.call, i.sources).strategy
            /\ validate' = Loaded(i.call, i.sources).validate
            /\ publish' = Publishes(i.call, Loaded(i.call, i.sources))
            /\ phase' = "index" /\ exit' = exit
         \/ /\ exit' = {Refusal(i.call, i.sources, i.tree)}
            /\ phase' = "ended"
            /\ UNCHANGED <<strategy, validate, publish>>
  OBVIOUS
<1>2. /\ i.call \in Calls /\ i.sources \in Sources
  BY ReviewAssumption
<1>3. CASE phase' = "index"
  <2> DEFINE cfg == Loaded(i.call, i.sources)
  <2>1. cfg \in Configs
    <3>1. cfg # NoConfig
      BY <1>1, <1>3 DEF Admitted
    <3> QED  BY <1>2, <3>1 DEF Loaded, EventConfig, Sources, Calls, Places
  <2>2. strategy' = cfg.strategy /\ validate' = cfg.validate /\ publish' = Publishes(i.call, cfg)
    BY <1>1, <1>3
  <2>3. publish' \in PublishModes
    BY <1>2, <2>1, <2>2 DEF Publishes, Calls, Configs, PublishModes
  <2>4. publish' = "comment" => validate'
    BY <1>1, <1>3, <2>2 DEF Admitted, Postable
  <2>5. Types'
    BY <1>1, <1>3, <2>1, <2>2, <2>3 DEF Types, Configs, Phases
  <2>6. exit' = exit /\ exit = {}
    BY <1>1, <1>3 DEF ExitInv
  <2> QED  BY <1>3, <2>4, <2>5, <2>6 DEF FindingsInv, ExitInv, OverInv, RecheckInv, LanesInv,
              ValidateInv, Rechecked, Laned, Handed, Judged
<1>4. CASE phase' = "ended"
  <2>1. exit' \in {{1}, {2}}
    BY <1>1, <1>4 DEF Refusal
  <2>2. UNCHANGED <<strategy, validate, publish, tracked, posted, now, check, rechecked, lane,
                    submitted, raw, partial>>
    BY <1>1, <1>4
  <2>3. Types' /\ FindingsInv'
    BY <1>4, <2>1, <2>2 DEF Types, Phases, FindingsInv
  <2>5. ExitInv'
    BY <1>4, <2>1, <2>2 DEF ExitInv
  <2>4. OverInv' /\ RecheckInv' /\ LanesInv' /\ ValidateInv'
    BY <1>4, <2>1, <2>2 DEF OverInv, RecheckInv, LanesInv, ValidateInv, Rechecked, Laned, Handed,
       Judged
  <2> QED  BY <2>3, <2>4, <2>5
<1> QED  BY <1>1, <1>3, <1>4

LEMMA FailKeeps == IInv /\ Fail => IInv'
<1> SUFFICES ASSUME IInv, Fail  PROVE IInv'
  OBVIOUS
<1> USE DEF IInv, Fail
<1>1. Types' /\ FindingsInv'
  BY DEF Types, Phases, FindingsInv
<1>3. ExitInv'
  BY DEF ExitInv
<1>2. OverInv' /\ RecheckInv' /\ LanesInv' /\ ValidateInv'
  BY DEF OverInv, RecheckInv, LanesInv, ValidateInv, Rechecked, Laned, Handed, Judged
<1> QED  BY <1>1, <1>2, <1>3

LEMMA EndKeeps == IInv /\ End => IInv'
<1> SUFFICES ASSUME IInv, End  PROVE IInv'
  OBVIOUS
<1> USE DEF IInv, End
<1>1. exit' \in {{0}, {1}, {2}} /\ (exit' = {0} => partial' = {} /\ partial = {})
  BY DEF Exit
<1>2. partial' = {} => partial = {}
  OBVIOUS
<1>3. Candidates(raw)' = Candidates(raw)
  BY DEF Candidates, StillTracked, Reenter
<1>4. Types' /\ FindingsInv'
  BY <1>1 DEF Types, Phases, FindingsInv
<1>5. ExitInv'
  BY <1>1 DEF ExitInv
<1>6. OverInv'
  BY DEF OverInv
<1>7. RecheckInv'
  BY <1>1, <1>2 DEF RecheckInv, Rechecked, Phases
<1>8. LanesInv'
  BY <1>1, <1>2 DEF LanesInv, Laned
<1>9. ValidateInv'
  BY <1>1, <1>2, <1>3 DEF ValidateInv, Handed, Judged
<1> QED  BY <1>4, <1>5, <1>6, <1>7, <1>8, <1>9

LEMMA IndexKeeps == IInv /\ Index => IInv'
<1> SUFFICES ASSUME IInv, Index  PROVE IInv'
  OBVIOUS
<1> USE DEF IInv, Index
<1>1. check' \in [Findings -> CheckStates]
  <2> SUFFICES ASSUME NEW f \in Findings
               PROVE  check'[f] \in CheckStates
    OBVIOUS
  <2>1. \/ check'[f] = [at |-> "none", until |-> 0, verdict |-> "none"]
        \/ check'[f] = [at |-> "waiting", until |-> 0, verdict |-> "none"]
        \/ check'[f] = [at |-> "over", until |-> 0, verdict |-> "unknown"]
    BY DEF NoCheck
  <2> QED  BY <2>1, NewChecks
<1>2. exit = {} /\ exit' = exit /\ strategy' = strategy /\ validate' = validate /\ publish' = publish
      /\ tracked' = tracked /\ lane' = lane /\ submitted' = submitted /\ raw' = raw
      /\ rechecked' = rechecked
  BY DEF command, ExitInv
<1>3. OverInv' /\ RecheckInv'
  BY <1>2 DEF OverInv, RecheckInv, Rechecked, Types, NoCheck, FindingsInv, Phases
<1>4. Types'
  <2>1. now' \in Int
    BY ReviewAssumption
  <2> QED  BY <1>1, <1>2, <2>1 DEF Types, Phases
<1>6. LanesInv' /\ ValidateInv'
  <2>1. \A l \in LaneIds : lane[l].result \in {"none", "full", "gaps"}
    BY DEF OverInv, LanesInv, Types
  <2> QED  BY <1>2, <2>1 DEF LanesInv, ValidateInv, Laned, Handed, Judged
<1> QED  BY <1>2, <1>3, <1>4, <1>6 DEF FindingsInv, ExitInv

LEMMA PreparedKeeps == IInv /\ Prepared => IInv'
<1> SUFFICES ASSUME IInv, Prepared  PROVE IInv'
  OBVIOUS
<1> USE DEF IInv, Prepared
<1>1. exit = {} /\ exit' = exit /\ strategy' = strategy /\ validate' = validate /\ publish' = publish
      /\ tracked' = tracked /\ submitted' = submitted /\ raw' = raw /\ now' = now
  BY DEF command, ExitInv
<1>2. phase' \in {"investigate", "lanes", "plan"}
  BY DEF FirstPhase, Types
<1>3. Types'
  BY <1>1, <1>2 DEF Types, Phases, NoCheck, NoAgent, CheckStates, LaneStates, Ats
<1>4. phase' = "lanes" <=> strategy = "panel"
  BY DEF FirstPhase, Types
<1>5. partial' = {} => Inconclusive = {}
  OBVIOUS
<1>6. RecheckInv'
  <2> SUFFICES ASSUME validate, partial' = {}, NEW f \in tracked  PROVE rechecked'[f] \in Verdicts
    BY <1>1, <1>2 DEF RecheckInv
  <2>1. f \in Findings /\ rechecked'[f] = check[f].verdict
    BY DEF FindingsInv
  <2>2. check[f].verdict # "unknown"
    BY <1>5, <2>1 DEF Inconclusive
  <2>3. check[f].at = "over" /\ check[f].verdict # "none"
    BY <2>1 DEF ChecksOver, RecheckInv, OverInv
  <2> QED  BY <2>1, <2>2, <2>3 DEF Types, CheckStates
<1>7. OverInv'
  BY <1>1, <1>4 DEF OverInv, NoCheck, NoAgent, Types
<1>8. LanesInv'
  BY <1>1, <1>2, <1>4 DEF LanesInv, Laned, NoAgent, FirstPhase, Types
<1> QED  BY <1>1, <1>2, <1>3, <1>6, <1>7, <1>8 DEF FindingsInv, ExitInv, ValidateInv, Handed, Judged

LEMMA CheckingKeeps == IInv /\ Checking => IInv'
<1> SUFFICES ASSUME IInv, Checking  PROVE IInv'
  OBVIOUS
<1> USE DEF IInv, Checking
<1>1. /\ phase \in {"recheck", "validate"}
      /\ exit = {} /\ exit' = exit /\ phase' = phase
      /\ strategy' = strategy /\ validate' = validate /\ publish' = publish
      /\ tracked' = tracked /\ posted' = posted /\ submitted' = submitted /\ raw' = raw
      /\ now' = now /\ rechecked' = rechecked /\ lane' = lane /\ partial' = partial
  BY DEF command, ExitInv
<1>2. PICK f \in Findings : CheckStarts(f) \/ CheckEnds(f)
  OBVIOUS
<1>3. check' \in [Findings -> CheckStates]
  <2>1. CASE CheckStarts(f)
    <3>1. AgentEnd(AgentSeconds, Deadline) \in Int
      BY TimesAreIntegers DEF Types
    <3>2. \/ check' = [check EXCEPT ![f] = [@ EXCEPT !.at = "running",
                                                     !.until = AgentEnd(AgentSeconds, Deadline)]]
          \/ check' = [check EXCEPT ![f] = [@ EXCEPT !.at = "over", !.verdict = "unknown"]]
      BY <2>1 DEF CheckStarts
    <3>4. check[f] \in CheckStates /\ "running" \in Ats /\ "over" \in Ats
      BY DEF Types, Ats
    <3>3. /\ [check[f] EXCEPT !.at = "running", !.until = AgentEnd(AgentSeconds, Deadline)]
                \in CheckStates
          /\ [check[f] EXCEPT !.at = "over", !.verdict = "unknown"] \in CheckStates
      BY <3>1, <3>4, CheckMoved
    <3> QED  BY <3>2, <3>3 DEF Types
  <2>2. CASE CheckEnds(f)
    <3>1. PICK v \in Verdicts \cup {"unknown"} :
             check' = [check EXCEPT ![f] = [at |-> "over", until |-> 0, verdict |-> v]]
      BY <2>2 DEF CheckEnds, NoCheck
    <3>2. [at |-> "over", until |-> 0, verdict |-> v] \in CheckStates
      BY DEF CheckStates, Ats
    <3> QED  BY <3>1, <3>2 DEF Types
  <2> QED  BY <1>2, <2>1, <2>2
<1>4. /\ \A g \in Findings : check[g].at # "none" => check'[g].at # "none"
      /\ \A g \in Findings : check'[g].at = "over" => check'[g].verdict # "none"
  <2>1. CASE CheckStarts(f)
    <3>1. check[f] \in CheckStates /\ "running" \in Ats /\ "over" \in Ats
          /\ AgentEnd(AgentSeconds, Deadline) \in Int
      BY TimesAreIntegers DEF Types, Ats
    <3>2. check'[f].at = "running" \/ (check'[f].at = "over" /\ check'[f].verdict = "unknown")
      <4> DEFINE run  == [check[f] EXCEPT !.at = "running",
                                          !.until = AgentEnd(AgentSeconds, Deadline)]
      <4> DEFINE late == [check[f] EXCEPT !.at = "over", !.verdict = "unknown"]
      <4>1. run.at = "running" /\ late.at = "over" /\ late.verdict = "unknown"
        BY <3>1 DEF CheckStates
      <4>2. check' = [check EXCEPT ![f] = run] \/ check' = [check EXCEPT ![f] = late]
        BY <2>1 DEF CheckStarts
      <4> HIDE DEF run, late
      <4> QED  BY <4>1, <4>2 DEF Types
    <3>3. \A g \in Findings \ {f} : check'[g] = check[g]
      BY <2>1 DEF CheckStarts, Types
    <3> QED  BY <3>2, <3>3 DEF OverInv
  <2>2. CASE CheckEnds(f)
    <3>1. PICK v \in Verdicts \cup {"unknown"} :
             check' = [check EXCEPT ![f] = [at |-> "over", until |-> 0, verdict |-> v]]
      BY <2>2 DEF CheckEnds, NoCheck
    <3>2. v # "none"
      BY ReviewAssumption
    <3> DEFINE over == [at |-> "over", until |-> 0, verdict |-> v]
    <3>3. over.at = "over" /\ over.verdict = v
      OBVIOUS
    <3>4. check' = [check EXCEPT ![f] = over]
      BY <3>1
    <3> HIDE DEF over
    <3>5. check'[f] = over /\ \A g \in Findings \ {f} : check'[g] = check[g]
      BY <3>4 DEF Types
    <3> QED  BY <3>2, <3>3, <3>5 DEF OverInv
  <2> QED  BY <1>2, <2>1, <2>2
<1>5. Candidates(raw)' = Candidates(raw) /\ Candidates(raw) \subseteq Findings
  BY <1>1 DEF Candidates, StillTracked, Reenter, FindingsInv
<1>6. Types'
  BY <1>1, <1>3 DEF Types
<1>7. OverInv' /\ RecheckInv' /\ LanesInv' /\ ValidateInv'
  BY <1>1, <1>4, <1>5 DEF OverInv, RecheckInv, Rechecked, LanesInv, Laned, ValidateInv, Handed,
     Judged, FindingsInv
<1> QED  BY <1>1, <1>6, <1>7 DEF FindingsInv, ExitInv

LEMMA LaningKeeps == IInv /\ Laning => IInv'
<1> SUFFICES ASSUME IInv, Laning  PROVE IInv'
  OBVIOUS
<1> USE DEF IInv, Laning
<1>1. /\ phase = "lanes" /\ exit = {} /\ exit' = exit /\ phase' = phase
      /\ strategy' = strategy /\ validate' = validate /\ publish' = publish
      /\ tracked' = tracked /\ posted' = posted /\ raw' = raw
      /\ now' = now /\ rechecked' = rechecked /\ check' = check /\ partial' = partial
  BY DEF command, ExitInv
<1>2. PICK l \in LaneIds : LaneStarts(l) \/ LaneEnds(l)
  OBVIOUS
<1>3. PICK s \in LaneStates :
         /\ lane' = [lane EXCEPT ![l] = s]
         /\ s.at # "none" /\ (s.at = "over" <=> s.result # "none")
         /\ s.result = "gaps" => strategy = "delegated"
  <2>1. CASE LaneStarts(l)
    <3> DEFINE end  == CutOff(AgentEnd(LaneSeconds, InvestigationDeadline))
    <3> DEFINE run  == [lane[l] EXCEPT !.at = "running", !.until = end]
    <3> DEFINE skip == [lane[l] EXCEPT !.at = "over", !.result = "skipped"]
    <3>1. lane' = [lane EXCEPT ![l] = run] \/ lane' = [lane EXCEPT ![l] = skip]
      BY <2>1 DEF LaneStarts
    <3>2. end \in Int
      BY TimesAreIntegers DEF Types
    <3>3. lane[l] \in LaneStates /\ lane[l].result = "none"
      BY <2>1 DEF Types, OverInv, LaneStarts, LaneStates
    <3>4. run \in LaneStates /\ run.at = "running" /\ run.result = "none"
      BY <3>2, <3>3 DEF LaneStates, Ats
    <3>5. skip \in LaneStates /\ skip.at = "over" /\ skip.result = "skipped"
      BY <3>3 DEF LaneStates, Ats
    <3> HIDE DEF run, skip
    <3> QED  BY <3>1, <3>4, <3>5
  <2>2. CASE LaneEnds(l)
    <3>1. PICK r \in LaneOutcomes :
             lane' = [lane EXCEPT ![l] = [at |-> "over", until |-> 0, result |-> r]]
      BY <2>2 DEF LaneEnds
    <3>2. [at |-> "over", until |-> 0, result |-> r] \in LaneStates /\ r # "none"
      BY DEF LaneStates, Ats, LaneOutcomes, Outcomes
    <3>3. r = "gaps" => strategy = "delegated"
      BY DEF LaneOutcomes, Outcomes
    <3> QED  BY <3>1, <3>2, <3>3
  <2> QED  BY <1>2, <2>1, <2>2
<1>4. /\ lane'[l] = s /\ \A k \in LaneIds \ {l} : lane'[k] = lane[k]
      /\ lane' \in [LaneIds -> LaneStates]
  BY <1>3 DEF Types
<1>5. submitted' \subseteq Findings
  BY <1>2 DEF LaneStarts, LaneEnds, FindingsInv
<1>6. Types' /\ FindingsInv' /\ ExitInv'
  BY <1>1, <1>4, <1>5 DEF Types, FindingsInv, ExitInv
<1>7. OverInv' /\ RecheckInv' /\ LanesInv' /\ ValidateInv'
  <2>1. 1 \in LaneIds
    BY ReviewAssumption DEF LaneIds
  <2> QED  BY <1>1, <1>3, <1>4, <2>1 DEF OverInv, RecheckInv, Rechecked, LanesInv, Laned, ValidateInv,
              Handed, Judged
<1> QED  BY <1>6, <1>7

\* Lanes that are over and leave no reason submitted in full or named gaps.
LEMMA NoShortfall ==
    ASSUME Types, OverInv, LanesOver, Shortfall = {}
    PROVE  \A l \in LaneIds : lane[l].result \in {"none", "full", "gaps"}
BY DEF Types, LaneStates, Shortfall

\* What Finish makes of the checks: everything that will be validated waits.
LEMMA FinishKeeps ==
    ASSUME IInv, NEW fs \in SUBSET Findings, NEW reasons, Finish(fs, reasons),
           phase \in {"lanes", "investigate", "synthesis"},
           UNCHANGED <<command, now, rechecked, lane, submitted>>,
           \A l \in LaneIds : lane[l].at \in {"none", "over"},
           partial' = {} => \A l \in LaneIds : lane[l].result \in {"none", "full", "gaps"},
           strategy = "panel" => phase = "lanes",
           strategy = "delegated" /\ partial' = {} => phase \in {"lanes", "synthesis"}
    PROVE  IInv'
<1> USE DEF IInv, Finish
<1>1. /\ exit = {} /\ exit' = exit /\ phase' = "validate"
      /\ strategy' = strategy /\ validate' = validate /\ publish' = publish
      /\ tracked' = tracked /\ posted' = posted /\ raw' = fs
      /\ now' = now /\ rechecked' = rechecked /\ lane' = lane /\ submitted' = submitted
      /\ partial \subseteq partial'
  BY DEF command, ExitInv
<1>2. /\ check' \in [Findings -> CheckStates]
      /\ \A f \in Findings : check'[f].at = "over" => check'[f].verdict # "none"
      /\ validate => \A f \in Candidates(fs) \cap Findings : check'[f].at # "none"
  <2> DEFINE to == IF validate THEN Candidates(fs) ELSE {}
  <2>1. check' = Spawned(to)
    OBVIOUS
  <2>2. \A f \in Findings :
           \/ f \notin to /\ check'[f] = [at |-> "none", until |-> 0, verdict |-> "none"]
           \/ f \in to /\ check'[f] = [at |-> "waiting", until |-> 0, verdict |-> "none"]
           \/ f \in to /\ check'[f] = [at |-> "over", until |-> 0, verdict |-> "unknown"]
    BY <2>1 DEF Spawned, NoCheck
  <2>3. \A f \in Findings : check'[f] \in CheckStates
    BY <2>2, NewChecks
  <2>4. check' \in [Findings -> CheckStates]
    BY <2>1, <2>3 DEF Spawned
  <2> QED  BY <2>2, <2>4
<1>3. Candidates(raw)' = Candidates(fs) /\ Candidates(fs) \subseteq Findings
  BY <1>1 DEF Candidates, StillTracked, Reenter
<1>4. Types' /\ FindingsInv' /\ ExitInv'
  BY <1>1, <1>2 DEF Types, Phases, FindingsInv, ExitInv
<1>5. OverInv'
  BY <1>1, <1>2 DEF OverInv
<1>6. RecheckInv'
  BY <1>1 DEF RecheckInv, Rechecked, Phases
<1>7. ValidateInv'
  BY <1>1, <1>2, <1>3 DEF ValidateInv, Handed, Judged
<1>8. LanesInv'
  BY <1>1 DEF LanesInv, Laned
<1> QED  BY <1>4, <1>5, <1>6, <1>7, <1>8

LEMMA LanesEndKeeps == IInv /\ (PanelOver \/ WorkersOver) => IInv'
<1> SUFFICES ASSUME IInv, PanelOver \/ WorkersOver  PROVE IInv'
  OBVIOUS
<1> USE DEF IInv
<1>1. /\ phase = "lanes" /\ LanesOver
      /\ \A l \in LaneIds : lane[l].at \in {"none", "over"}
      /\ partial' = {} => Shortfall = {}
  BY DEF PanelOver, WorkersOver, LanesOver, Finish
<1>2. partial' = {} => \A l \in LaneIds : lane[l].result \in {"none", "full", "gaps"}
  BY <1>1, NoShortfall
<1>3. submitted \in SUBSET Findings
  BY DEF FindingsInv
<1>4. CASE PanelOver
  BY <1>1, <1>2, <1>3, <1>4, FinishKeeps DEF PanelOver, command
<1>5. CASE WorkersOver /\ now >= InvestigationDeadline
  <2>1. now \in Int /\ InvestigationDeadline \in Int
    BY TimesAreIntegers DEF Types
  <2>2. Finish(submitted, Shortfall \cup {"synthesis"})
    BY <1>5, <2>1 DEF WorkersOver
  <2> QED  BY <1>1, <1>2, <1>3, <1>5, <2>2, FinishKeeps DEF WorkersOver, command
<1>6. CASE WorkersOver /\ ~(now >= InvestigationDeadline)
  <2>1. /\ exit = {} /\ exit' = exit /\ phase' = "synthesis" /\ strategy = "delegated"
        /\ strategy' = strategy /\ validate' = validate /\ publish' = publish
        /\ tracked' = tracked /\ posted' = posted /\ raw' = raw /\ check' = check
        /\ now' = now /\ rechecked' = rechecked /\ lane' = lane /\ submitted' = submitted
        /\ partial \subseteq partial'
    BY <1>1, <1>6 DEF WorkersOver, command, ExitInv
  <2>2. Types' /\ FindingsInv' /\ ExitInv'
    BY <2>1 DEF Types, Phases, FindingsInv, ExitInv
  <2>3. OverInv' /\ RecheckInv' /\ LanesInv' /\ ValidateInv'
    BY <1>1, <1>2, <2>1 DEF OverInv, RecheckInv, Rechecked, Phases, LanesInv, Laned, ValidateInv,
       Handed, Judged
  <2> QED  BY <2>2, <2>3
<1> QED  BY <1>4, <1>5, <1>6

LEMMA InvestigatedKeeps == IInv /\ Investigated => IInv'
<1> SUFFICES ASSUME IInv, Investigated  PROVE IInv'
  OBVIOUS
<1> USE DEF IInv, Investigated
<1>1. PICK r \in Outcomes, fs \in SUBSET Findings : Finish(fs, {r} \ {"full"})
  OBVIOUS
<1>2. /\ phase = "investigate" /\ strategy # "panel" /\ (strategy = "delegated" => partial # {})
      /\ partial \subseteq partial'
  BY <1>1 DEF LanesInv, Finish
<1>3. /\ \A l \in LaneIds : lane[l].at \in {"none", "over"}
      /\ partial' = {} => \A l \in LaneIds : lane[l].result \in {"none", "full", "gaps"}
  BY <1>2 DEF OverInv, LanesInv
<1> QED  BY <1>1, <1>2, <1>3, FinishKeeps DEF command

LEMMA SynthesisedKeeps == IInv /\ Synthesised => IInv'
<1> SUFFICES ASSUME IInv, Synthesised  PROVE IInv'
  OBVIOUS
<1> USE DEF IInv, Synthesised
<1>1. PICK fs \in SUBSET Findings, reasons \in SUBSET {"short", "synthesis"} : Finish(fs, reasons)
  BY DEF Outcomes
<1>2. phase = "synthesis" /\ strategy = "delegated" /\ partial \subseteq partial'
  BY <1>1 DEF LanesInv, Finish
<1>3. /\ \A l \in LaneIds : lane[l].at \in {"none", "over"}
      /\ partial' = {} => \A l \in LaneIds : lane[l].result \in {"none", "full", "gaps"}
  BY <1>2 DEF OverInv, LanesInv
<1> QED  BY <1>1, <1>2, <1>3, FinishKeeps DEF command

LEMMA PlannedKeeps == IInv /\ Planned => IInv'
<1> SUFFICES ASSUME IInv, Planned  PROVE IInv'
  OBVIOUS
<1> USE DEF IInv, Planned
<1>1. /\ phase = "plan" /\ strategy = "delegated" /\ exit = {} /\ exit' = exit
      /\ strategy' = strategy /\ validate' = validate /\ publish' = publish
      /\ tracked' = tracked /\ posted' = posted /\ raw' = raw /\ check' = check
      /\ now' = now /\ rechecked' = rechecked /\ submitted' = submitted
      /\ partial \subseteq partial'
  BY DEF command, ExitInv, LanesInv
<1>2. PICK n \in 0 .. Lanes :
          \/ /\ n = 0 /\ phase' = "investigate" /\ partial' = partial \cup {"plan"}
             /\ lane' = lane
          \/ /\ n > 0 /\ phase' = "lanes" /\ partial' = partial
             /\ lane' = [l \in LaneIds |->
                            IF l <= n THEN [NoAgent EXCEPT !.at = "waiting"] ELSE NoAgent]
  OBVIOUS
<1>3. CASE n = 0
  <2>1. phase' = "investigate" /\ lane' = lane /\ partial' # {}
    BY <1>2, <1>3
  <2>2. Types' /\ FindingsInv' /\ ExitInv'
    BY <1>1, <2>1 DEF Types, Phases, FindingsInv, ExitInv
  <2>3. OverInv' /\ RecheckInv' /\ LanesInv' /\ ValidateInv'
    BY <1>1, <2>1 DEF OverInv, RecheckInv, Rechecked, Phases, LanesInv, Laned, ValidateInv, Handed,
       Judged
  <2> QED  BY <2>2, <2>3
<1>4. CASE n > 0
  <2>1. phase' = "lanes" /\ partial' = partial
    BY <1>2, <1>4
  <2>2. \A l \in LaneIds :
           \/ l <= n /\ lane'[l] = [at |-> "waiting", until |-> 0, result |-> "none"]
           \/ ~(l <= n) /\ lane'[l] = [at |-> "none", until |-> 0, result |-> "none"]
    BY <1>2, <1>4 DEF NoAgent
  <2>3. /\ [at |-> "waiting", until |-> 0, result |-> "none"] \in LaneStates
        /\ [at |-> "none", until |-> 0, result |-> "none"] \in LaneStates
    BY DEF LaneStates, Ats
  <2>4. lane' \in [LaneIds -> LaneStates]
    BY <1>2, <1>4, <2>2, <2>3
  <2>5. 1 \in LaneIds /\ 1 <= n
    BY <1>4, ReviewAssumption DEF LaneIds
  <2>6. lane'[1].at # "none"
    BY <2>2, <2>5
  <2>7. Types' /\ FindingsInv' /\ ExitInv'
    BY <1>1, <2>1, <2>4 DEF Types, Phases, FindingsInv, ExitInv
  <2>8. OverInv'
    BY <1>1, <2>1, <2>2 DEF OverInv
  <2>9. RecheckInv' /\ LanesInv' /\ ValidateInv'
    BY <1>1, <2>1, <2>6 DEF RecheckInv, Rechecked, Phases, LanesInv, Laned, ValidateInv, Handed,
       Judged
  <2> QED  BY <2>7, <2>8, <2>9
<1> QED  BY <1>2, <1>3, <1>4

LEMMA ValidatedKeeps == IInv /\ Validated => IInv'
<1> SUFFICES ASSUME IInv, Validated  PROVE IInv'
  OBVIOUS
<1> USE DEF IInv, Validated
<1>1. /\ phase = "validate" /\ ChecksOver /\ exit = {} /\ exit' = exit
      /\ phase' \in {"dedup", "done"}
      /\ strategy' = strategy /\ validate' = validate /\ publish' = publish
      /\ tracked' = tracked /\ posted' = posted /\ raw' = raw /\ check' = check
      /\ now' = now /\ rechecked' = rechecked /\ lane' = lane /\ submitted' = submitted
      /\ partial' = partial \cup Inconclusive
  BY DEF command, ExitInv
<1>2. Candidates(raw)' = Candidates(raw) /\ Candidates(raw) \subseteq Findings
  BY <1>1 DEF Candidates, StillTracked, Reenter, FindingsInv
<1>3. ASSUME validate, partial' = {}, NEW f \in Candidates(raw)
      PROVE  check[f].verdict \in Verdicts
  <2>1. f \in Findings /\ check[f].at = "over"
    BY <1>1, <1>2, <1>3 DEF ChecksOver, ValidateInv, Handed
  <2>2. check[f].verdict # "none" /\ check[f].verdict # "unknown"
    BY <1>1, <1>3, <2>1 DEF OverInv, Inconclusive
  <2> QED  BY <2>1, <2>2 DEF Types, CheckStates
<1>4. Types' /\ FindingsInv' /\ ExitInv'
  BY <1>1 DEF Types, Phases, FindingsInv, ExitInv
<1>5. OverInv' /\ RecheckInv' /\ LanesInv'
  BY <1>1 DEF OverInv, RecheckInv, Rechecked, Phases, LanesInv, Laned
<1>6. ValidateInv'
  BY <1>1, <1>2, <1>3 DEF ValidateInv, Handed, Judged
<1> QED  BY <1>4, <1>5, <1>6

\* Deduplication, time, and the requests that run out.
LEMMA OthersKeep == IInv /\ (Deduplicated \/ Tick \/ Spend) => IInv'
<1> SUFFICES ASSUME IInv, Deduplicated \/ Tick \/ Spend  PROVE IInv'
  OBVIOUS
<1> USE DEF IInv
<1>1. /\ phase' = phase \/ (phase = "dedup" /\ phase' = "done")
      /\ strategy' = strategy /\ validate' = validate /\ publish' = publish /\ exit' = exit
      /\ tracked' = tracked /\ posted' = posted /\ raw' = raw /\ check' = check
      /\ now' \in {now, now + 1} /\ rechecked' = rechecked /\ lane' = lane
      /\ submitted' = submitted /\ partial' = partial
  BY DEF Deduplicated, Tick, Spend, command
<1>2. Candidates(raw)' = Candidates(raw)
  BY <1>1 DEF Candidates, StillTracked, Reenter
<1>3. Types' /\ FindingsInv' /\ ExitInv'
  BY <1>1 DEF Types, Phases, FindingsInv, ExitInv
<1>4. OverInv' /\ RecheckInv' /\ LanesInv' /\ ValidateInv'
  BY <1>1, <1>2 DEF OverInv, RecheckInv, Rechecked, Phases, LanesInv, Laned, ValidateInv, Handed,
     Judged
<1> QED  BY <1>3, <1>4

LEMMA StutterKeeps == IInv /\ UNCHANGED vars => IInv'
<1> SUFFICES ASSUME IInv, UNCHANGED vars  PROVE IInv'
  OBVIOUS
<1> USE DEF IInv, vars
<1>1. Candidates(raw)' = Candidates(raw)
  BY DEF Candidates, StillTracked, Reenter
<1> QED  BY <1>1 DEF Types, FindingsInv, ExitInv, OverInv, RecheckInv, Rechecked, LanesInv, Laned,
            ValidateInv, Handed, Judged

LEMMA StepsKeep == IInv /\ [Next]_vars => IInv'
BY CommandKeeps, FailKeeps, EndKeeps, IndexKeeps, PreparedKeeps, CheckingKeeps, LaningKeeps,
   LanesEndKeeps, InvestigatedKeeps, SynthesisedKeeps, PlannedKeeps, ValidatedKeeps, OthersKeep,
   StutterKeeps DEF Next, Step

LEMMA IInvMeansChecked == IInv => CompleteMeansChecked
<1> SUFFICES ASSUME IInv, Complete  PROVE CompleteMeansChecked
  BY DEF CompleteMeansChecked
<1> USE DEF IInv
<1>1. exit = {0}
  BY DEF Complete, CheckSays, Types
<1>2. phase = "ended" /\ partial = {} /\ (publish = "comment" => validate)
  BY <1>1 DEF ExitInv
<1>3. /\ \A l \in LaneIds : lane[l].result \in {"none", "full", "gaps"}
      /\ \A l \in LaneIds : lane[l].at # "none" => lane[l].result \in {"full", "gaps"}
      /\ \A l \in LaneIds : lane[l].result = "gaps" => strategy = "delegated"
  BY <1>2 DEF LanesInv, OverInv
<1>4. 1 \in LaneIds
  BY ReviewAssumption DEF LaneIds
<1>5. /\ strategy = "panel" => \A l \in LaneIds : lane[l].result = "full"
      /\ strategy = "delegated" => lane[1].result # "none"
  BY <1>1, <1>2, <1>3, <1>4 DEF LanesInv, Laned
<1> QED  BY <1>1, <1>2, <1>3, <1>5 DEF CompleteMeansChecked, RecheckInv, Rechecked, ValidateInv, Judged

\* "complete: every stage finished": for all strategies, budgets and findings, an
\* exit code 0 or a green check means that every scout submitted in full, that every
\* planned worker answered its question, though it may have named gaps or had
\* candidates dropped, that every recheck and every candidate got a verdict, and
\* that what was to be posted was validated and posted.
THEOREM CompleteIsChecked == Spec => []CompleteMeansChecked
<1> QED  BY StepsKeep, InitIsSound, IInvMeansChecked, PTL DEF Spec

-------------------------------------------------------------------------------
(* What lanes submit.                                                      *)

Early == {"command", "index", "recheck", "plan", "investigate"}
Late  == {"validate", "dedup", "done", "ended"}

\* Only lanes submit; what they submitted is handed on, but for a synthesis that
\* the lead itself submitted.
SubmittedInv ==
    /\ phase \in Phases
    /\ phase \in Early => submitted = {}
    /\ phase \in Phases \ Late => "synthesis" \notin partial
    /\ phase \in {"plan", "synthesis"} => strategy = "delegated"
    /\ phase \in Late => \/ submitted \subseteq raw
                         \/ strategy = "delegated" /\ "synthesis" \notin partial

\* The steps up to the lanes.
LEMMA EarlyKeepSubmitted ==
    Types /\ SubmittedInv /\ (Command \/ Fail \/ Index \/ Prepared \/ Planned) => SubmittedInv'
<1> SUFFICES ASSUME Types, SubmittedInv, Command \/ Fail \/ Index \/ Prepared \/ Planned
             PROVE  SubmittedInv'
  OBVIOUS
<1> USE DEF SubmittedInv, Early, Late, Phases
<1>1. CASE Command \/ Fail \/ Index
  BY <1>1 DEF Command, Fail, Index, command
<1>2. CASE Prepared
  <2>1. /\ phase = "recheck" /\ submitted' = submitted /\ strategy' = strategy
        /\ phase' \in {"investigate", "lanes", "plan"}
        /\ phase' = "plan" => strategy = "delegated"
    BY <1>2 DEF Prepared, command, FirstPhase, Types
  <2>2. "synthesis" \notin partial'
    BY <1>2 DEF Prepared, Inconclusive
  <2> QED  BY <2>1, <2>2
<1>3. CASE Planned
  <2>1. /\ phase = "plan" /\ submitted' = submitted /\ strategy' = strategy
        /\ phase' \in {"investigate", "lanes"} /\ partial' \subseteq partial \cup {"plan"}
    BY <1>3 DEF Planned, command
  <2> QED  BY <2>1
<1> QED  BY <1>1, <1>2, <1>3

\* The steps that hand candidates on.
LEMMA HandingKeepsSubmitted ==
    SubmittedInv /\ (Laning \/ PanelOver \/ WorkersOver \/ Investigated \/ Synthesised)
        => SubmittedInv'
<1> SUFFICES ASSUME SubmittedInv,
                    Laning \/ PanelOver \/ WorkersOver \/ Investigated \/ Synthesised
             PROVE  SubmittedInv'
  OBVIOUS
<1> USE DEF SubmittedInv, Early, Late, Phases
<1>1. CASE Laning
  <2>1. /\ phase = "lanes" /\ phase' = phase /\ partial' = partial /\ raw' = raw
        /\ strategy' = strategy
    BY <1>1 DEF Laning, command
  <2> QED  BY <2>1
<1>2. CASE PanelOver \/ Investigated
  <2>1. /\ phase' = "validate" /\ submitted' = submitted /\ submitted \subseteq raw'
    BY <1>2 DEF PanelOver, Investigated, Finish
  <2> QED  BY <2>1
<1>3. CASE WorkersOver
  <2>1. CASE Finish(submitted, Shortfall \cup {"synthesis"})
    <3>1. phase' = "validate" /\ submitted' = submitted /\ raw' = submitted
      BY <1>3, <2>1 DEF WorkersOver, Finish
    <3> QED  BY <3>1
  <2>2. CASE phase' = "synthesis" /\ partial' = partial \cup Shortfall
    <3>1. phase = "lanes" /\ strategy' = strategy /\ strategy = "delegated"
      BY <1>3 DEF WorkersOver, command
    <3>2. "synthesis" \notin partial'
      BY <2>2, <3>1 DEF Shortfall
    <3> QED  BY <2>2, <3>1, <3>2
  <2> QED  BY <1>3, <2>1, <2>2 DEF WorkersOver
<1>4. CASE Synthesised
  <2>1. PICK r \in Outcomes, fs \in SUBSET Findings :
           /\ r = "stopped" => fs = Fallback
           /\ Finish(fs, CASE r = "full"    -> {}
                           [] r = "short"   -> {"short"}
                           [] r = "stopped" -> {"synthesis"})
    BY <1>4 DEF Synthesised
  <2>2. /\ phase = "synthesis" /\ strategy = "delegated" /\ strategy' = strategy
        /\ submitted' = submitted /\ phase' = "validate" /\ raw' = fs
    BY <1>4, <2>1 DEF Synthesised, Finish, command
  <2>3. CASE r = "stopped"
    BY <2>1, <2>2, <2>3 DEF Fallback
  <2>4. CASE r \in {"full", "short"}
    BY <2>1, <2>2, <2>4 DEF Finish
  <2> QED  BY <2>3, <2>4 DEF Outcomes
<1> QED  BY <1>1, <1>2, <1>3, <1>4

\* What follows takes nothing away from what was handed on.
LEMMA RestKeepsSubmitted ==
    SubmittedInv
    /\ (End \/ Checking \/ Validated \/ Deduplicated \/ Tick \/ Spend \/ UNCHANGED vars)
        => SubmittedInv'
<1> SUFFICES ASSUME SubmittedInv,
                    \/ End \/ Checking \/ Validated \/ Deduplicated \/ Tick \/ Spend
                    \/ UNCHANGED vars
             PROVE  SubmittedInv'
  OBVIOUS
<1>1. /\ phase' = phase \/ (phase \in Late /\ phase' \in Late)
      /\ submitted' = submitted /\ raw' = raw /\ strategy' = strategy
      /\ "synthesis" \in partial' => "synthesis" \in partial
  BY DEF End, Checking, Validated, Deduplicated, Tick, Spend, vars, command, Late, Inconclusive
<1> QED  BY <1>1 DEF SubmittedInv, Early, Late, Phases

\* What a scout or worker submitted is in the report of the run or is tracked
\* already, unless the lead's own submission replaced what its workers found
\* (finish and the fallback of the delegated strategy in src/pipeline).
THEOREM NothingSubmittedIsLost == Spec => []CandidatesSurvive
<1>1. Init => SubmittedInv
  BY DEF Init, SubmittedInv, Early, Late, Phases
<1>2. Types /\ SubmittedInv /\ [Next]_vars => SubmittedInv'
  BY EarlyKeepSubmitted, HandingKeepsSubmitted, RestKeepsSubmitted DEF Next, Step
<1>3. SubmittedInv => CandidatesSurvive
  BY DEF SubmittedInv, Late, CandidatesSurvive, Reported, Candidates
<1>4. IInv => Types
  BY DEF IInv
<1> QED  BY <1>1, <1>2, <1>3, <1>4, InitIsSound, StepsKeep, PTL DEF Spec

-------------------------------------------------------------------------------
(* When the run ends.                                                      *)

\* Each stage that may begin late adds the grace period of its agent.
Latest == Deadline + CASE phase \in {"command", "index", "recheck"} -> Grace
                       [] phase = "plan"                             -> 2 * Grace
                       [] OTHER                                      -> 3 * Grace

\* Neither the clock nor the timer of an agent is past what its stage allows.
TimeInv ==
    /\ now <= Latest
    /\ Running(lead) => lead.until \in Int /\ lead.until <= Latest
    /\ \A l \in LaneIds  : Running(lane[l])  => lane[l].until <= Latest
    /\ \A f \in Findings : Running(check[f]) => check[f].until <= Latest
    /\ phase \in {"command", "index"} =>
           /\ ~Running(lead)
           /\ \A l \in LaneIds  : ~Running(lane[l])
           /\ \A f \in Findings : ~Running(check[f])

\* An agent ends at most a grace period after its deadline or, if it starts
\* later, after its start.
LEMMA AgentsEndSoon ==
    ASSUME now \in Int, validate \in BOOLEAN, strategy \in {"baseline", "panel", "delegated"}
    PROVE  /\ AgentEnd(AgentSeconds, InvestigationDeadline) <= Deadline + Grace
              \/ AgentEnd(AgentSeconds, InvestigationDeadline) <= now + Grace
           /\ Left(Deadline) > 0 => AgentEnd(AgentSeconds, Deadline) <= Deadline + Grace
           /\ \A e \in Int : CutOff(e) <= Deadline
           /\ DedupTime > 0 => now + DedupTime <= Deadline
           /\ DedupTime \in Int
<1> USE ReviewAssumption
<1>1. InvestigationDeadline \in Int /\ InvestigationDeadline <= Deadline
  BY DEF Deadline, InvestigationDeadline, Reserve, Smaller
<1>2. Deadline \in Int /\ Grace \in Nat /\ AgentSeconds \in Nat /\ DedupMargin \in Nat
      /\ DedupMax \in Nat
  BY DEF Deadline
<1>3. /\ AgentEnd(AgentSeconds, InvestigationDeadline) <= Deadline + Grace
         \/ AgentEnd(AgentSeconds, InvestigationDeadline) <= now + Grace
      /\ Left(Deadline) > 0 => AgentEnd(AgentSeconds, Deadline) <= Deadline + Grace
  BY <1>1, <1>2 DEF AgentEnd, Left, Smaller
<1>4. \A e \in Int : CutOff(e) <= Deadline
  BY <1>1, <1>2 DEF CutOff, Smaller
<1>5. /\ DedupTime > 0 => now + DedupTime <= Deadline
      /\ DedupTime \in Int
  BY <1>2 DEF DedupTime, Left, Smaller
<1> QED  BY <1>3, <1>4, <1>5

\* An agent that is made anew runs until the time it is given, if it runs.
LEMMA NewAgents ==
    /\ ~Running(NoAgent) /\ ~Running(NoCheck)
    /\ ~Running([NoAgent EXCEPT !.at = "waiting"])
    /\ ~Running([NoCheck EXCEPT !.at = "waiting"])
    /\ ~Running([NoCheck EXCEPT !.at = "over", !.verdict = "unknown"])
    /\ \A u : [NoAgent EXCEPT !.at = "running", !.until = u].until = u
<1>1. ~Running(NoAgent) /\ ~Running(NoCheck)
  BY DEF NoAgent, NoCheck, Running
<1>2. ~Running([NoAgent EXCEPT !.at = "waiting"])
  BY DEF NoAgent, Running
<1>3. ~Running([NoCheck EXCEPT !.at = "waiting"])
  BY DEF NoCheck, Running
<1>4. ~Running([NoCheck EXCEPT !.at = "over", !.verdict = "unknown"])
  BY DEF NoCheck, Running
<1>5. \A u : [NoAgent EXCEPT !.at = "running", !.until = u].until = u
  BY DEF NoAgent
<1> QED  BY <1>1, <1>2, <1>3, <1>4, <1>5

LEMMA LatestGrows ==
    /\ Latest \in Int /\ Deadline \in Int /\ Grace \in Nat
    /\ Deadline + Grace <= Latest /\ Latest <= Deadline + 3 * Grace
BY ReviewAssumption DEF Latest, Deadline

\* The stages up to the lanes.
LEMMA EarlyInTime ==
    IInv /\ IInv' /\ TimeInv /\ (Command \/ Fail \/ Index \/ Prepared \/ Planned) => TimeInv'
<1> SUFFICES ASSUME IInv, IInv', TimeInv, Command \/ Fail \/ Index \/ Prepared \/ Planned
             PROVE  TimeInv'
  OBVIOUS
<1>1. Types /\ Types'
  BY DEF IInv
<1>2. Grace \in Nat /\ Deadline \in Int /\ Deadline' = Deadline /\ RunSeconds \in Nat
  BY ReviewAssumption DEF Deadline
<1>3. CASE Command \/ Fail
  <2>1. /\ phase \in {"command", "index"} /\ phase' \in {"index", "ended"}
        /\ now' = now /\ lead' = lead /\ lane' = lane /\ check' = check
    BY <1>3 DEF Command, Fail
  <2>2. now <= Deadline + Grace
    BY <2>1 DEF TimeInv, Latest
  <2>3. now' <= Latest'
    BY <1>1, <1>2, <2>1, <2>2 DEF Types, Latest
  <2> QED  BY <2>1, <2>3 DEF TimeInv, Running
<1>4. CASE Index
  <2>1. /\ phase = "index" /\ phase' = "recheck" /\ lead' = lead /\ lane' = lane
        /\ now' \in IndexTimes
        /\ \A f \in Findings : ~Running(check'[f])
    BY <1>4 DEF Index, NoCheck, Running
  <2>2. now' <= Latest'
    BY <1>2, <2>1, ReviewAssumption DEF Latest, Deadline
  <2> QED  BY <2>1, <2>2 DEF TimeInv, Running
<1>5. CASE Prepared
  <2>1. /\ phase = "recheck" /\ phase' \in {"investigate", "lanes", "plan"} /\ now' = now
        /\ \A f \in Findings : ~Running(check'[f])
        /\ \A l \in LaneIds : ~Running(lane'[l])
        /\ ~Running(lead') \/ lead'.until = AgentEnd(AgentSeconds, InvestigationDeadline)
    BY <1>1, <1>5 DEF Prepared, NoCheck, NoAgent, Running, FirstPhase, Investigating, Types
  <2>2. Latest = Deadline + Grace /\ Latest' >= Deadline + 2 * Grace
    BY <1>2, <2>1 DEF Latest
  <2>3. now <= Deadline + Grace
    BY <2>2 DEF TimeInv
  <2>4. /\ AgentEnd(AgentSeconds, InvestigationDeadline) \in Int
        /\ AgentEnd(AgentSeconds, InvestigationDeadline) <= Deadline + 2 * Grace
    BY <1>1, <1>2, <2>3, TimesAreIntegers, AgentsEndSoon DEF Types
  <2>5. Latest' \in Int
    BY <1>2 DEF Latest
  <2> QED  BY <1>1, <1>2, <2>1, <2>2, <2>3, <2>4, <2>5 DEF TimeInv, Types
<1>6. CASE Planned
  <2>1. /\ phase = "plan" /\ phase' \in {"investigate", "lanes"} /\ now' = now /\ check' = check
        /\ \A l \in LaneIds : Running(lane'[l]) => lane'[l] = lane[l]
        /\ ~Running(lead') \/ lead'.until = AgentEnd(AgentSeconds, InvestigationDeadline)
    <3>1. PICK n \in 0 .. Lanes :
             \/ lead' = Investigating(lead) /\ UNCHANGED lane
             \/ /\ lead' = NoAgent
                /\ lane' = [l \in LaneIds |->
                               IF l <= n THEN [NoAgent EXCEPT !.at = "waiting"] ELSE NoAgent]
      BY <1>6 DEF Planned
    <3>2. \A l \in LaneIds : Running(lane'[l]) => lane'[l] = lane[l]
      BY <3>1, NewAgents
    <3>3. ~Running(lead') \/ lead'.until = AgentEnd(AgentSeconds, InvestigationDeadline)
      BY <3>1, NewAgents DEF Investigating
    <3> QED  BY <1>6, <3>2, <3>3 DEF Planned
  <2>2. Latest = Deadline + 2 * Grace /\ Latest' = Deadline + 3 * Grace
    BY <2>1, <1>2 DEF Latest
  <2>3. now <= Deadline + 2 * Grace
    BY <2>2 DEF TimeInv
  <2>4. /\ AgentEnd(AgentSeconds, InvestigationDeadline) \in Int
        /\ AgentEnd(AgentSeconds, InvestigationDeadline) <= Deadline + 3 * Grace
    BY <1>1, <1>2, <2>3, TimesAreIntegers, AgentsEndSoon DEF Types
  <2>5. /\ \A l \in LaneIds : Running(lane'[l]) => lane'[l].until <= Latest'
        /\ \A f \in Findings : Running(check'[f]) => check'[f].until <= Latest'
    <3>1. /\ \A l \in LaneIds : lane[l].until \in Int
          /\ \A f \in Findings : check[f].until \in Int
      BY <1>1 DEF Types, LaneStates, CheckStates
    <3>2. /\ \A l \in LaneIds : Running(lane[l]) => lane[l].until <= Deadline + 2 * Grace
          /\ \A f \in Findings : Running(check[f]) => check[f].until <= Deadline + 2 * Grace
      BY <2>2 DEF TimeInv
    <3> QED  BY <1>2, <2>1, <2>2, <3>1, <3>2
  <2> QED  BY <1>1, <1>2, <2>1, <2>2, <2>3, <2>4, <2>5 DEF TimeInv, Types
<1> QED  BY <1>3, <1>4, <1>5, <1>6

\* Validators and lanes start, and the clock goes on.
LEMMA AgentsInTime ==
    IInv /\ IInv' /\ TimeInv /\ (Checking \/ Laning \/ Tick) => TimeInv'
<1> SUFFICES ASSUME IInv, IInv', TimeInv, Checking \/ Laning \/ Tick  PROVE TimeInv'
  OBVIOUS
<1>1. Types /\ Types'
  BY DEF IInv
<1>2. phase' = phase /\ Deadline' = Deadline /\ Latest' = Latest /\ lead' = lead
  BY DEF Checking, Laning, Tick, Latest, Deadline
<1>3. CASE Checking
  <2>1. PICK f \in Findings : CheckStarts(f) \/ CheckEnds(f)
    BY <1>3 DEF Checking
  <2>2. phase \in {"recheck", "validate"} /\ now' = now /\ lane' = lane
    BY <1>3 DEF Checking
  <2>3. \A g \in Findings : Running(check'[g]) =>
           \/ check'[g] = check[g]
           \/ Left(Deadline) > 0 /\ check'[g].until = AgentEnd(AgentSeconds, Deadline)
    <3>1. CASE CheckEnds(f)
      <4>1. PICK v \in Verdicts \cup {"unknown"} :
               check' = [check EXCEPT ![f] = [at |-> "over", until |-> 0, verdict |-> v]]
        BY <3>1 DEF CheckEnds, NoCheck
      <4> QED  BY <1>1, <4>1 DEF Running, Types
    <3>2. CASE CheckStarts(f)
      <4> DEFINE run  == [check[f] EXCEPT !.at = "running",
                                          !.until = AgentEnd(AgentSeconds, Deadline)]
      <4> DEFINE late == [check[f] EXCEPT !.at = "over", !.verdict = "unknown"]
      <4>1. check[f] \in CheckStates
        BY <1>1 DEF Types
      <4>2. run.until = AgentEnd(AgentSeconds, Deadline) /\ ~Running(late)
        BY <4>1 DEF CheckStates, Running
      <4>3. \/ Left(Deadline) > 0 /\ check' = [check EXCEPT ![f] = run]
            \/ check' = [check EXCEPT ![f] = late]
        BY <3>2 DEF CheckStarts
      <4>4. check \in [Findings -> CheckStates]
        BY <1>1 DEF Types
      <4> HIDE DEF run, late
      <4> QED  BY <4>2, <4>3, <4>4
    <3> QED  BY <2>1, <3>1, <3>2
  <2>4. AgentEnd(AgentSeconds, Deadline) \in Int
        /\ (Left(Deadline) > 0 => AgentEnd(AgentSeconds, Deadline) <= Deadline + Grace)
    BY <1>1, TimesAreIntegers, AgentsEndSoon DEF Types
  <2>5. \A g \in Findings : Running(check'[g]) => check'[g].until <= Latest'
    BY <1>2, <2>3, <2>4, LatestGrows DEF TimeInv
  <2> QED  BY <1>2, <2>2, <2>5 DEF TimeInv
<1>4. CASE Laning
  <2>1. PICK l \in LaneIds : LaneStarts(l) \/ LaneEnds(l)
    BY <1>4 DEF Laning
  <2>2. phase = "lanes" /\ now' = now /\ check' = check
    BY <1>4 DEF Laning
  <2>3. \A k \in LaneIds : Running(lane'[k]) =>
           \/ lane'[k] = lane[k]
           \/ lane'[k].until = CutOff(AgentEnd(LaneSeconds, InvestigationDeadline))
    <3>1. CASE LaneEnds(l)
      BY <1>1, <3>1 DEF LaneEnds, Running, Types
    <3>2. CASE LaneStarts(l)
      <4> DEFINE late == spent \/ now >= InvestigationDeadline
                 end  == CutOff(AgentEnd(LaneSeconds, InvestigationDeadline))
      <4>1. lane' = [lane EXCEPT ![l] =
                        IF late THEN [@ EXCEPT !.at = "over", !.result = "skipped"]
                        ELSE [@ EXCEPT !.at = "running", !.until = end]]
        BY <3>2 DEF LaneStarts
      <4>2. lane \in [LaneIds -> LaneStates]
        BY <1>1 DEF Types
      <4> HIDE DEF late, end
      <4>3. \A k \in LaneIds : k # l => lane'[k] = lane[k]
        BY <4>1, <4>2
      <4>4. lane'[l] = IF late THEN [lane[l] EXCEPT !.at = "over", !.result = "skipped"]
                       ELSE [lane[l] EXCEPT !.at = "running", !.until = end]
        BY <4>1, <4>2
      <4>5. lane[l] \in LaneStates
        BY <4>2
      <4>6. Running(lane'[l]) => lane'[l].until = end
        BY <4>4, <4>5 DEF Running, LaneStates
      <4> QED  BY <4>3, <4>6 DEF end
    <3> QED  BY <2>1, <3>1, <3>2
  <2>4. AgentEnd(LaneSeconds, InvestigationDeadline) \in Int
    BY <1>1, TimesAreIntegers DEF Types
  <2>5. /\ CutOff(AgentEnd(LaneSeconds, InvestigationDeadline)) \in Int
        /\ CutOff(AgentEnd(LaneSeconds, InvestigationDeadline)) <= Deadline
    BY <1>1, <2>4, TimesAreIntegers, AgentsEndSoon DEF Types
  <2>6. \A k \in LaneIds : Running(lane'[k]) => lane'[k].until <= Latest'
    BY <1>2, <2>3, <2>5, LatestGrows DEF TimeInv
  <2> QED  BY <1>2, <2>2, <2>6 DEF TimeInv
<1>5. CASE Tick
  <2>1. PICK a \in Busy : now < a.until
    BY <1>5 DEF Tick
  <2>2. a.until \in Int /\ a.until <= Latest
    BY <1>1, <2>1 DEF Busy, BusyChecks, BusyLanes, TimeInv, Types, CheckStates, LaneStates
  <2>3. now' = now + 1 /\ lane' = lane /\ check' = check
    BY <1>5 DEF Tick
  <2>4. now' <= Latest'
    BY <1>1, <1>2, <2>1, <2>2, <2>3, LatestGrows DEF Types
  <2> QED  BY <1>2, <2>3, <2>4 DEF TimeInv
<1> QED  BY <1>3, <1>4, <1>5

\* The stages from the lanes on, which all allow the same.
LEMMA LateInTime ==
    IInv /\ IInv' /\ TimeInv
    /\ (PanelOver \/ WorkersOver \/ Investigated \/ Synthesised \/ Validated \/ Deduplicated
        \/ End \/ Spend \/ UNCHANGED vars)
        => TimeInv'
<1> SUFFICES ASSUME IInv, IInv', TimeInv,
                    \/ PanelOver \/ WorkersOver \/ Investigated \/ Synthesised \/ Validated
                    \/ Deduplicated \/ End \/ Spend \/ UNCHANGED vars
             PROVE  TimeInv'
  OBVIOUS
<1>1. Types /\ Types'
  BY DEF IInv
<1>2. now' = now /\ lane' = lane
  BY DEF PanelOver, WorkersOver, Investigated, Synthesised, Validated, Deduplicated, End, Spend, vars
<1>3. \/ phase' = phase
      \/ /\ phase \in {"lanes", "investigate", "synthesis", "validate", "dedup", "done"}
         /\ phase' \in {"synthesis", "validate", "dedup", "done", "ended"}
  BY DEF PanelOver, WorkersOver, Investigated, Synthesised, Validated, Deduplicated, End, Spend,
     vars, Finish
<1>4. Latest' = Latest
  BY <1>3 DEF Latest, Deadline
<1>5. \A f \in Findings : Running(check'[f]) => check'[f] = check[f]
  <2>1. check' = check \/ \E fs \in {{}, Candidates(raw')} : check' = Spawned(fs)
    BY DEF PanelOver, WorkersOver, Investigated, Synthesised, Validated, Deduplicated, End, Spend,
       vars, Finish, Candidates, StillTracked, Reenter
  <2>2. ASSUME NEW fs, check' = Spawned(fs), NEW f \in Findings  PROVE ~Running(check'[f])
    <3>1. \/ check'[f] = NoCheck
          \/ check'[f] = [NoCheck EXCEPT !.at = "waiting"]
          \/ check'[f] = [NoCheck EXCEPT !.at = "over", !.verdict = "unknown"]
      BY <2>2 DEF Spawned
    <3> QED  BY <3>1, NewAgents
  <2> QED  BY <2>1, <2>2
<1>6. Running(lead') =>
         \/ lead' = lead
         \/ lead'.until = CutOff(AgentEnd(AgentSeconds, InvestigationDeadline))
         \/ DedupTime > 0 /\ lead'.until = now + DedupTime
  <2>1. CASE PanelOver \/ End \/ Spend \/ UNCHANGED vars
    BY <2>1 DEF PanelOver, End, Spend, vars
  <2>2. CASE Investigated \/ Synthesised \/ Deduplicated
    BY <2>2, NewAgents DEF Investigated, Synthesised, Deduplicated
  <2>3. CASE WorkersOver
    <3>1. \/ lead' = lead
          \/ lead' = [NoAgent EXCEPT !.at = "running",
                         !.until = CutOff(AgentEnd(AgentSeconds, InvestigationDeadline))]
      BY <2>3 DEF WorkersOver
    <3> QED  BY <3>1, NewAgents
  <2>4. CASE Validated
    <3>1. \/ lead' = NoAgent
          \/ DedupTime > 0 /\ lead' = [NoAgent EXCEPT !.at = "running", !.until = now + DedupTime]
      BY <2>4 DEF Validated
    <3> QED  BY <3>1, NewAgents
  <2> QED  BY <2>1, <2>2, <2>3, <2>4
<1>7. /\ CutOff(AgentEnd(AgentSeconds, InvestigationDeadline)) \in Int
      /\ CutOff(AgentEnd(AgentSeconds, InvestigationDeadline)) <= Deadline
      /\ DedupTime \in Int /\ (DedupTime > 0 => now + DedupTime <= Deadline)
  <2>1. AgentEnd(AgentSeconds, InvestigationDeadline) \in Int
    BY <1>1, TimesAreIntegers DEF Types
  <2> QED  BY <1>1, <2>1, TimesAreIntegers, AgentsEndSoon DEF Types
<1>8. Running(lead') => lead'.until \in Int /\ lead'.until <= Latest'
  BY <1>1, <1>4, <1>6, <1>7, LatestGrows DEF TimeInv, Types
<1>9. phase' \in {"command", "index"} => phase' = phase /\ lead' = lead /\ check' = check
  BY <1>3 DEF PanelOver, WorkersOver, Investigated, Synthesised, Validated, Deduplicated, End,
     Spend, vars
<1> QED  BY <1>2, <1>4, <1>5, <1>8, <1>9 DEF TimeInv

\* For all budgets, the run is over at most three grace periods after its
\* deadline, of which the rechecks', the plan's and the investigator's that takes
\* over may each use one (deadlines and terminal grace in src/pipeline).
THEOREM RunEndsInTime == Spec => []ReportInTime
<1>1. Init => TimeInv
  BY ReviewAssumption DEF Init, TimeInv, Latest, Deadline, Running, NoAgent, NoCheck
<1>2. IInv /\ IInv' /\ TimeInv /\ [Next]_vars => TimeInv'
  BY EarlyInTime, AgentsInTime, LateInTime DEF Next, Step
<1>3. IInv /\ TimeInv => ReportInTime
  BY LatestGrows DEF TimeInv, ReportInTime, IInv, Types
<1> QED  BY <1>1, <1>2, <1>3, InitIsSound, StepsKeep, PTL DEF Spec

===============================================================================
