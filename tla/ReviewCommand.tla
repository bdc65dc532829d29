----------------------------- MODULE ReviewCommand -----------------------------
(***************************************************************************)
(* What one invocation of `revera review` decides before it reviews, and   *)
(* what its exit code and the check of the server say afterwards           *)
(* (src/cli.rs, src/config.rs, src/server/runner.rs).                      *)
(*                                                                         *)
(* A configuration is what these decisions look at.  Where it comes from   *)
(* matters: the head holds what the pull request says, the base what was   *)
(* merged, and outside the checkout is the operator's.  Left out: budgets, *)
(* profiles, notes and guidance, the shape of options, and state that an   *)
(* earlier review left (Publish).                                          *)
(***************************************************************************)
EXTENDS Naturals

Places == {"head", "base", "outside"}
PublishModes == {"dry-run", "comment"}

\* Where a route or an index endpoint sends, and the variable of its key.
Urls == {"https", "loopback", "plain", "invalid"}
Keys == {"none", "set", "unset", "reserved", "malformed"}
Endpoints == [url : Urls, key : Keys]

\* The route of a role and its fallbacks.  One that is not HTTP sends nowhere and
\* needs no key, like one to https whose key is set.
Chains == [first : Endpoints, fallback : SUBSET Endpoints]
NoRoute == [first |-> "none"]
Roles == {"investigator", "validator", "lead", "worker", "scout", "fixer"}

Configs ==
    [publish  : PublishModes,           \* review.publish
     validate : BOOLEAN,                \* review.validate
     forks    : BOOLEAN,                \* github.allow_forks
     strategy : {"baseline", "panel", "delegated"},
     routes   : [Roles -> Chains \cup {NoRoute}],
     vera     : BOOLEAN,                \* vera.enabled
     index    : SUBSET Endpoints,       \* vera.embedding, vera.reranker
     program  : {"name", "absolute", "relative"}]      \* vera.executable

\* No file there, not a regular one, or it does not parse.
NoConfig == [publish |-> "none"]
Sources == [Places -> Configs \cup {NoConfig}]

Calls ==
    [event   : {"none", "malformed", "own", "fork"},    \* --event, and the head's repository
     private : BOOLEAN,
     config  : {"inside", "outside"},   \* --config, with links resolved; revera.yaml is inside
     publish : {"none"} \cup PublishModes,
     files   : {"inside", "outside"}]   \* --playbook-dir, and --notes-file unless private

\* The checkout: at the head to review, changed, and whether the head can be had.
Trees == [atHead : BOOLEAN, dirty : BOOLEAN, fetched : BOOLEAN]

-------------------------------------------------------------------------------
(* The configuration.                                                      *)

OfPull(call) == call.event \in {"own", "fork"}

\* load_event_config: inside the checkout stands for the base commit.
EventConfig(call, sources) ==
    sources[IF call.config = "inside" THEN "base" ELSE "outside"]

Loaded(call, sources) ==
    CASE call.private ->
            IF OfPull(call) /\ call.config = "outside" THEN sources["outside"] ELSE NoConfig
      [] ~call.private /\ OfPull(call) -> EventConfig(call, sources)
      [] ~call.private /\ ~OfPull(call) ->
            sources[IF call.config = "inside" THEN "head" ELSE "outside"]

\* check_endpoint_url, check_credential_env.
UrlTrusted(e, event) == e.url \in {"https", "loopback"} \cup (IF event THEN {} ELSE {"plain"})
KeyTrusted(e) == e.key \notin {"reserved", "malformed"}

Configured(cfg, role) == cfg.routes[role] # NoRoute

Endpoint(cfg, role) ==
    IF Configured(cfg, role)
    THEN {cfg.routes[role].first} \cup cfg.routes[role].fallback ELSE {}

\* check_trust, before any key is resolved, whether the route is used or not.
Trusted(cfg, event) ==
    /\ \A e \in UNION {Endpoint(cfg, r) : r \in Roles} \cup (IF cfg.vera THEN cfg.index ELSE {}) :
          UrlTrusted(e, event) /\ KeyTrusted(e)
    /\ (cfg.vera /\ event) => cfg.program # "relative"

\* The validator is the investigator's route unless it has its own.
Used(cfg) ==
    {"investigator"}
        \cup (IF cfg.validate /\ Configured(cfg, "validator") THEN {"validator"} ELSE {})
        \cup CASE cfg.strategy = "baseline"  -> {}
               [] cfg.strategy = "delegated" -> {"lead", "worker"}
               [] cfg.strategy = "panel"     -> {"scout"}

\* validate_for: a route in use whose key is not set has a fallback with one.
Equipped(cfg) ==
    \A r \in Used(cfg) :
        Configured(cfg, r) /\ cfg.routes[r].first.key = "unset" =>
            \E e \in cfg.routes[r].fallback : e.key = "set"

-------------------------------------------------------------------------------
(* The gates of review, in their order.                                    *)

Publishes(call, cfg) ==
    CASE call.private                             -> "dry-run"
      [] ~call.private /\ call.publish # "none"   -> call.publish
      [] ~call.private /\ call.publish = "none"   -> cfg.publish

\* A fork without a configuration that its pull request cannot write.
Unconfigured(call, sources) ==
    /\ Loaded(call, sources) = NoConfig
    /\ call.event = "fork" /\ ~call.private
    /\ call.publish = "comment"

\* What a configuration must have before the fork guard looks at it.
Postable(call, cfg) ==
    /\ OfPull(call) => call.files = "outside"
    /\ Publishes(call, cfg) = "comment" => OfPull(call) /\ cfg.validate

\* The fork guard.
Withheld(call, cfg) ==
    /\ call.event = "fork"
    /\ Publishes(call, cfg) = "comment"
    /\ ~cfg.forks

\* fork_skip: a partial report and no other step.
Skipped(call, sources) ==
    /\ call.event # "malformed"
    /\ \/ Unconfigured(call, sources)
       \/ /\ Loaded(call, sources) # NoConfig
          /\ Postable(call, Loaded(call, sources))
          /\ Withheld(call, Loaded(call, sources))

\* Every gate is passed; only now keys are read.
Admitted(call, sources) ==
    /\ call.event # "malformed"
    /\ Loaded(call, sources) # NoConfig
    /\ LET cfg == Loaded(call, sources)
       IN  /\ Postable(call, cfg)
           /\ ~Withheld(call, cfg)
           /\ Trusted(cfg, OfPull(call))
           /\ Equipped(cfg)

\* The reviewed files are those of the head: an event checks it out unless files
\* were changed, and prepare reviews nothing else.
Ready(call, tree) ==
    /\ ~tree.dirty
    /\ tree.atHead \/ (OfPull(call) /\ tree.fetched)

\* What the command ends with when it does not review.
Refusal(call, sources, tree) ==
    IF \/ Skipped(call, sources)
       \/ Admitted(call, sources) /\ OfPull(call) /\ tree.dirty /\ ~tree.atHead
    THEN 2 ELSE 1

-------------------------------------------------------------------------------
(* After the review.                                                       *)

\* Mutant of Exit: only the status of the report counts.
ExitOfReport(complete, published, written) ==
    IF ~written THEN 1 ELSE IF complete THEN 0 ELSE 2

\* complete: no reason for a partial review.  A failed publication makes it one.
Exit(complete, published, written) ==
    IF ~written THEN 1
    ELSE IF complete /\ published THEN 0 ELSE 2

\* conclusion: what the server's check says of a review that was not cancelled,
\* from its exit code and its report.
CheckSays(exit, complete, accepted) ==
    CASE exit = 2                              -> "neutral"
      [] exit # 2 /\ ~(exit = 0 /\ complete)   -> "failure"
      [] exit = 0 /\ complete                  -> IF accepted = {} THEN "success" ELSE "neutral"

-------------------------------------------------------------------------------
(* How the server calls it.                                                *)

\* config: revera.yaml of the base, or else the server's own file.
ServerConfig(sources) == sources[IF sources["base"] = NoConfig THEN "outside" ELSE "base"]

\* execute and execute_external.  The notes and the playbook are files of the server.
ReviewCall(event, sources) ==
    [event |-> event, private |-> FALSE, publish |-> "comment", files |-> "outside",
     config |-> IF sources["base"] = NoConfig THEN "outside" ELSE "inside"]

ExternalCall(event) ==
    [event |-> event, private |-> TRUE, publish |-> "dry-run", files |-> "outside",
     config |-> "outside"]
===============================================================================
