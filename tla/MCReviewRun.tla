------------------------------ MODULE MCReviewRun ------------------------------
(* Instances of ReviewRun for TLC. *)
EXTENDS ReviewRun

Route(url, key) == [first |-> [url |-> url, key |-> key], fallback |-> {}]

\* A configuration that reviews, and what one setting makes of it.
Base ==
    [publish |-> "dry-run", validate |-> TRUE, forks |-> FALSE, strategy |-> "baseline",
     routes |-> [r \in Roles |-> IF r = "investigator" THEN Route("https", "set") ELSE NoRoute],
     vera |-> FALSE, index |-> {}, program |-> "name"]

Merged ==
    {[Base EXCEPT !.strategy = s, !.validate = v, !.forks = f] :
        s \in {"baseline", "panel", "delegated"}, v \in BOOLEAN, f \in BOOLEAN}
    \cup {[Base EXCEPT !.routes["investigator"] = Route(u, k)] :
              u \in {"plain", "invalid"}, k \in {"set", "unset", "reserved"}}
    \cup {[Base EXCEPT !.vera = TRUE, !.program = "relative"]}

\* The pull request's own file would publish without validation.
OfHead == [Base EXCEPT !.publish = "comment", !.validate = FALSE, !.forks = TRUE]

MCSources ==
    {[p \in Places |-> IF p = "head" THEN OfHead ELSE IF p = "base" THEN b ELSE Base] :
        b \in Merged \cup {NoConfig}}

MCTrees == {[atHead |-> TRUE, dirty |-> FALSE, fetched |-> TRUE],
            [atHead |-> FALSE, dirty |-> TRUE, fetched |-> TRUE]}

\* The server's reviews, its external reviews, and calls by hand.
MCInvocations ==
    {[call |-> ReviewCall(e, s), sources |-> s, tree |-> t] :
        e \in {"own", "fork"}, s \in MCSources, t \in MCTrees}
    \cup {[call |-> c, sources |-> s, tree |-> [atHead |-> TRUE, dirty |-> FALSE, fetched |-> FALSE]] :
              c \in {[ExternalCall("fork") EXCEPT !.config = o] : o \in {"inside", "outside"}}
                      \cup {[event |-> e, private |-> FALSE, publish |-> "none", files |-> f,
                             config |-> "inside"] : e \in {"none", "own"}, f \in {"inside", "outside"}},
              s \in MCSources}
===============================================================================
