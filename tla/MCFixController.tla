--------------------------- MODULE MCFixController ---------------------------
(* Settings of the fix controller for TLC.                                   *)
EXTENDS FixController

AllPolicies == [execution : BOOLEAN, auto : BOOLEAN]
\* Everything is allowed without a click.
Opted == {[execution |-> TRUE, auto |-> TRUE]}

\* A repository with a script, a CI file, credentials and a submodule.
MCPaths == {"run.sh", "ci.yml", ".env", "lib", "lib/a"}
MCBelow == [p \in MCPaths |-> IF p = "lib" THEN {"lib/a"} ELSE {}]
MCHeads ==
    {[p \in MCPaths |->
        CASE p = "run.sh" -> [mode |-> m, content |-> "old"]
          [] p = "ci.yml" -> [mode |-> "file", content |-> "old"]
          [] p = ".env"   -> [mode |-> "file", content |-> "key"]
          [] p = "lib"    -> lib
          [] OTHER        -> Nothing] :
        m \in {"file", "exec", "link"},
        lib \in {[mode |-> "gitlink", content |-> "commit"], Nothing}}

\* One file, for runs about other things.
NoneBelow == [p \in {"run.sh"} |-> {}]
OneHead == {[p \in {"run.sh"} |-> [mode |-> "file", content |-> "old"]]}

\* What TLC checks of every workspace left behind, before FixControllerProofs proves it
\* for all of them.
ASSUME AllowedIsCommitted ==
    \A l \in Left :
        LET tree == Taken(l.head, l.workspace)
            diff == Diff(l.head, tree)
        IN  Kept(diff) => Accepted(diff) /\ Committed(l.head, diff) = tree

\* Some are kept, and some are refused.
ASSUME PatchesDiffer == {o.kept : o \in Outcomes} = BOOLEAN
=============================================================================
