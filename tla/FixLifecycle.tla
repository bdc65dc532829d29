----------------------------- MODULE FixLifecycle -----------------------------
(***************************************************************************)
(* What Revera promises of a fix (src/docs/server.md, "Fixes"), with       *)
(* neither workers nor GitHub: work is asked for before it is done, only a *)
(* proven patch is offered, a branch is written at most once per approval, *)
(* what was cancelled stays so until somebody asks again, and what was     *)
(* approved can no longer be cancelled.                                    *)
(***************************************************************************)
EXTENDS Naturals

CONSTANT Fixes

VARIABLES
    stage,      \* where a fix is
    proven,     \* its patch passed its tests and its verification
    approvals,  \* how often it was approved
    writes      \* how many branches were written for it

vars == <<stage, proven, approvals, writes>>

Stages == {"none", "asked", "working", "ready", "delivering", "delivered", "ended", "dropped"}

Init ==
    /\ stage = [f \in Fixes |-> "none"]
    /\ proven = [f \in Fixes |-> FALSE]
    /\ approvals = [f \in Fixes |-> 0]
    /\ writes = [f \in Fixes |-> 0]

Move(f, from, to) ==
    /\ stage[f] \in from
    /\ stage' = [stage EXCEPT ![f] = to]

\* Asked for, or refused at once; asked for again.  What was delivered is not.
Ask(f) ==
    /\ \/ Move(f, {"none", "asked", "working", "ready", "ended", "dropped"}, "asked")
       \/ Move(f, {"none"}, "ended")
    /\ UNCHANGED <<proven, approvals, writes>>

\* An attempt: a new one has proven nothing.  A worker that finishes while the
\* server shuts down may still report on a fix that has just ended.
Work(f) ==
    /\ \/ Move(f, {"asked", "working", "ended"}, "working") /\ proven' \in [Fixes -> BOOLEAN]
       \/ Move(f, {"working", "ended"}, "ready") /\ proven'[f]
       \/ stage[f] \in {"dropped", "ended"} /\ UNCHANGED stage /\ proven' \in [Fixes -> BOOLEAN]
    /\ \A g \in Fixes \ {f} : proven'[g] = proven[g]
    /\ UNCHANGED <<approvals, writes>>

Approve(f) ==
    /\ Move(f, {"ready"}, "delivering")
    /\ approvals' = [approvals EXCEPT ![f] = @ + 1]
    /\ UNCHANGED <<proven, writes>>

\* A branch is written: of a proven patch, once for each approval.
Write(f) ==
    /\ stage[f] = "delivering"
    /\ proven[f]
    /\ writes[f] < approvals[f]
    /\ writes' = [writes EXCEPT ![f] = @ + 1]
    /\ UNCHANGED <<stage, proven, approvals>>

Deliver(f) ==
    /\ Move(f, {"delivering"}, "delivered")
    /\ writes[f] > 0
    /\ UNCHANGED <<proven, approvals, writes>>

\* Work, a delivery or the process ends, and a closed pull request drops what is
\* not delivered: one fix or, at a shutdown, several.
End ==
    /\ stage' \in [Fixes -> Stages]
    /\ \A f \in Fixes :
          \/ stage'[f] = stage[f]
          \/ stage[f] \in {"asked", "working", "delivering", "ended"} /\ stage'[f] = "ended"
          \/ stage[f] \notin {"none", "delivering", "delivered"} /\ stage'[f] = "dropped"
    /\ UNCHANGED <<proven, approvals, writes>>

Next ==
    \/ \E f \in Fixes : Ask(f) \/ Work(f) \/ Approve(f) \/ Write(f) \/ Deliver(f)
    \/ End

Spec == Init /\ [][Next]_vars
=============================================================================
