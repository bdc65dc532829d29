------------------------------- MODULE AgentLoop -------------------------------
(***************************************************************************)
(* run_agent_checked (agent.rs): one agent that asks a model, runs the     *)
(* tools it calls for and must hand in a terminal call within a time and a *)
(* tool budget, while other callers spend the same ledger of requests.     *)
(*                                                                         *)
(* Time is counted in ticks since the agent started.  It passes only while *)
(* the agent waits for a request or for tools, and never beyond the        *)
(* deadline of that wait: code between two awaits takes no time, and a     *)
(* timer is not late.  A wait that is over at its deadline may count as    *)
(* completed or as timed out.  Left out: the transcript, the early warning *)
(* at a fifth of the tool budget, and what the terminal call says; `check` *)
(* accepts or rejects it.                                                  *)
(***************************************************************************)
EXTENDS ModelRoutes

CONSTANTS
    Agent,          \* the caller this agent is
    Totals,         \* max_seconds an agent may be given, in ticks
    ReserveMin,     \* least and most time kept for the wrap-up turn:
    ReserveMax,     \*   10 and 90 seconds
    MinWait,        \* least time of an ordinary wait: 1 second
    RepairMin,      \* REPAIR_MIN_LEFT
    Grace,          \* TERMINAL_GRACE
    MaxTools,       \* max_tool_calls
    Batches         \* how many tools a reply may call

ASSUME AgentAssumption ==
    /\ Agent \in Callers
    /\ Totals \subseteq {t \in Nat : t \div 4 > 0}
    /\ {ReserveMin, ReserveMax, MinWait, Grace, MaxTools} \subseteq Nat
    /\ RepairMin \in Nat \ {0}
    /\ Batches \subseteq Nat \ {0}

VARIABLES
    total,          \* this agent's time budget
    now,            \* ticks since it started
    turn,           \* "top" of the loop, "asking", "tools" or "ended"
    until,          \* deadline of the wait in progress
    asked,          \* when the request in progress was made, 0 between requests
    slowest,        \* slowest reply so far
    calls,          \* tool calls accounted for
    batch,          \* tool calls being executed
    notice,         \* "none", or the budget the notice was about
    graceful,       \* hard_notice_grace
    used,           \* of "nudge", "repair" and "reminder", those given
    stopped         \* StopReason, or "running"

agentVars == <<total, now, turn, until, asked, slowest, calls, batch, notice,
               graceful, used, stopped>>
vars == <<routeVars, agentVars>>

Least(a, b) == IF a <= b THEN a ELSE b
Most(a, b) == IF a >= b THEN a ELSE b

Init ==
    /\ RoutesInit
    /\ total \in Totals
    /\ now = 0
    /\ turn = "top"
    /\ until = 0
    /\ asked = 0
    /\ slowest = 0
    /\ calls = 0
    /\ batch = 0
    /\ notice = "none"
    /\ graceful = FALSE
    /\ used = {}
    /\ stopped = "running"

-------------------------------------------------------------------------------
(* Deadlines.                                                              *)

\* A fifth of the budget, clamped, and never more than a quarter of it.
WrapUpReserve == Least(Most(ReserveMin, Least(ReserveMax, total \div 5)), total \div 4)

Soft == total - WrapUpReserve

HardLeft == IF now < total THEN total - now ELSE 0

\* The submission is asked for while two replies as slow as the slowest still
\* fit, but not before half of the budget.
SoftDeadline(slow) == Least(Soft, total - Least(2 * slow, total \div 2))

SoftLeft(deadline) ==
    Least(HardLeft, Most(MinWait, IF now < deadline THEN deadline - now ELSE 0))

\* Mutant of Limit: every request after the notice has the grace period.
LimitGraceful(told, grace, slow) ==
    IF told THEN HardLeft + Grace ELSE SoftLeft(SoftDeadline(slow))

\* How long the next request may take.
Limit(told, grace, slow) ==
    CASE told /\ grace  -> Grace
      [] told /\ ~grace -> HardLeft
      [] ~told          -> SoftLeft(SoftDeadline(slow))

-------------------------------------------------------------------------------
(* The loop.                                                               *)

Told == notice # "none"

\* The agent returns.
End(reason) ==
    /\ turn' = "ended"
    /\ stopped' = reason
    /\ asked' = 0
    /\ UNCHANGED <<total, now, until, calls, batch, notice, graceful>>

\* Back to the top of the loop.
Again ==
    /\ turn' = "top"
    /\ asked' = 0
    /\ UNCHANGED <<total, now, until, batch, graceful, stopped>>

Tell(what) == notice' = what

NothingToldAnew == UNCHANGED notice

\* The top of the loop: decide on the notice, then ask with what time there is.
\* soft_timed_out is only ever set together with the notice, so it does not
\* matter here.
Ask ==
    /\ turn = "top"
    /\ LET timeUp == now > SoftDeadline(slowest)
           toolsUp == calls >= MaxTools
           tell == ~Told /\ (timeUp \/ toolsUp)
           grace == IF tell THEN timeUp /\ now >= total ELSE graceful
           limit == Limit(Told \/ tell, grace, slowest)
       IN  /\ \/ tell /\ Tell(IF timeUp THEN "time" ELSE "tools")
              \/ ~tell /\ NothingToldAnew
           /\ graceful' = grace
           /\ \/ /\ limit = 0
                 /\ turn' = "ended"
                 /\ stopped' = "time"
                 /\ UNCHANGED <<until, asked, routeVars>>
              \/ /\ limit > 0
                 /\ turn' = "asking"
                 /\ until' = now + limit
                 /\ asked' = now
                 /\ Complete(Agent, IF notice' = "time" THEN {"effort"} ELSE {})
                 /\ UNCHANGED stopped
    /\ UNCHANGED <<total, now, slowest, calls, batch, used>>

\* Every route failed, or the run has no requests left.
AskFails ==
    /\ turn = "asking"
    /\ call[Agent].at = "failed"
    /\ Collect(Agent)
    /\ End("provider")
    /\ UNCHANGED <<slowest, used>>

\* Mutant of AskTimesOut: the wrap-up request has no deadline.
AskTimesOutOnce ==
    /\ turn = "asking"
    /\ now = until
    /\ call[Agent].at \notin {"answered", "failed"}
    /\ ~Told
    /\ Dropped(Agent)
    /\ Again
    /\ Tell("time")
    /\ UNCHANGED <<calls, slowest, used>>

\* The deadline passed: before the notice the wrap-up follows, after it nothing.
AskTimesOut ==
    /\ turn = "asking"
    /\ now = until
    /\ call[Agent].at \notin {"answered", "failed"}
    /\ Dropped(Agent)
    /\ \/ /\ ~Told
          /\ Again
          /\ Tell("time")
          /\ UNCHANGED calls
       \/ /\ Told
          /\ End("time")
    /\ UNCHANGED <<slowest, used>>

Answered ==
    /\ turn = "asking"
    /\ call[Agent].at = "answered"
    /\ Collect(Agent)
    /\ slowest' = Most(slowest, now - asked)

\* A terminal call, or text that reads as one: a rejected one may be corrected
\* once, if enough time is left.
Submission ==
    /\ Answered
    /\ \E ok \in BOOLEAN :
          LET repair == ~ok /\ "repair" \notin used /\ total - now >= RepairMin
          IN  \/ /\ repair
                 /\ Again
                 /\ NothingToldAnew
                 /\ used' = used \cup {"repair"}
                 /\ UNCHANGED calls
              \/ /\ ~repair
                 /\ End("terminal")
                 /\ UNCHANGED used

\* Text or tool calls in answer to the notice: one reminder if the tools ran
\* out and time did not, else the end.
NoticeIgnored ==
    /\ Answered
    /\ Told
    /\ LET remind == notice = "tools" /\ "reminder" \notin used /\ HardLeft >= RepairMin
       IN  \/ /\ remind
              /\ Again
              /\ NothingToldAnew
              /\ used' = used \cup {"reminder"}
              /\ UNCHANGED calls
           \/ /\ ~remind
              /\ End(notice)
              /\ UNCHANGED used

\* Prose instead of a terminal call is answered with one nudge.
Prose ==
    /\ Answered
    /\ ~Told
    /\ \/ /\ "nudge" \notin used
          /\ Again
          /\ NothingToldAnew
          /\ used' = used \cup {"nudge"}
          /\ UNCHANGED calls
       \/ /\ "nudge" \in used
          /\ End("no_terminal")
          /\ UNCHANGED used

\* A late reply's tools are not run: they would use up the wrap-up's time.
MayExecute(slow) == SoftLeft(SoftDeadline(slow)) > 0 /\ now < SoftDeadline(slow)

\* Tool calls: as many as the budget allows are run, or accounted for if it is
\* too late to run them.
ToolCalls ==
    /\ Answered
    /\ ~Told
    /\ NothingToldAnew
    /\ \E n \in Batches :
          LET exec == Least(n, MaxTools - calls)
          IN  \/ /\ MayExecute(slowest')
                 /\ turn' = "tools"
                 /\ batch' = exec
                 /\ until' = now + SoftLeft(SoftDeadline(slowest'))
                 /\ asked' = 0
                 /\ UNCHANGED <<total, now, calls, graceful, stopped>>
              \/ /\ ~MayExecute(slowest')
                 /\ Again
                 /\ calls' = calls + exec
    /\ UNCHANGED used

ToolsEnd ==
    /\ turn = "tools"
    /\ turn' = "top"
    /\ calls' = calls + batch
    /\ batch' = 0
    /\ \/ NothingToldAnew
       \/ now = until /\ Tell("time")
    /\ UNCHANGED <<total, now, until, asked, slowest, graceful, used, stopped, routeVars>>

\* Time passes while the agent waits for a provider, a pause or its tools.
Tick ==
    /\ \/ turn = "asking" /\ call[Agent].at \in {"flight", "waiting"}
       \/ turn = "tools"
    /\ now < until
    /\ now' = now + 1
    /\ UNCHANGED <<total, turn, until, asked, slowest, calls, batch, notice,
                   graceful, used, stopped, routeVars>>

-------------------------------------------------------------------------------
\* The agent's own steps, each of them code between two awaits.
Step ==
    \/ Ask \/ AskFails \/ AskTimesOut
    \/ Submission \/ NoticeIgnored \/ Prose \/ ToolCalls
    \/ turn = "asking" /\ Work(Agent) /\ UNCHANGED agentVars

\* What others do with its request.
Served == turn = "asking" /\ (Answer(Agent) \/ Resume(Agent)) /\ UNCHANGED agentVars

Peers == (\E c \in Callers \ {Agent} : Use(c)) /\ UNCHANGED agentVars

Next == Step \/ ToolsEnd \/ Tick \/ Served \/ Peers

Spec == Init /\ [][Next]_vars

\* Only the agent's task and the clock are fair: a provider may never answer, a
\* tool may hang, and the other callers do what they like.
Fairness == WF_vars(Step) /\ WF_vars(Tick) /\ WF_vars(now = until /\ ToolsEnd)

FairSpec == Spec /\ Fairness

-------------------------------------------------------------------------------
\* No wait outlives the hard deadline, except the one request whose notice came
\* when the deadline had passed, and that by the grace period at most.
EndsInTime ==
    Most(now, until) <= total + (IF graceful THEN Grace ELSE 0)

\* "A hung provider or tool cannot outlive the deadline": the agent comes to an
\* end though nothing it waits for is ever answered and no reply ends it.
AgentEnds == <>(turn = "ended")
===============================================================================
