-------------------------- MODULE AgentFindingsProofs --------------------------
(***************************************************************************)
(* The agent and its findings.  A run spends no more requests than it may,  *)
(* and an agent comes to its end in time, for all callers, routes, budgets *)
(* and retries.  What the agents find is collapsed, judged, deduplicated   *)
(* and anchored so that nothing accepted is lost, for all findings,        *)
(* verdicts and groups, and the stages together do what Publish takes for  *)
(* one step.  The lines on which comments are placed are really there, for  *)
(* all diffs.                                                              *)
(***************************************************************************)
EXTENDS AgentLoop, ReviewFindings, FiniteSetTheorems, WellFoundedInduction, TLAPS

-------------------------------------------------------------------------------
(* The ledger.                                                             *)

\* A request that was given a route is at one of the list.
HasRoute == {"ready", "flight", "waiting"}

\* Every attempt in flight has its reservation, and what was sent is what was
\* recorded and what is still reserved.
RoutesInv ==
    /\ RoutesTypeOK
    /\ \A c \in Callers : call[c].at \in HasRoute => call[c].route \in Routes
    /\ recorded + reserved = sent
    /\ sent <= MaxRequests
    /\ Cardinality(InFlight) <= reserved

\* What a caller may do to the ledger and to its request.
RouteStep(c) ==
    \/ \E cap \in SUBSET {"effort"} : Complete(c, cap)
    \/ Work(c) \/ Answer(c) \/ Resume(c) \/ Collect(c) \/ Dropped(c)

\* Callers are finitely many, so the requests in flight can be counted.
LEMMA FlightIsFinite ==
    ASSUME NEW S, S \subseteq Callers
    PROVE  IsFiniteSet(S) /\ Cardinality(S) \in Nat
BY CallersAssumption, FS_Subset, FS_CardinalityType

-------------------------------------------------------------------------------
(* The wire formats.                                                       *)

\* detect_400_fallback retries only with something more given up.
LEMMA FallbackGivesUpMore ==
    ASSUME NEW route \in RouteKinds, NEW given \in SUBSET Fields, NEW reply \in Replies,
           Fallback(route, given, reply).is = "again"
    PROVE  /\ Fallback(route, given, reply).given \in SUBSET Fields
           /\ given \subseteq Fallback(route, given, reply).given
           /\ given # Fallback(route, given, reply).given
BY DEF Fallback, RetrySameSlot, Error, Fields

\* The request is sent again, with more given up.
GivesMore(given, result) ==
    result.given \in SUBSET Fields /\ given \subseteq result.given /\ given # result.given

\* Whatever a provider refuses and in whichever order, the same request is only
\* sent again with one field less, so it is sent again six times at most: no
\* provider keeps a request in its slot for ever.
THEOREM EveryAdjustmentGivesUpMore ==
    ASSUME NEW route \in RouteKinds, NEW given \in SUBSET Fields, NEW reply \in Replies,
           Parse(route, given, reply).is = "again"
    PROVE  /\ Parse(route, given, reply).given \in SUBSET Fields
           /\ given \subseteq Parse(route, given, reply).given
           /\ given # Parse(route, given, reply).given
<1>1. Fallback(route, given, reply).is = "again" =>
           GivesMore(given, Fallback(route, given, reply))
  BY FallbackGivesUpMore DEF GivesMore
<1>2. \A field \in Fields :
         GivesUp(field, given, reply) => GivesMore(given, RetrySameSlot(given \cup {field}))
  BY DEF GivesUp, RetrySameSlot, GivesMore
<1>3. {"cache", "tokens", "mode"} \subseteq Fields
  BY DEF Fields
<1>4. Message.is # "again" /\ Silent.is # "again" /\ Error.is # "again"
  BY DEF Message, Silent, Error
<1>5. route.protocol \in {"chat", "responses", "anthropic", "gemini"}
  BY DEF RouteKinds
<1>6. ChatParse(route, given, reply).is = "again" =>
           GivesMore(given, ChatParse(route, given, reply))
  BY <1>1, <1>2, <1>3, <1>4 DEF ChatParse
<1>7. ResponsesParse(route, given, reply).is = "again" =>
           GivesMore(given, ResponsesParse(route, given, reply))
  BY <1>1, <1>2, <1>3, <1>4 DEF ResponsesParse
<1>8. AnthropicParse(route, given, reply).is = "again" =>
           GivesMore(given, AnthropicParse(route, given, reply))
  BY <1>1, <1>2, <1>3, <1>4 DEF AnthropicParse
<1>9. GeminiParse(route, given, reply).is = "again" =>
           GivesMore(given, GeminiParse(route, given, reply))
  BY <1>1, <1>4 DEF GeminiParse
<1>10. GivesMore(given, Parse(route, given, reply))
  BY <1>5, <1>6, <1>7, <1>8, <1>9 DEF Parse
<1> QED  BY <1>10 DEF GivesMore

-------------------------------------------------------------------------------
(* Requests.                                                               *)

\* A call that is not in flight afterwards does not make the flight larger.
LEMMA FlightShrinks ==
    ASSUME RoutesInv, NEW c \in Callers, NEW r,
           call' = [call EXCEPT ![c] = r], r.at # "flight"
    PROVE  /\ InFlight' = InFlight \ {c}
           /\ Cardinality(InFlight') \in Nat
           /\ Cardinality(InFlight') <= Cardinality(InFlight)
           /\ call[c].at = "flight" =>
                Cardinality(InFlight') = Cardinality(InFlight) - 1 /\ reserved > 0
<1>1. InFlight' = InFlight \ {c}
  BY DEF RoutesInv, RoutesTypeOK, InFlight
<1>2. IsFiniteSet(InFlight) /\ Cardinality(InFlight) \in Nat
  BY FlightIsFinite DEF InFlight
<1>3. Cardinality(InFlight \ {c}) = IF c \in InFlight THEN Cardinality(InFlight) - 1
                                                       ELSE Cardinality(InFlight)
  BY <1>2, FS_RemoveElement
<1>4. Cardinality(InFlight \ {c}) \in Nat
  BY FlightIsFinite DEF InFlight
<1>5. call[c].at = "flight" => c \in InFlight
  BY DEF InFlight
<1> QED  BY <1>1, <1>2, <1>3, <1>4, <1>5 DEF RoutesInv, RoutesTypeOK

\* A step that sends nothing keeps the ledger in order.
LEMMA NothingSent ==
    ASSUME RoutesInv, NEW c \in Callers, NEW r \in Calls,
           call' = [call EXCEPT ![c] = r], r.at # "flight",
           r.at \in HasRoute => r.route \in Routes,
           position' \in Routes,
           LedgerUnchanged \/ (call[c].at = "flight" /\ Record)
    PROVE  RoutesInv'
<1>1. call' \in [Callers -> Calls]
  BY DEF RoutesInv, RoutesTypeOK
<1>2. \A d \in Callers : call'[d].at \in HasRoute => call'[d].route \in Routes
  BY DEF RoutesInv, RoutesTypeOK
<1>3. CASE LedgerUnchanged
  <2>1. /\ Cardinality(InFlight') \in Nat /\ Cardinality(InFlight) \in Nat
        /\ Cardinality(InFlight') <= Cardinality(InFlight)
    BY FlightShrinks, FlightIsFinite DEF InFlight
  <2> QED  BY <1>1, <1>2, <1>3, <2>1 DEF RoutesInv, RoutesTypeOK, LedgerUnchanged
<1>4. CASE call[c].at = "flight" /\ Record
  <2>1. reserved > 0 /\ Cardinality(InFlight') \in Nat /\ Cardinality(InFlight) \in Nat
        /\ Cardinality(InFlight') = Cardinality(InFlight) - 1
    BY <1>4, FlightShrinks, FlightIsFinite DEF InFlight
  <2>2. reserved' = reserved - 1 /\ recorded' = recorded + 1 /\ sent' = sent
    BY <1>4, <2>1 DEF Record, Decremented, RoutesInv, RoutesTypeOK
  <2> QED  BY <1>1, <1>2, <2>1, <2>2 DEF RoutesInv, RoutesTypeOK
<1> QED  BY <1>3, <1>4

\* The first state: no attempt, no reservation, no request.
LEMMA RoutesInitially == RoutesInit => RoutesInv
<1> SUFFICES ASSUME RoutesInit  PROVE RoutesInv
  OBVIOUS
<1>1. NoCall \in Calls /\ NoCall.at = "idle"
  BY RoutesAssumption DEF NoCall, Calls, Places
<1>2. InFlight = {}
  BY <1>1 DEF RoutesInit, InFlight
<1>3. Cardinality(InFlight) = 0
  BY <1>2, FS_EmptySet
<1>4. RoutesTypeOK
  BY <1>1, RoutesAssumption DEF RoutesInit, RoutesTypeOK, Routes
<1> QED  BY <1>1, <1>3, <1>4, RoutesAssumption DEF RoutesInit, RoutesInv, HasRoute

\* An attempt goes out with a reservation of its own.
LEMMA ReserveKeeps ==
    ASSUME RoutesInv, NEW c \in Callers, Reserve(c)
    PROVE  RoutesInv'
<1>1. call[c] \in Calls /\ call[c].route \in Routes
  BY DEF RoutesInv, RoutesTypeOK, Reserve, HasRoute
<1>2. CASE ~HasBudget /\ MoveTo(c, "failed") /\ UNCHANGED position /\ LedgerUnchanged
  <2> DEFINE r == [call[c] EXCEPT !.at = "failed"]
  <2>1. r \in Calls /\ r.at = "failed"
    BY <1>1 DEF Calls, Places
  <2>2. call' = [call EXCEPT ![c] = r]
    BY <1>2 DEF MoveTo
  <2>3. position' \in Routes
    BY <1>2 DEF RoutesInv, RoutesTypeOK
  <2> HIDE DEF r
  <2> QED  BY <1>2, <2>1, <2>2, <2>3, NothingSent DEF HasRoute
<1>3. CASE /\ HasBudget
           /\ reserved' = reserved + 1
           /\ sent' = sent + 1
           /\ call' = [call EXCEPT ![c].at = "flight", ![c].attempts = @ + 1]
           /\ UNCHANGED <<recorded, position>>
  <2>1. call' \in [Callers -> Calls] /\ call'[c].at = "flight" /\ call'[c].route = call[c].route
    BY <1>1, <1>3 DEF RoutesInv, RoutesTypeOK, Calls, Places
  <2>2. \A d \in Callers \ {c} : call'[d] = call[d]
    BY <1>3 DEF RoutesInv, RoutesTypeOK
  <2>3. c \notin InFlight /\ InFlight' = InFlight \cup {c}
    BY <2>1, <2>2 DEF InFlight, Reserve
  <2>4. Cardinality(InFlight') = Cardinality(InFlight) + 1 /\ Cardinality(InFlight) \in Nat
    BY <2>3, FlightIsFinite, FS_AddElement DEF InFlight
  <2>5. recorded + reserved < MaxRequests
    BY <1>3 DEF HasBudget
  <2> QED  BY <1>1, <1>3, <2>1, <2>2, <2>4, <2>5, RoutesAssumption DEF RoutesInv, RoutesTypeOK
<1> QED  BY <1>2, <1>3 DEF Reserve

\* The other steps of a request send nothing.
LEMMA OthersKeep ==
    ASSUME RoutesInv, NEW c \in Callers,
           \/ \E cap \in SUBSET {"effort"} : Complete(c, cap)
           \/ TryRoute(c) \/ Answer(c) \/ Resume(c) \/ Collect(c) \/ Dropped(c)
    PROVE  RoutesInv'
<1>1. /\ call[c] \in Calls
      /\ call[c].at \in HasRoute => call[c].route \in Routes
      /\ position \in Routes
  BY DEF RoutesInv, RoutesTypeOK
<1>2. NoCall \in Calls /\ NoCall.at = "idle"
  BY RoutesAssumption DEF NoCall, Calls, Places
<1>3. \A at \in Places : /\ [call[c] EXCEPT !.at = at] \in Calls
                         /\ [call[c] EXCEPT !.at = at].at = at
                         /\ [call[c] EXCEPT !.at = at].route = call[c].route
  BY <1>1 DEF Calls
<1>4. ASSUME NEW cap \in SUBSET {"effort"}, Complete(c, cap)
      PROVE  RoutesInv'
  <2> DEFINE r == [NoCall EXCEPT !.at = "routing", !.route = position, !.cap = cap]
  <2>1. r \in Calls /\ r.at = "routing"
    <3>1. position \in 1 .. NumRoutes + 1 /\ "routing" \in Places /\ {} \in SUBSET Fields
      BY <1>1, RoutesAssumption DEF Routes, Places
    <3> QED  BY <3>1 DEF NoCall, Calls
  <2>2. call' = [call EXCEPT ![c] = r] /\ position' \in Routes /\ LedgerUnchanged
    BY <1>1, <1>4 DEF Complete
  <2> HIDE DEF r
  <2> QED  BY <2>1, <2>2, NothingSent DEF HasRoute
<1>5. CASE TryRoute(c)
  <2>1. position' \in Routes /\ LedgerUnchanged
    BY <1>1, <1>5 DEF TryRoute
  <2>2. CASE MoveTo(c, "failed")
    BY <1>3, <2>1, <2>2, NothingSent DEF MoveTo, Places, HasRoute
  <2>3. CASE \E r \in Usable(call[c].route) :
               call' = [call EXCEPT ![c] = [NoCall EXCEPT !.at = "ready", !.route = r,
                                              !.cap = call[c].cap, !.given = call[c].cap]]
    <3>1. PICK s \in Usable(call[c].route) :
               call' = [call EXCEPT ![c] = [NoCall EXCEPT !.at = "ready", !.route = s,
                                              !.cap = call[c].cap, !.given = call[c].cap]]
      BY <2>3
    <3> DEFINE r == [NoCall EXCEPT !.at = "ready", !.route = s,
                                   !.cap = call[c].cap, !.given = call[c].cap]
    <3>2. r \in Calls /\ r.at = "ready" /\ r.route \in Routes
      <4>1. s \in Routes /\ s \in 1 .. NumRoutes + 1 /\ "ready" \in Places
        BY RoutesAssumption DEF Usable, Routes, Places
      <4>2. call[c].cap \in SUBSET {"effort"} /\ call[c].cap \in SUBSET Fields
        BY <1>1 DEF Calls, Fields
      <4>3. r \in Calls /\ r.at = "ready" /\ r.route = s
        BY <4>1, <4>2 DEF NoCall, Calls
      <4> QED  BY <4>1, <4>3
    <3>3. call' = [call EXCEPT ![c] = r]
      BY <3>1
    <3> HIDE DEF r
    <3> QED  BY <2>1, <3>2, <3>3, NothingSent
  <2> QED  BY <1>5, <2>2, <2>3 DEF TryRoute
<1>6. ASSUME call[c].at = "flight", Record, NextRoute(c), UNCHANGED position
      PROVE  RoutesInv'
  <2> DEFINE s == call[c].route + 1
  <2> DEFINE r == [call[c] EXCEPT !.at = "routing", !.route = s]
  <2>1. r \in Calls /\ r.at = "routing"
    <3>1. s \in 1 .. NumRoutes + 1 /\ "routing" \in Places
      BY <1>1, <1>6, RoutesAssumption DEF Places, Routes, HasRoute
    <3> DEFINE d == call[c]
    <3>2. d \in Calls
      BY <1>1
    <3> HIDE DEF s, d
    <3>3. LET moved == [d EXCEPT !.at = "routing", !.route = s]
          IN  moved \in Calls /\ moved.at = "routing"
      BY <3>1, <3>2 DEF Calls
    <3> QED  BY <3>3 DEF d
  <2>2. call' = [call EXCEPT ![c] = r]
    BY <1>6 DEF NextRoute
  <2>3. position' \in Routes
    BY <1>1, <1>6
  <2> HIDE DEF r
  <2> QED  BY <1>6, <2>1, <2>2, <2>3, NothingSent DEF HasRoute
<1>7. ASSUME NEW at \in Places \ {"flight"}, MoveTo(c, at),
             at \in HasRoute => call[c].at \in HasRoute, position' \in Routes,
             LedgerUnchanged \/ (call[c].at = "flight" /\ Record)
      PROVE  RoutesInv'
  <2> DEFINE r == [call[c] EXCEPT !.at = at]
  <2>1. r \in Calls /\ r.at = at /\ r.route = call[c].route
    BY <1>3
  <2>2. call' = [call EXCEPT ![c] = r]
    BY <1>7 DEF MoveTo
  <2> HIDE DEF r
  <2> QED  BY <1>1, <1>7, <2>1, <2>2, NothingSent
<1>8. CASE Succeed(c)
  <2>1. Advanced(call[c].route) \in Routes
    BY <1>1, <1>8 DEF Succeed, Advanced, HasRoute
  <2> QED  BY <1>7, <1>8, <2>1 DEF Succeed, Places, HasRoute
<1>9. CASE Overloaded(c)
  BY <1>1, <1>6, <1>7, <1>9 DEF Overloaded, Places, HasRoute
<1>10. CASE Adjust(c)
  <2>0. PICK reply \in Answers(c) :
           /\ Parsed(c, reply).is = "again"
           /\ call' = [call EXCEPT ![c].at = "ready", ![c].given = Parsed(c, reply).given]
    BY <1>10 DEF Adjust
  <2> DEFINE given == Parsed(c, reply).given
  <2> DEFINE r == [call[c] EXCEPT !.at = "ready", !.given = given]
  <2>1. r \in Calls /\ r.at = "ready" /\ r.route \in Routes
    <3>2. call[c].route \in Routes
      BY <1>1, <1>10 DEF Adjust, HasRoute
    <3>1. given \in SUBSET Fields /\ "ready" \in Places
      <4>1. Kinds[call[c].route] \in RouteKinds /\ call[c].given \in SUBSET Fields
        BY <1>1, <3>2, RoutesAssumption DEF Calls
      <4>2. reply \in Replies
        BY DEF Answers
      <4> QED  BY <2>0, <4>1, <4>2, EveryAdjustmentGivesUpMore DEF Parsed, Places
    <3> DEFINE d == call[c]
    <3>5. d \in Calls
      BY <1>1
    <3> HIDE DEF given, d
    <3>6. LET moved == [d EXCEPT !.at = "ready", !.given = given]
          IN  moved \in Calls /\ moved.at = "ready" /\ moved.route = d.route
      BY <3>1, <3>5 DEF Calls
    <3>3. r \in Calls /\ r.at = "ready" /\ r.route = call[c].route
      BY <3>6 DEF d
    <3> HIDE DEF r
    <3> QED  BY <3>2, <3>3
  <2>2. call' = [call EXCEPT ![c] = r] /\ position' \in Routes /\ call[c].at = "flight" /\ Record
    BY <1>1, <1>10, <2>0 DEF Adjust
  <2> HIDE DEF r
  <2> QED  BY <2>1, <2>2, NothingSent
<1>11. CASE Rejected(c)
  BY <1>6, <1>11 DEF Rejected
<1>12. CASE Refused(c)
  BY <1>1, <1>7, <1>12 DEF Refused, Places, HasRoute
<1>13. CASE Resume(c)
  BY <1>1, <1>7, <1>13 DEF Resume, Places, HasRoute
<1>14. CASE Collect(c) \/ Dropped(c)
  <2>1. call' = [call EXCEPT ![c] = NoCall] /\ position' \in Routes /\ LedgerUnchanged
    BY <1>1, <1>14 DEF Collect, Dropped
  <2> QED  BY <1>2, <2>1, NothingSent DEF HasRoute
<1> QED  BY <1>4, <1>5, <1>8, <1>9, <1>10, <1>11, <1>12, <1>13, <1>14 DEF Answer

\* Whatever a caller does with its request keeps the ledger in order.
LEMMA RouteStepKeeps ==
    ASSUME RoutesInv, NEW c \in Callers, RouteStep(c)
    PROVE  RoutesInv'
BY ReserveKeeps, OthersKeep DEF RouteStep, Work

\* A step that leaves the ledger and the requests alone keeps the invariant.
LEMMA RoutesUnchangedKeeps ==
    ASSUME RoutesInv, UNCHANGED routeVars
    PROVE  RoutesInv'
BY DEF RoutesInv, RoutesTypeOK, InFlight, routeVars

\* Callers alone, without an agent: the ledger is in order whatever they do.
THEOREM LedgerInOrder == RoutesSpec => []RoutesInv
<1>1. RoutesInv /\ [RoutesNext]_routeVars => RoutesInv'
  BY RouteStepKeeps, RoutesUnchangedKeeps DEF RoutesNext, Use, RouteStep
<1> QED  BY <1>1, RoutesInitially, PTL DEF RoutesSpec

-------------------------------------------------------------------------------
(* The agent's deadlines.                                                  *)

AgentTypeOK ==
    /\ total \in Totals
    /\ now \in Nat
    /\ until \in Nat
    /\ asked \in Nat
    /\ slowest \in Nat
    /\ turn \in {"top", "asking", "tools", "ended"}
    /\ notice \in {"none", "time", "tools"}
    /\ graceful \in BOOLEAN

\* The last moment the agent may wait for.
LastMoment == total + (IF graceful THEN Grace ELSE 0)

\* The grace period is given when the deadline has passed, for one request: what
\* follows it is the end.
GraceIsForOneRequest ==
    graceful => notice = "time" /\ total <= now /\ turn \in {"asking", "ended"}

AgentInv ==
    /\ AgentTypeOK
    /\ now <= LastMoment
    /\ until <= LastMoment
    /\ GraceIsForOneRequest

\* What the assumptions say of the numbers used below.
LEMMA AgentConstants ==
    /\ Agent \in Callers
    /\ Grace \in Nat
    /\ RepairMin \in Nat /\ 0 < RepairMin
    /\ \A t \in Totals : t \in Nat
BY AgentAssumption

\* No ordinary wait goes beyond the hard deadline.
LEMMA SoftLeftEnds ==
    ASSUME AgentTypeOK, now <= total, NEW slow \in Nat
    PROVE  /\ SoftLeft(SoftDeadline(slow)) \in Nat
           /\ SoftLeft(SoftDeadline(slow)) <= total - now
           /\ HardLeft = total - now
<1>1. /\ total \in Nat /\ now \in Nat
      /\ MinWait \in Nat /\ ReserveMin \in Nat /\ ReserveMax \in Nat
  BY AgentConstants, AgentAssumption DEF AgentTypeOK
<1>2. total \div 5 \in Int /\ total \div 4 \in Int /\ total \div 2 \in Int
  BY <1>1
<1>3. WrapUpReserve \in Int
  BY <1>1, <1>2 DEF WrapUpReserve, Least, Most
<1>4. Soft \in Int
  BY <1>1, <1>3 DEF Soft
<1>5. SoftDeadline(slow) \in Int
  BY <1>1, <1>2, <1>4 DEF SoftDeadline, Least
<1>6. HardLeft \in Nat /\ HardLeft = total - now
  BY <1>1 DEF HardLeft
<1> QED  BY <1>1, <1>5, <1>6 DEF SoftLeft, Least, Most

\* What the agent's steps do to the ledger is a caller's step or nothing.
LEMMA AgentStepsAreRouteSteps ==
    ASSUME [Next]_vars
    PROVE  (\E c \in Callers : RouteStep(c)) \/ UNCHANGED routeVars
<1> USE AgentConstants DEF RouteStep
<1>1. CASE Ask  BY <1>1 DEF Ask
<1>2. CASE AskFails  BY <1>2 DEF AskFails
<1>3. CASE AskTimesOut  BY <1>3 DEF AskTimesOut
<1>4. CASE Submission \/ NoticeIgnored \/ Prose \/ ToolCalls
  BY <1>4 DEF Submission, NoticeIgnored, Prose, ToolCalls, Answered
<1>5. CASE Work(Agent)  BY <1>5
<1>6. CASE ToolsEnd  BY <1>6 DEF ToolsEnd, routeVars
<1>7. CASE Tick  BY <1>7 DEF Tick, routeVars
<1>8. CASE Served  BY <1>8 DEF Served
<1>9. CASE Peers  BY <1>9 DEF Peers, Use
<1>10. CASE UNCHANGED vars  BY <1>10 DEF vars
<1> QED  BY <1>1, <1>2, <1>3, <1>4, <1>5, <1>6, <1>7, <1>8, <1>9, <1>10 DEF Next, Step

\* run_max_requests: however the agent and the other callers interleave, retry,
\* change routes and drop their requests, the run sends no more than it may.
THEOREM RunStaysInBudget == Spec => []RequestsInBudget
<1>1. Init => RoutesInv
  BY RoutesInitially DEF Init
<1>2. RoutesInv /\ [Next]_vars => RoutesInv'
  BY AgentStepsAreRouteSteps, RouteStepKeeps, RoutesUnchangedKeeps
<1>3. RoutesInv => RequestsInBudget
  BY DEF RoutesInv, RequestsInBudget
<1> QED  BY <1>1, <1>2, <1>3, PTL DEF Spec

\* An agent starts before its deadline and waits for nothing.
LEMMA AgentInitially == Init => AgentInv
<1> SUFFICES ASSUME Init  PROVE AgentInv
  OBVIOUS
<1>1. total \in Totals /\ total \in Nat /\ Grace \in Nat
  BY AgentConstants DEF Init
<1>2. graceful = FALSE /\ now = 0 /\ until = 0 /\ asked = 0 /\ slowest = 0
  BY DEF Init
<1>3. AgentTypeOK
  <2>1. graceful \in BOOLEAN
    BY <1>2
  <2>2. /\ turn \in {"top", "asking", "tools", "ended"}
        /\ notice \in {"none", "time", "tools"}
    BY DEF Init
  <2>3. now \in Nat /\ until \in Nat /\ asked \in Nat /\ slowest \in Nat
    BY <1>2
  <2> QED  BY <1>1, <2>1, <2>2, <2>3 DEF AgentTypeOK
<1>4. ~graceful
  BY <1>2
<1>5. now <= LastMoment /\ until <= LastMoment
  BY <1>1, <1>2, <1>4 DEF LastMoment
<1> QED  BY <1>3, <1>4, <1>5 DEF AgentInv, GraceIsForOneRequest

\* The next request, with or without the notice, ends before the last moment.
LEMMA AskKeeps ==
    ASSUME AgentInv, Ask
    PROVE  AgentInv'
<1> DEFINE timeUp == now > SoftDeadline(slowest)
           tell == ~Told /\ (timeUp \/ calls >= MaxTools)
           grace == IF tell THEN timeUp /\ now >= total ELSE graceful
           limit == Limit(Told \/ tell, grace, slowest)
<1>1. /\ turn = "top" /\ ~graceful /\ now <= total
      /\ total \in Nat /\ now \in Nat /\ Grace \in Nat /\ grace \in BOOLEAN
      /\ AgentTypeOK
  <2>1. turn = "top" /\ ~graceful /\ AgentTypeOK
    BY DEF Ask, AgentInv, GraceIsForOneRequest
  <2>2. total \in Nat /\ now \in Nat /\ Grace \in Nat
    BY <2>1, AgentConstants DEF AgentTypeOK
  <2>3. now <= total
    BY <2>1, <2>2 DEF AgentInv, LastMoment
  <2>4. grace \in BOOLEAN
    <3>1. (timeUp /\ now >= total) \in BOOLEAN /\ graceful \in BOOLEAN
      BY <2>1 DEF AgentTypeOK
    <3> HIDE DEF tell, timeUp
    <3> QED  BY <3>1
  <2> QED  BY <2>1, <2>2, <2>3, <2>4
<1>2. /\ graceful' = grace
      /\ UNCHANGED <<total, now, slowest>>
      /\ \/ tell /\ notice' = (IF timeUp THEN "time" ELSE "tools")
         \/ ~tell /\ notice' = notice
      /\ \/ turn' = "ended" /\ UNCHANGED <<until, asked>>
         \/ limit > 0 /\ turn' = "asking" /\ until' = now + limit /\ asked' = now
  BY DEF Ask, Tell, NothingToldAnew
<1>3. grace => tell /\ timeUp /\ total <= now
  <2>1. grace => tell /\ timeUp /\ now >= total
    BY <1>1
  <2> HIDE DEF tell, timeUp, grace
  <2> QED  BY <1>1, <2>1
<1>4. limit \in Nat /\ (~grace => now + limit <= total) /\ (grace => limit = Grace /\ now = total)
  <2>1. /\ SoftLeft(SoftDeadline(slowest)) \in Nat
        /\ SoftLeft(SoftDeadline(slowest)) <= total - now
        /\ HardLeft = total - now
    BY <1>1, SoftLeftEnds DEF AgentTypeOK
  <2>2. grace => (Told \/ tell) /\ now = total
    BY <1>1, <1>3
  <2> HIDE DEF tell, grace, timeUp
  <2> QED  BY <1>1, <2>1, <2>2 DEF Limit
<1> HIDE DEF limit, grace, tell, timeUp
<1>5. AgentTypeOK'
  BY <1>1, <1>2, <1>4 DEF AgentTypeOK
<1>6. now' <= LastMoment' /\ until' <= LastMoment'
  BY <1>1, <1>2, <1>4 DEF LastMoment, AgentInv, AgentTypeOK
<1>7. GraceIsForOneRequest'
  BY <1>1, <1>2, <1>3 DEF GraceIsForOneRequest
<1> QED  BY <1>5, <1>6, <1>7 DEF AgentInv

\* An answer leaves the slowest reply a number.
LEMMA AnsweredIs ==
    ASSUME AgentTypeOK, Answered
    PROVE  turn = "asking" /\ slowest' \in Nat
BY AgentConstants DEF Answered, AgentTypeOK, Most

\* Replies: after a grace period there is nothing but the end.
LEMMA RepliesKeep ==
    ASSUME AgentInv, Submission \/ NoticeIgnored \/ Prose \/ ToolCalls
    PROVE  AgentInv'
<1>1. /\ turn = "asking" /\ slowest' \in Nat
      /\ total \in Nat /\ now \in Nat /\ Grace \in Nat /\ RepairMin \in Nat /\ RepairMin > 0
  BY AnsweredIs, AgentConstants
     DEF Submission, NoticeIgnored, Prose, ToolCalls, AgentInv, AgentTypeOK
<1>2. UNCHANGED <<total, now, notice, graceful>>
  BY DEF Submission, NoticeIgnored, Prose, ToolCalls, Again, End, NothingToldAnew
<1>3. CASE turn' = "ended" /\ UNCHANGED until /\ asked' = 0
  BY <1>1, <1>2, <1>3 DEF AgentInv, AgentTypeOK, LastMoment, GraceIsForOneRequest
<1>4. CASE turn' = "top" /\ UNCHANGED until /\ asked' = 0 /\ ~graceful
  BY <1>1, <1>2, <1>4 DEF AgentInv, AgentTypeOK, LastMoment, GraceIsForOneRequest
<1>5. CASE /\ turn' = "tools" /\ asked' = 0 /\ ~graceful
           /\ until' = now + SoftLeft(SoftDeadline(slowest'))
  <2>1. now <= total
    BY <1>1, <1>5 DEF AgentInv, LastMoment
  <2>2. /\ SoftLeft(SoftDeadline(slowest')) \in Nat
        /\ SoftLeft(SoftDeadline(slowest')) <= total - now
    BY <1>1, <2>1, SoftLeftEnds DEF AgentInv
  <2> QED  BY <1>1, <1>2, <1>5, <2>1, <2>2
           DEF AgentInv, AgentTypeOK, LastMoment, GraceIsForOneRequest
<1>6. CASE Submission
  <2>1. total - now >= RepairMin => ~graceful
    BY <1>1 DEF AgentInv, GraceIsForOneRequest
  <2> QED  BY <1>3, <1>4, <1>6, <2>1 DEF Submission, Again, End
<1>7. CASE NoticeIgnored
  <2>1. notice = "tools" => ~graceful
    BY DEF AgentInv, GraceIsForOneRequest
  <2> QED  BY <1>3, <1>4, <1>7, <2>1 DEF NoticeIgnored, Again, End
<1>8. CASE Prose \/ ToolCalls
  <2>1. ~graceful
    BY <1>8 DEF Prose, ToolCalls, Told, AgentInv, GraceIsForOneRequest
  <2> QED  BY <1>3, <1>4, <1>5, <1>8, <2>1 DEF Prose, ToolCalls, Again, End
<1> QED  BY <1>6, <1>7, <1>8

\* Time passes up to the deadline of the wait, and a wait that ends adds nothing.
LEMMA WaitsKeep ==
    ASSUME AgentInv, AskFails \/ AskTimesOut \/ ToolsEnd \/ Tick
    PROVE  AgentInv'
<1>1. total \in Nat /\ now \in Nat /\ until \in Nat /\ Grace \in Nat /\ slowest \in Nat /\ asked \in Nat
  BY AgentConstants DEF AgentInv, AgentTypeOK
<1>2. CASE AskFails \/ AskTimesOut
  <2>1. graceful => Told
    BY DEF AgentInv, GraceIsForOneRequest, Told
  <2> QED  BY <1>1, <1>2, <2>1
           DEF AskFails, AskTimesOut, End, Again, Tell, AgentInv, AgentTypeOK, LastMoment,
               GraceIsForOneRequest
<1>3. CASE ToolsEnd
  BY <1>1, <1>3 DEF ToolsEnd, Tell, NothingToldAnew, AgentInv, AgentTypeOK, LastMoment,
                    GraceIsForOneRequest
<1>4. CASE Tick
  BY <1>1, <1>4 DEF Tick, AgentInv, AgentTypeOK, LastMoment, GraceIsForOneRequest
<1> QED  BY <1>2, <1>3, <1>4

\* run_agent_checked's deadline: no wait for a provider or for tools outlives the
\* budget, but for the one wrap-up request that gets the grace period.
THEOREM AgentStaysInTime == Spec => []EndsInTime
<1>1. AgentInv /\ [Next]_vars => AgentInv'
  <2> SUFFICES ASSUME AgentInv, [Next]_vars  PROVE AgentInv'
    OBVIOUS
  <2>1. CASE UNCHANGED agentVars
    BY <2>1 DEF agentVars, AgentInv, AgentTypeOK, LastMoment, GraceIsForOneRequest
  <2> QED  BY <2>1, AskKeeps, RepliesKeep, WaitsKeep DEF Next, Step, Served, Peers, vars
<1>2. AgentInv => EndsInTime
  BY AgentConstants DEF AgentInv, AgentTypeOK, EndsInTime, LastMoment, Most
<1> QED  BY <1>1, <1>2, AgentInitially, PTL DEF Spec

-------------------------------------------------------------------------------
(* Numbers, in order.                                                      *)

\* A set of numbers with a member has a least one.
LEMMA LeastOf ==
    ASSUME NEW S, S \subseteq Nat, S # {}
    PROVE  /\ Min(S) \in S
           /\ \A y \in S : Min(S) <= y
<1> DEFINE R == OpToRel(<, Nat)
<1>1. IsWellFoundedOn(R, Nat)
  BY NatLessThanWellFounded
<1>2. \A x, y \in Nat : x < y => <<x, y>> \in R
  BY DEF OpToRel
<1> HIDE DEF R
<1>3. PICK x \in S : \A y \in S : ~(<<y, x>> \in R)
  BY <1>1, WFMin
<1>4. \A y \in S : ~(y < x)
  BY <1>2, <1>3
<1>5. \A y \in S : x <= y
  BY <1>4
<1> QED  BY <1>5 DEF Min

\* Induction: a set with 0 that has the successor of each number it has, has all.
LEMMA AllNumbers ==
    ASSUME NEW S, 0 \in S, \A n \in Nat : n \in S => n + 1 \in S
    PROVE  Nat \subseteq S
<1> SUFFICES ASSUME Nat \ S # {}  PROVE FALSE
  OBVIOUS
<1> DEFINE least == Min(Nat \ S)
<1>1. least \in Nat \ S /\ \A y \in Nat \ S : least <= y
  BY LeastOf
<1> HIDE DEF least
<1>2. least - 1 \in Nat /\ least - 1 \in S
  BY <1>1
<1> QED  BY <1>1, <1>2

\* R puts the members of E in a row.
Orders(R, E) ==
    /\ \A i \in E : <<i, i>> \notin R
    /\ \A i, j, k \in E : <<i, j>> \in R /\ <<j, k>> \in R => <<i, k>> \in R
    /\ \A i, j \in E : i = j \/ <<i, j>> \in R \/ <<j, i>> \in R

Before(R, E, i)  == {j \in E : <<j, i>> \in R}
Leading(R, E, k) == {i \in E : Cardinality(Before(R, E, i)) < k}

\* A row that is not empty has a last member.
LEMMA LastOf ==
    ASSUME NEW R, NEW E, IsFiniteSet(E), Orders(R, E)
    PROVE  \A D \in SUBSET E : D # {} => \E m \in D : \A j \in D \ {m} : <<j, m>> \in R
<1> DEFINE S == {n \in Nat : \A D \in SUBSET E : Cardinality(D) = n /\ D # {} =>
                                \E m \in D : \A j \in D \ {m} : <<j, m>> \in R}
<1>1. 0 \in S
  BY FS_Subset, FS_EmptySet
<1>2. ASSUME NEW n \in Nat, n \in S  PROVE n + 1 \in S
  <2> SUFFICES ASSUME NEW D \in SUBSET E, Cardinality(D) = n + 1, D # {}
               PROVE  \E m \in D : \A j \in D \ {m} : <<j, m>> \in R
    OBVIOUS
  <2>1. PICK x \in D : TRUE
    OBVIOUS
  <2>2. Cardinality(D \ {x}) = n
    <3>1. IsFiniteSet(D)
      BY FS_Subset
    <3>2. Cardinality(D \ {x}) = Cardinality(D) - 1
      BY <3>1, FS_RemoveElement
    <3> QED  BY <3>2
  <2>3. CASE D \ {x} = {}
    BY <2>1, <2>3
  <2>4. CASE D \ {x} # {}
    <3>1. PICK m \in D \ {x} : \A j \in (D \ {x}) \ {m} : <<j, m>> \in R
      BY <1>2, <2>2, <2>4
    <3>2. CASE <<x, m>> \in R
      BY <3>1, <3>2
    <3>3. CASE <<x, m>> \notin R
      <4>1. <<m, x>> \in R
        BY <3>1, <3>3, <2>1 DEF Orders
      <4>2. \A j \in D \ {x} : <<j, x>> \in R
        BY <3>1, <4>1, <2>1 DEF Orders
      <4> QED  BY <4>2, <2>1
    <3> QED  BY <3>2, <3>3
  <2> QED  BY <2>3, <2>4
<1> HIDE DEF S
<1>3. Nat \subseteq S
  BY <1>1, <1>2, AllNumbers
<1>4. \A D \in SUBSET E : Cardinality(D) \in S
  BY <1>3, FS_Subset, FS_CardinalityType
<1> QED  BY <1>4 DEF S

\* As many members have less than k before them as a row has, up to k.
LEMMA LeadingCount ==
    ASSUME NEW R, NEW E, IsFiniteSet(E), Orders(R, E), NEW k \in Nat
    PROVE  \A D \in SUBSET E :
              Cardinality(Leading(R, D, k)) = IF Cardinality(D) < k THEN Cardinality(D) ELSE k
<1> DEFINE Right(D) ==
      Cardinality(Leading(R, D, k)) = IF Cardinality(D) < k THEN Cardinality(D) ELSE k
<1> DEFINE S == {n \in Nat : \A D \in SUBSET E : Cardinality(D) = n => Right(D)}
<1>1. 0 \in S
  <2> SUFFICES ASSUME NEW D \in SUBSET E, Cardinality(D) = 0  PROVE Right(D)
    OBVIOUS
  <2>1. D = {}
    BY FS_Subset, FS_EmptySet
  <2>2. Leading(R, D, k) = {}
    BY <2>1 DEF Leading
  <2> QED  BY <2>2, FS_EmptySet
<1>2. ASSUME NEW n \in Nat, n \in S  PROVE n + 1 \in S
  <2> SUFFICES ASSUME NEW D \in SUBSET E, Cardinality(D) = n + 1  PROVE Right(D)
    OBVIOUS
  <2>1. IsFiniteSet(D) /\ D # {}
    BY FS_Subset, FS_EmptySet
  <2>2. PICK m \in D : \A j \in D \ {m} : <<j, m>> \in R
    BY <2>1, LastOf
  <2> DEFINE C == D \ {m}
  <2>3. Cardinality(C) = n /\ IsFiniteSet(C) /\ C \in SUBSET E
    BY <2>1, FS_RemoveElement
  <2>4. Right(C)
    BY <1>2, <2>3
  <2>5. Before(R, D, m) = C
    BY <2>2 DEF Before, Orders
  <2>6. \A i \in C : Before(R, D, i) = Before(R, C, i)
    BY <2>2 DEF Before, Orders
  <2>7. Leading(R, D, k) = Leading(R, C, k) \cup (IF n < k THEN {m} ELSE {})
    BY <2>3, <2>5, <2>6 DEF Leading
  <2>8. IsFiniteSet(Leading(R, C, k)) /\ m \notin Leading(R, C, k)
    BY <2>3, FS_Subset DEF Leading
  <2>9. CASE n < k
    <3>1. Cardinality(Leading(R, C, k)) = n
      BY <2>3, <2>4, <2>9
    <3>2. Cardinality(Leading(R, D, k)) = n + 1
      BY <2>7, <2>8, <2>9, <3>1, FS_AddElement
    <3> QED  BY <2>9, <3>2
  <2>10. CASE ~(n < k)
    <3>1. Leading(R, D, k) = Leading(R, C, k)
      BY <2>7, <2>10
    <3> QED  BY <2>3, <2>4, <2>10, <3>1
  <2> QED  BY <2>9, <2>10
<1> HIDE DEF S
<1>3. Nat \subseteq S
  BY <1>1, <1>2, AllNumbers
<1>4. \A D \in SUBSET E : Cardinality(D) \in S
  BY <1>3, FS_Subset, FS_CardinalityType
<1> QED  BY <1>4 DEF S

\* Of two numbers of a set the smaller one has fewer below it.
LEMMA FewerBelow ==
    ASSUME NEW S, S \subseteq Nat, IsFiniteSet(S), NEW a \in S, NEW b \in S, a < b
    PROVE  Cardinality({j \in S : j < a}) < Cardinality({j \in S : j < b})
<1> DEFINE A == {j \in S : j < a}
<1> DEFINE B == {j \in S : j < b}
<1>1. IsFiniteSet(A) /\ IsFiniteSet(B)
  BY FS_Subset
<1>2. a \notin A /\ A \cup {a} \subseteq B
  <2>1. a \in Nat /\ b \in Nat /\ \A j \in S : j \in Nat
    OBVIOUS
  <2>2. a \notin A /\ a \in B
    BY <2>1
  <2>3. \A j \in S : j < a => j < b
    BY <2>1
  <2> QED  BY <2>2, <2>3
<1> HIDE DEF A, B
<1>3. Cardinality(A \cup {a}) = Cardinality(A) + 1
  BY <1>1, <1>2, FS_AddElement
<1>4. Cardinality(A \cup {a}) <= Cardinality(B)
  BY <1>1, <1>2, FS_Subset
<1>5. Cardinality(A) \in Nat /\ Cardinality(B) \in Nat
  BY <1>1, FS_CardinalityType
<1>6. Cardinality(A) < Cardinality(B)
  BY <1>3, <1>4, <1>5
<1> QED  BY <1>6 DEF A, B

\* The numbers of a finite set: the n-th is in the set and has n - 1 below it, each
\* is the n-th for an n, and no two are the same.
LEMMA NthOf ==
    ASSUME NEW S, S \subseteq Nat, IsFiniteSet(S)
    PROVE  /\ \A n \in 1..Cardinality(S) :
                 Nth(S, n) \in S /\ Cardinality({j \in S : j < Nth(S, n)}) = n - 1
           /\ \A k \in S : \E n \in 1..Cardinality(S) : Nth(S, n) = k
<1> DEFINE R == {p \in Nat \X Nat : p[1] < p[2]}
<1> DEFINE Below(k) == {j \in S : j < k}
<1>0. Cardinality(S) \in Nat
  BY FS_CardinalityType
<1>1. Orders(R, S)
  BY DEF Orders
<1>2. \A k \in S : Before(R, S, k) = Below(k)
  BY DEF Before
<1>3. \A k \in S : IsFiniteSet(Below(k)) /\ Cardinality(Below(k)) \in Nat
  BY FS_Subset, FS_CardinalityType
<1> HIDE DEF R
<1>4. ASSUME NEW n \in 1..Cardinality(S)
      PROVE  \E k \in S : Cardinality(Below(k)) = n - 1
  <2>1. n \in Nat /\ n - 1 \in Nat
    BY <1>0
  <2>2. Cardinality(Leading(R, S, n)) = n /\ Cardinality(Leading(R, S, n - 1)) = n - 1
    BY <1>0, <1>1, <2>1, LeadingCount
  <2>3. Leading(R, S, n) = {i \in S : Cardinality(Below(i)) < n}
    BY <1>2 DEF Leading
  <2>4. Leading(R, S, n - 1) = {i \in S : Cardinality(Below(i)) < n - 1}
    BY <1>2 DEF Leading
  <2> HIDE DEF Below
  <2>5. PICK k \in S : Cardinality(Below(k)) < n /\ ~(Cardinality(Below(k)) < n - 1)
    <3> SUFFICES ASSUME Leading(R, S, n) \subseteq Leading(R, S, n - 1)  PROVE FALSE
      BY <2>3, <2>4
    <3>1. IsFiniteSet(Leading(R, S, n - 1))
      BY <2>4, FS_Subset
    <3>2. Cardinality(Leading(R, S, n)) <= Cardinality(Leading(R, S, n - 1))
      BY <3>1, FS_Subset
    <3> QED  BY <2>1, <2>2, <3>2
  <2>6. Cardinality(Below(k)) = n - 1
    BY <1>3, <2>1, <2>5
  <2> QED  BY <2>6
<1>5. \A n \in 1..Cardinality(S) : Nth(S, n) \in S /\ Cardinality(Below(Nth(S, n))) = n - 1
  BY <1>4 DEF Nth
<1>6. ASSUME NEW k \in S  PROVE \E n \in 1..Cardinality(S) : Nth(S, n) = k
  <2> DEFINE n == Cardinality(Below(k)) + 1
  <2>1. Cardinality(S \ {k}) = Cardinality(S) - 1 /\ IsFiniteSet(S \ {k})
    BY FS_RemoveElement
  <2>2. Cardinality(Below(k)) <= Cardinality(S \ {k})
    BY <2>1, FS_Subset
  <2>3. n \in 1..Cardinality(S) /\ n - 1 = Cardinality(Below(k))
    BY <1>0, <1>3, <2>1, <2>2
  <2> HIDE DEF n
  <2>4. Nth(S, n) \in S /\ Cardinality(Below(Nth(S, n))) = Cardinality(Below(k))
    BY <1>5, <2>3
  <2>5. \A a, b \in S : a < b => Cardinality(Below(a)) < Cardinality(Below(b))
    BY FewerBelow
  <2> HIDE DEF Below
  <2> DEFINE c == Cardinality(Below(k))
  <2>6. ~(Nth(S, n) < k) /\ ~(k < Nth(S, n))
    <3>1. c \in Nat /\ ~(c < c)
      BY <1>3
    <3>2. Nth(S, n) < k => Cardinality(Below(Nth(S, n))) < c
      BY <2>4, <2>5
    <3>3. k < Nth(S, n) => c < Cardinality(Below(Nth(S, n)))
      BY <2>4, <2>5
    <3> QED  BY <2>4, <3>1, <3>2, <3>3
  <2>7. Nth(S, n) \in Nat /\ k \in Nat
    BY <2>4
  <2> QED  BY <2>3, <2>6, <2>7
<1> QED  BY <1>5, <1>6

-------------------------------------------------------------------------------
(* What is retained of a list.                                             *)

\* What is retained is what was there, once for each place, and nothing else.
LEMMA Retained ==
    ASSUME NEW list, NEW at, at \subseteq Nat, IsFiniteSet(at),
           NEW T, \A k \in at : list[k] \in T
    PROVE  /\ Retain(list, at) \in Seq(T)
           /\ \A n \in DOMAIN Retain(list, at) :
                 Nth(at, n) \in at /\ Retain(list, at)[n] = list[Nth(at, n)]
           /\ \A k \in at : \E n \in DOMAIN Retain(list, at) : Nth(at, n) = k
           /\ \A m, n \in DOMAIN Retain(list, at) : Nth(at, m) = Nth(at, n) => m = n
<1>1. Cardinality(at) \in Nat
  BY FS_CardinalityType
<1>2. DOMAIN Retain(list, at) = 1..Cardinality(at)
  BY DEF Retain
<1>3. \A n \in 1..Cardinality(at) :
        Nth(at, n) \in at /\ Retain(list, at)[n] = list[Nth(at, n)]
  BY NthOf DEF Retain
<1>4. Retain(list, at) \in Seq(T)
  <2>1. Retain(list, at) \in [1..Cardinality(at) -> T]
    BY <1>3 DEF Retain
  <2> QED  BY <1>1, <2>1
<1>5. \A m, n \in 1..Cardinality(at) : Nth(at, m) = Nth(at, n) => m = n
  <2> TAKE m, n \in 1..Cardinality(at)
  <2> HAVE Nth(at, m) = Nth(at, n)
  <2>1. \A i \in 1..Cardinality(at) : Cardinality({j \in at : j < Nth(at, i)}) = i - 1
    BY NthOf
  <2>2. m - 1 = Cardinality({j \in at : j < Nth(at, m)})
    BY <2>1
  <2>3. n - 1 = Cardinality({j \in at : j < Nth(at, n)})
    BY <2>1
  <2>4. m - 1 = n - 1
    BY <2>2, <2>3
  <2> QED  BY <2>4, <1>1
<1> QED  BY <1>2, <1>3, <1>4, <1>5, NthOf

-------------------------------------------------------------------------------
(* Findings in lists.                                                      *)

Items == [id : Findings, at : Spans, sev : Severities,
          status : {"none", "accepted", "rejected", "uncertain"},
          merged : Findings \cup {NotMerged}]

\* No two findings of the list have one identity.
Distinct(list) == \A i, j \in DOMAIN list : list[i].id = list[j].id => i = j

\* What a candidate is.
LEMMA CandidateIs ==
    /\ \A c \in Candidates :
          \E f \in Findings, at \in Spans, s \in Severities : c = Finding(f, at, s, "none")
    /\ \A f \in Findings, at \in Spans, s \in Severities : Finding(f, at, s, "none") \in Candidates
BY DEF Candidates

\* The worse of two severities is one of them.
LEMMA WorseOf ==
    ASSUME NEW a \in Severities, NEW b \in Severities
    PROVE  Max({a, b}) \in Severities
<1>1. a \in Nat /\ b \in Nat
  BY SeveritiesAssumption
<1>2. \E x \in {a, b} : \A y \in {a, b} : x >= y
  <2>1. CASE a >= b
    BY <1>1, <2>1
  <2>2. CASE b >= a
    BY <1>1, <2>2
  <2> QED  BY <1>1, <2>1, <2>2
<1>3. Max({a, b}) \in {a, b}
  BY <1>2 DEF Max
<1> QED  BY <1>3

\* A candidate that joins the list leaves a list of candidates.
LEMMA JoinedType ==
    ASSUME NEW out \in Seq(Candidates), NEW c \in Candidates
    PROVE  Joined(out, c) \in Seq(Candidates)
<1> DEFINE alike == {i \in DOMAIN out : Alike(out[i], c)}
<1>1. CASE alike = {}
  <2>1. Joined(out, c) = Append(out, c)
    BY <1>1 DEF Joined
  <2> QED  BY <2>1
<1>2. CASE alike # {}
  <2> DEFINE m == Min(alike)
  <2> DEFINE new == [out[m] EXCEPT !.sev = Max({out[m].sev, c.sev})]
  <2>1. m \in DOMAIN out
    BY <1>2, LeastOf
  <2>2. out[m] \in Candidates
    BY <2>1
  <2>3. PICK f \in Findings, at \in Spans, s \in Severities : out[m] = Finding(f, at, s, "none")
    BY <2>2, CandidateIs
  <2>4. c.sev \in Severities /\ out[m].sev \in Severities
    BY <2>3 DEF Candidates, Finding
  <2>5. Max({out[m].sev, c.sev}) \in Severities
    BY <2>4, WorseOf
  <2>6. new = Finding(f, at, Max({out[m].sev, c.sev}), "none")
    BY <2>3 DEF Finding
  <2>7. new \in Candidates
    BY <2>5, <2>6, CandidateIs
  <2>8. Joined(out, c) = [out EXCEPT ![m] = new]
    BY <1>2 DEF Joined
  <2> HIDE DEF m, new
  <2> QED  BY <2>1, <2>7, <2>8
<1> QED  BY <1>1, <1>2

\* Collapse returns candidates.
LEMMA CollapseType ==
    ASSUME NEW list \in Seq(Candidates)
    PROVE  Collapse(list) \in Seq(Candidates)
<1> DEFINE L == Len(list)
<1> DEFINE Upto(m, g) ==
      g = [n \in 0..m |-> IF n = 0 THEN <<>> ELSE Joined(g[n - 1], list[n])]
<1> DEFINE out == CHOOSE g : Upto(L, g)
<1>1. Collapse(list) = out[L]
  BY DEF Collapse
<1>2. L \in Nat /\ \A n \in 1..L : list[n] \in Candidates
  OBVIOUS
<1>3. \E g : Upto(L, g)
  <2> DEFINE S == {m \in Nat : \E g : Upto(m, g)}
  <2>1. 0 \in S
    <3> DEFINE g == [n \in 0..0 |-> <<>>]
    <3>1. Upto(0, g)
      OBVIOUS
    <3> QED  BY <3>1
  <2>2. ASSUME NEW m \in Nat, m \in S  PROVE m + 1 \in S
    <3>1. PICK g : Upto(m, g)
      BY <2>2
    <3> DEFINE h == [n \in 0..m + 1 |-> IF n = m + 1 THEN Joined(g[m], list[m + 1]) ELSE g[n]]
    <3>2. \A n \in 0..m : h[n] = g[n]
      OBVIOUS
    <3>3. ASSUME NEW n \in 0..m + 1
          PROVE  h[n] = IF n = 0 THEN <<>> ELSE Joined(h[n - 1], list[n])
      <4>1. CASE n = m + 1
        BY <3>2, <4>1
      <4>2. CASE n \in 0..m
        <5>1. n = 0 \/ n - 1 \in 0..m
          BY <4>2
        <5>2. g[n] = IF n = 0 THEN <<>> ELSE Joined(g[n - 1], list[n])
          BY <3>1, <4>2
        <5> HIDE DEF h
        <5> QED  BY <3>2, <4>2, <5>1, <5>2
      <4> QED  BY <4>1, <4>2
    <3>4. Upto(m + 1, h)
      <4>1. h = [n \in 0..m + 1 |-> h[n]]
        OBVIOUS
      <4> HIDE DEF h
      <4> QED  BY <3>3, <4>1
    <3> HIDE DEF Upto, h
    <3> QED  BY <3>4
  <2> HIDE DEF S
  <2>3. Nat \subseteq S
    BY <2>1, <2>2, AllNumbers
  <2> QED  BY <1>2, <2>3 DEF S
<1>4. Upto(L, out)
  BY <1>3
<1> HIDE DEF out
<1>5. /\ out[0] = <<>>
      /\ \A n \in Nat : n + 1 \in 1..L => out[n + 1] = Joined(out[n], list[n + 1])
  BY <1>2, <1>4
<1> HIDE DEF Upto
<1> DEFINE S == {m \in Nat : m \in 0..L => out[m] \in Seq(Candidates)}
<1>6. 0 \in S
  <2>1. <<>> \in Seq(Candidates)
    OBVIOUS
  <2> QED  BY <1>5, <2>1
<1>7. ASSUME NEW m \in Nat, m \in S  PROVE m + 1 \in S
  <2> SUFFICES ASSUME m + 1 \in 1..L  PROVE out[m + 1] \in Seq(Candidates)
    BY <1>2
  <2>1. out[m] \in Seq(Candidates) /\ list[m + 1] \in Candidates
    BY <1>2, <1>7
  <2> QED  BY <1>5, <2>1, JoinedType
<1> HIDE DEF S
<1>8. Nat \subseteq S
  BY <1>6, <1>7, AllNumbers
<1>9. out[L] \in Seq(Candidates)
  BY <1>2, <1>8 DEF S
<1> QED  BY <1>1, <1>9

\* The places in a list are finitely many numbers.
LEMMA PlacesIn ==
    ASSUME NEW T, NEW list \in Seq(T)
    PROVE  /\ DOMAIN list \subseteq Nat
           /\ \A at \in SUBSET DOMAIN list : IsFiniteSet(at) /\ at \subseteq Nat
<1>1. DOMAIN list = 1..Len(list) /\ Len(list) \in Nat
  OBVIOUS
<1>2. IsFiniteSet(DOMAIN list)
  BY <1>1, FS_Interval
<1> QED  BY <1>1, <1>2, FS_Subset

\* The canonical list: each of its findings is one of the list, its identities are
\* those of the list, each once, and an accepted finding stands for its identity.
LEMMA CanonicalList ==
    ASSUME NEW list \in Seq(Items)
    PROVE  /\ Canonical(list) \in Seq(Items)
           /\ Distinct(Canonical(list))
           /\ \A n \in DOMAIN Canonical(list) : \E i \in DOMAIN list : Canonical(list)[n] = list[i]
           /\ \A i \in DOMAIN list : \E n \in DOMAIN Canonical(list) :
                 /\ Canonical(list)[n].id = list[i].id
                 /\ IsPublishable(list[i]) => IsPublishable(Canonical(list)[n])
<1> DEFINE firsts == Firsts(list)
<1> DEFINE standing == [i \in DOMAIN list |-> Standing(list, i)]
<1> DEFINE out == Canonical(list)
<1>1. out = Retain(standing, firsts)
  BY DEF Canonical
<1>2. firsts \subseteq DOMAIN list
  BY DEF Firsts
<1>3. firsts \subseteq Nat /\ IsFiniteSet(firsts)
  BY <1>2, PlacesIn
<1>4. ASSUME NEW i \in DOMAIN list
      PROVE  \E j \in SameId(list, i) :
                /\ Standing(list, i) = list[j]
                /\ (\E k \in SameId(list, i) : IsPublishable(list[k])) => IsPublishable(list[j])
  <2> DEFINE accepted == {j \in SameId(list, i) : IsPublishable(list[j])}
  <2>1. i \in SameId(list, i)
    BY DEF SameId
  <2>2. CASE accepted = {}
    <3>1. Standing(list, i) = list[i]
      BY <2>2 DEF Standing
    <3> QED  BY <2>1, <2>2, <3>1
  <2>3. CASE accepted # {}
    <3>1. accepted \subseteq Nat
      BY PlacesIn DEF SameId
    <3>2. Min(accepted) \in accepted
      BY <2>3, <3>1, LeastOf
    <3>3. Standing(list, i) = list[Min(accepted)]
      BY <2>3 DEF Standing
    <3> HIDE DEF accepted
    <3>4. Min(accepted) \in SameId(list, i) /\ IsPublishable(list[Min(accepted)])
      BY <3>2 DEF accepted
    <3> QED  BY <3>3, <3>4
  <2> QED  BY <2>2, <2>3
<1>5. \A i \in DOMAIN list : standing[i] \in Items /\ standing[i].id = list[i].id
  BY <1>4 DEF SameId
<1>6. \A i \in DOMAIN list : \E j \in firsts : list[j].id = list[i].id
  <2> TAKE i \in DOMAIN list
  <2>1. i \in SameId(list, i) /\ SameId(list, i) \subseteq DOMAIN list
    BY DEF SameId
  <2>2. SameId(list, i) \subseteq Nat
    BY <2>1, PlacesIn
  <2> DEFINE j == Min(SameId(list, i))
  <2>3. j \in SameId(list, i) /\ \A k \in SameId(list, i) : j <= k
    BY <2>1, <2>2, LeastOf
  <2> HIDE DEF j
  <2>4. SameId(list, j) = SameId(list, i)
    BY <2>3 DEF SameId
  <2> QED  BY <2>1, <2>3, <2>4 DEF Firsts, SameId
<1>7. \A i, j \in firsts : list[i].id = list[j].id => i = j
  <2> TAKE i, j \in firsts
  <2> HAVE list[i].id = list[j].id
  <2>1. i \in SameId(list, j) /\ j \in SameId(list, i)
    BY <1>2 DEF SameId
  <2>2. i <= j /\ j <= i
    BY <2>1 DEF Firsts
  <2> QED  BY <1>3, <2>2
<1> HIDE DEF standing, firsts, out
<1>8. /\ out \in Seq(Items)
      /\ \A n \in DOMAIN out : Nth(firsts, n) \in firsts /\ out[n] = standing[Nth(firsts, n)]
      /\ \A k \in firsts : \E n \in DOMAIN out : Nth(firsts, n) = k
      /\ \A m, n \in DOMAIN out : Nth(firsts, m) = Nth(firsts, n) => m = n
  <2>1. \A k \in firsts : standing[k] \in Items
    BY <1>2, <1>5
  <2>2. /\ Retain(standing, firsts) \in Seq(Items)
        /\ \A n \in DOMAIN Retain(standing, firsts) :
              Nth(firsts, n) \in firsts
              /\ Retain(standing, firsts)[n] = standing[Nth(firsts, n)]
        /\ \A k \in firsts : \E n \in DOMAIN Retain(standing, firsts) : Nth(firsts, n) = k
        /\ \A m, n \in DOMAIN Retain(standing, firsts) :
              Nth(firsts, m) = Nth(firsts, n) => m = n
    BY <1>3, <2>1, Retained, Zenon
  <2> QED  BY <1>1, <2>2, Zenon
<1>9. Distinct(out)
  BY <1>2, <1>5, <1>7, <1>8 DEF Distinct
<1>10. \A n \in DOMAIN out : \E i \in DOMAIN list : out[n] = list[i]
  <2> TAKE n \in DOMAIN out
  <2>1. Nth(firsts, n) \in DOMAIN list /\ out[n] = standing[Nth(firsts, n)]
    BY <1>2, <1>8
  <2> QED  BY <1>4, <2>1 DEF standing, SameId
<1>11. ASSUME NEW i \in DOMAIN list
       PROVE  \E n \in DOMAIN out : /\ out[n].id = list[i].id
                                    /\ IsPublishable(list[i]) => IsPublishable(out[n])
  <2>1. PICK j \in firsts : list[j].id = list[i].id
    BY <1>6
  <2>2. PICK n \in DOMAIN out : Nth(firsts, n) = j
    BY <1>8
  <2>3. out[n] = standing[j] /\ j \in DOMAIN list
    BY <1>2, <1>8, <2>2
  <2>4. out[n].id = list[i].id
    BY <1>5, <2>1, <2>3
  <2>5. i \in SameId(list, j)
    BY <2>1 DEF SameId
  <2>6. IsPublishable(list[i]) => IsPublishable(out[n])
    BY <1>4, <2>3, <2>5 DEF standing
  <2> QED  BY <2>4, <2>6
<1> QED  BY <1>8, <1>9, <1>10, <1>11 DEF out

-------------------------------------------------------------------------------
(* The invariant.                                                          *)

Types ==
    /\ most \in Nat
    /\ book \in [Findings -> Entries] /\ start \in [Findings -> Entries]
    /\ rechecks \in [Findings -> Opinions \cup {NoOpinion}]
    /\ items \in Seq(Items)
    /\ low \subseteq Findings
    /\ places \in [Findings -> {"none", "lower", "inline", "outside"}]
    /\ reopened \subseteq Findings

\* The state is the one the run started from, and later that one rechecked.
BookInv ==
    /\ stage = "prepare" => book = start
    /\ stage \in {"investigate", "validate", "dedup", "anchor"} => \A f \in Findings :
          /\ IsTracked(start, f) <=> rechecks[f] # NoOpinion
          /\ book[f] = IF IsTracked(start, f)
                       THEN [start[f] EXCEPT !.status = RecheckStatus(rechecks[f].status)]
                       ELSE start[f]

\* What goes to the validators is new, or accepted again and not posted yet.
CandidatesInv ==
    stage = "validate" => \A i \in DOMAIN items : IsNews(items[i]) /\ items[i].merged = NotMerged

\* After the verdicts each identity is in the list once, what was accepted again is
\* in it as accepted or below the threshold, and what is below it is tracked.
ListInv ==
    stage \in {"dedup", "anchor"} =>
        /\ Distinct(items)
        /\ \A i \in DOMAIN items :
              /\ IsNews(items[i]) /\ items[i].status # "none"
              /\ items[i].id \in Reentering => items[i].status = "accepted"
        /\ \A f \in Reentering : f \in low \/ Own(f) # {}
        /\ \A f \in low : IsTracked(book, f)

\* What is merged was accepted; it was merged into a carried finding, or into one
\* that is publishable and no less severe.
MergedInv ==
    /\ stage = "dedup" => \A i \in DOMAIN items : items[i].merged = NotMerged
    /\ stage = "anchor" => \A i \in DOMAIN items : items[i].merged # NotMerged =>
          /\ items[i].status = "accepted"
          /\ \/ items[i].merged \in Carried(book, items)
             \/ \E j \in DOMAIN items :
                   /\ items[j].id = items[i].merged
                   /\ IsPublishable(items[j])
                   /\ items[i].sev <= items[j].sev

IInv == Types /\ BookInv /\ CandidatesInv /\ ListInv /\ MergedInv

-------------------------------------------------------------------------------
(* Recheck and Investigate.                                                *)

\* A finding in the list is one of the items.
LEMMA ItemTypes ==
    ASSUME NEW list \in Seq(Items), NEW i \in DOMAIN list
    PROVE  /\ list[i] \in Items /\ list[i].id \in Findings /\ list[i].sev \in Nat
           /\ list[i].id # NotMerged
<1>1. list[i] \in Items
  OBVIOUS
<1> QED  BY <1>1, FindingsAssumption, SeveritiesAssumption DEF Items, NotMerged

\* What a run starts from satisfies the invariant.
LEMMA InvAtStart ==
    ASSUME FindingsInit  PROVE IInv
<1>1. book \in [Findings -> Entries] /\ most \in Nat
  BY InputsAssumption DEF FindingsInit
<1>2. items \in Seq(Items) /\ items = <<>>
  BY DEF FindingsInit
<1>3. Types
  BY <1>1, <1>2 DEF FindingsInit, Types
<1>4. BookInv /\ CandidatesInv /\ ListInv /\ MergedInv
  BY DEF FindingsInit, BookInv, CandidatesInv, ListInv, MergedInv
<1> QED  BY <1>3, <1>4 DEF IInv

\* Opinions have a status of their own.
LEMMA OpinionIs ==
    ASSUME NEW o \in Opinions \cup {NoOpinion}
    PROVE  /\ o.status \in {"none", "accepted", "rejected", "uncertain"}
           /\ o = NoOpinion <=> o.status = "none"
           /\ o.status = "accepted" => o.sev \in Severities /\ o.at \in Spans
<1>1. o \in [status : {"accepted"}, sev : Severities, at : Spans]
      \/ o \in [status : {"rejected", "uncertain"}] \/ o = [status |-> "none"]
  BY DEF Opinions, NoOpinion
<1> QED  BY <1>1 DEF NoOpinion

\* Entries have a status and a mark.
LEMMA EntryIs ==
    ASSUME NEW e \in Entries
    PROVE  /\ e.status \in {"absent", "open", "uncertain", "resolved", "rejected"}
           /\ e.posted \in BOOLEAN
           /\ e = [status |-> e.status, posted |-> e.posted]
           /\ e.status = "absent" => e = Untracked
<1>1. CASE e = [status |-> "absent", posted |-> FALSE]
  BY <1>1 DEF Untracked
<1>2. CASE e \in [status : {"open", "uncertain", "resolved", "rejected"}, posted : BOOLEAN]
  BY <1>2
<1> QED  BY <1>1, <1>2 DEF Entries, Untracked

\* The recheck moves the state as the invariant says.
LEMMA RecheckKeepsInv ==
    ASSUME IInv, Recheck  PROVE IInv'
<1> USE DEF IInv
<1>1. rechecks' \in [Findings -> Opinions \cup {NoOpinion}]
  BY DEF Recheck
<1>2. book' \in [Findings -> Entries]
  <2> SUFFICES ASSUME NEW f \in Findings, IsTracked(book, f)
               PROVE  [book[f] EXCEPT !.status = RecheckStatus(rechecks'[f].status)] \in Entries
    BY DEF Recheck, Types
  <2>1. book[f] \in Entries /\ rechecks'[f] # NoOpinion
    BY DEF Types, Recheck
  <2>2. rechecks'[f].status \in {"accepted", "rejected", "uncertain"}
    BY <1>1, <2>1, OpinionIs
  <2>3. RecheckStatus(rechecks'[f].status) \in {"open", "resolved", "uncertain"}
    BY <2>2 DEF RecheckStatus
  <2>4. book[f] = [status |-> book[f].status, posted |-> book[f].posted]
        /\ book[f].posted \in BOOLEAN
    BY <2>1, EntryIs
  <2> QED  BY <2>3, <2>4 DEF Entries
<1>3. Types'
  BY <1>1, <1>2 DEF Recheck, Types
<1>4. BookInv'
  <2>1. book = start
    BY DEF Recheck, BookInv
  <2> QED  BY <2>1 DEF Recheck, BookInv, IsTracked
<1>5. CandidatesInv' /\ ListInv' /\ MergedInv'
  BY DEF Recheck, CandidatesInv, ListInv, MergedInv
<1> QED  BY <1>3, <1>4, <1>5

\* What is retained of the collapsed candidates is news.
LEMMA InvestigateKeepsInv ==
    ASSUME IInv, Investigate  PROVE IInv'
<1> USE DEF IInv
<1>0. PICK n \in 0..most : \E list \in [1..n -> Candidates] :
        items' = Retain(Collapse(list),
                        {i \in DOMAIN Collapse(list) :
                            IsSevere(Collapse(list)[i]) /\ IsNews(Collapse(list)[i])})
  BY DEF Investigate
<1>1. PICK list \in [1..n -> Candidates] :
        items' = Retain(Collapse(list),
                        {i \in DOMAIN Collapse(list) :
                            IsSevere(Collapse(list)[i]) /\ IsNews(Collapse(list)[i])})
  BY <1>0
<1>2. list \in Seq(Candidates)
  BY <1>1 DEF Types
<1> DEFINE out == Collapse(list)
<1> DEFINE kept == {i \in DOMAIN out : IsSevere(out[i]) /\ IsNews(out[i])}
<1>3. out \in Seq(Candidates)
  BY <1>2, CollapseType
<1>4. items' = Retain(out, kept)
  BY <1>1
<1> HIDE DEF out
<1>5. kept \subseteq Nat /\ IsFiniteSet(kept)
  BY <1>3, PlacesIn
<1>6. ASSUME NEW c \in Candidates  PROVE c \in Items /\ c.merged = NotMerged
  <2>1. PICK f \in Findings, at \in Spans, s \in Severities : c = Finding(f, at, s, "none")
    BY CandidateIs
  <2> QED  BY <2>1 DEF Finding, Items
<1>7. \A k \in kept : out[k] \in {c \in Items : IsNews(c) /\ c.merged = NotMerged}
  BY <1>3, <1>6
<1>8. items' \in Seq({c \in Items : IsNews(c) /\ c.merged = NotMerged})
  BY <1>4, <1>5, <1>7, Retained
<1>9. items' \in Seq(Items) /\ \A i \in DOMAIN items' : IsNews(items'[i]) /\ items'[i].merged = NotMerged
  BY <1>8
<1>10. Types'
  BY <1>9 DEF Investigate, Types
<1>11. CandidatesInv'
  BY <1>9 DEF Investigate, CandidatesInv, IsNews, IsTracked, Reentering, HasPosted
<1>12. BookInv' /\ ListInv' /\ MergedInv'
  BY DEF Investigate, BookInv, ListInv, MergedInv, IsTracked
<1> QED  BY <1>10, <1>11, <1>12

-------------------------------------------------------------------------------
(* Validate.                                                               *)

\* What comes back is on the list of the reentered, as accepted.
LEMMA ReenteredList ==
    ASSUME IInv
    PROVE  /\ Reentered \in Seq(Items)
           /\ \A n \in DOMAIN Reentered :
                 Reentered[n].id \in Reentering /\ IsPublishable(Reentered[n])
           /\ \A f \in Reentering : \E n \in DOMAIN Reentered : Reentered[n].id = f
<1> DEFINE Back(f) == Finding(f, rechecks[f].at, rechecks[f].sev, "accepted")
<1> DEFINE of == [f \in Reentering |-> Back(f)]
<1>1. Reentering \subseteq Nat /\ IsFiniteSet(Reentering) /\ Reentering \subseteq Findings
  BY FindingsAssumption, FS_Subset DEF Reentering
<1>2. ASSUME NEW f \in Reentering
      PROVE  Back(f) \in Items /\ Back(f).id = f /\ IsPublishable(Back(f))
  <2>1. rechecks[f] \in Opinions \cup {NoOpinion} /\ rechecks[f].status = "accepted"
    BY DEF IInv, Types, Reentering
  <2>2. rechecks[f].sev \in Severities /\ rechecks[f].at \in Spans
    BY <2>1, OpinionIs
  <2> QED  BY <1>1, <2>2 DEF Finding, Items, IsPublishable
<1>3. Reentered = Retain(of, Reentering)
  BY DEF Reentered
<1> DEFINE Ok == {c \in Items : IsPublishable(c)}
<1>4. \A f \in Reentering : of[f] \in Ok /\ of[f].id = f
  BY <1>2
<1> HIDE DEF of
<1>5. /\ Retain(of, Reentering) \in Seq(Ok)
      /\ \A n \in DOMAIN Retain(of, Reentering) :
            Nth(Reentering, n) \in Reentering
            /\ Retain(of, Reentering)[n] = of[Nth(Reentering, n)]
      /\ \A k \in Reentering : \E n \in DOMAIN Retain(of, Reentering) : Nth(Reentering, n) = k
  BY <1>1, <1>4, Retained, Zenon
<1>6. Reentered \in Seq(Items)
  BY <1>3, <1>5
<1>7. \A n \in DOMAIN Reentered : IsPublishable(Reentered[n])
  BY <1>3, <1>5
<1>8. \A n \in DOMAIN Reentered : Reentered[n].id \in Reentering
  BY <1>3, <1>4, <1>5
<1>9. \A f \in Reentering : \E n \in DOMAIN Reentered : Reentered[n].id = f
  BY <1>3, <1>4, <1>5
<1> QED  BY <1>6, <1>7, <1>8, <1>9

\* A finding that is accepted again is open.
LEMMA AcceptedIsOpen ==
    ASSUME IInv, stage \in {"validate", "dedup", "anchor"}, NEW f \in Findings,
           rechecks[f].status = "accepted"
    PROVE  book[f].status = "open" /\ IsTracked(book, f) /\ IsTracked(start, f)
<1>1. rechecks[f] # NoOpinion
  BY DEF NoOpinion
<1>2. IsTracked(start, f)
  BY <1>1 DEF IInv, BookInv
<1>3. book[f] = [start[f] EXCEPT !.status = RecheckStatus(rechecks[f].status)]
  BY <1>2 DEF IInv, BookInv
<1>4. start[f] = [status |-> start[f].status, posted |-> start[f].posted]
  BY EntryIs DEF IInv, Types
<1>5. RecheckStatus(rechecks[f].status) = "open"
  BY DEF RecheckStatus
<1> HIDE DEF RecheckStatus
<1>6. book[f].status = "open"
  BY <1>3, <1>4, <1>5
<1> QED  BY <1>2, <1>6 DEF IsTracked, Tracked

\* A judged finding has a verdict, and a severity of its own.
LEMMA JudgedIs ==
    ASSUME NEW item, NEW c \in Judged(item)
    PROVE  \E v \in {"accepted", "rejected", "uncertain"}, s \in Severities :
              c = WithVerdict(item, v, s)
BY DEF Judged

\* The validated list: each finding on it was judged or is back, has a verdict, and
\* is there once; what is back is accepted.
LEMMA ValidatedList ==
    ASSUME IInv, stage = "validate",
           NEW judged \in [DOMAIN items -> UNION {Judged(items[i]) : i \in DOMAIN items}],
           \A i \in DOMAIN items : judged[i] \in Judged(items[i])
    PROVE  LET all == Canonical(judged \o Reentered) IN
           /\ all \in Seq(Items)
           /\ Distinct(all)
           /\ \A n \in DOMAIN all : /\ IsNews(all[n])
                                    /\ all[n].status # "none"
                                    /\ all[n].merged = NotMerged
                                    /\ all[n].id \in Reentering => all[n].status = "accepted"
           /\ \A f \in Reentering : \E n \in DOMAIN all : all[n].id = f
<1> DEFINE list == judged \o Reentered
<1> DEFINE all == Canonical(list)
<1> DEFINE Good(c) == IsNews(c) /\ c.status # "none" /\ c.merged = NotMerged
<1>0. items \in Seq(Items)
  BY DEF IInv, Types
<1>1. ASSUME NEW i \in DOMAIN items
      PROVE  judged[i] \in Items /\ Good(judged[i])
  <2>1. PICK v \in {"accepted", "rejected", "uncertain"}, s \in Severities :
          judged[i] = WithVerdict(items[i], v, s)
    <3>1. judged[i] \in Judged(items[i])
      OBVIOUS
    <3> QED  BY <3>1, JudgedIs
  <2>2. items[i] \in Items
    BY <1>0
  <2>3. IsNews(items[i]) /\ items[i].merged = NotMerged
    BY DEF IInv, CandidatesInv
  <2>4. judged[i] \in Items
    BY <2>1, <2>2 DEF Items, WithVerdict
  <2>5. judged[i].id = items[i].id /\ judged[i].status = v /\ judged[i].merged = NotMerged
    BY <2>1, <2>2, <2>3 DEF Items, WithVerdict
  <2> QED  BY <2>3, <2>4, <2>5 DEF IsNews
<1>2. judged \in Seq(Items) /\ DOMAIN judged = DOMAIN items
  <2>1. DOMAIN items = 1..Len(items) /\ Len(items) \in Nat
    BY <1>0
  <2>2. judged \in [1..Len(items) -> Items]
    BY <1>1, <2>1
  <2> QED  BY <2>1, <2>2
<1>3. \A n \in DOMAIN Reentered : Good(Reentered[n])
  BY ReenteredList DEF IsPublishable, IsNews
<1>4. list \in Seq(Items)
  BY <1>2, ReenteredList
<1>5. /\ \A i \in DOMAIN list : Good(list[i])
      /\ \A n \in DOMAIN Reentered : \E i \in DOMAIN list : list[i] = Reentered[n]
  <2> HIDE DEF Good
  <2>1. /\ Len(list) = Len(judged) + Len(Reentered)
        /\ \A i \in 1..Len(list) :
              list[i] = IF i <= Len(judged) THEN judged[i] ELSE Reentered[i - Len(judged)]
        /\ Len(judged) \in Nat /\ Len(Reentered) \in Nat
        /\ DOMAIN judged = 1..Len(judged) /\ DOMAIN Reentered = 1..Len(Reentered)
        /\ DOMAIN list = 1..Len(list)
    BY <1>2, ReenteredList
  <2> HIDE DEF list
  <2>2. ASSUME NEW i \in DOMAIN list  PROVE Good(list[i])
    <3>1. CASE i <= Len(judged)
      BY <1>1, <1>2, <2>1, <3>1
    <3>2. CASE ~(i <= Len(judged))
      <4>1. i - Len(judged) \in DOMAIN Reentered
        BY <2>1, <3>2
      <4> QED  BY <1>3, <2>1, <3>2, <4>1
    <3> QED  BY <3>1, <3>2
  <2>3. ASSUME NEW n \in DOMAIN Reentered
        PROVE  /\ Len(judged) + n \in DOMAIN list
               /\ list[Len(judged) + n] = Reentered[n]
    <3> DEFINE i == Len(judged) + n
    <3>1. i \in 1..Len(list) /\ ~(i <= Len(judged)) /\ i - Len(judged) = n
      BY <2>1
    <3> HIDE DEF i
    <3>2. list[i] = Reentered[n]
      BY <2>1, <3>1
    <3> QED  BY <2>1, <3>1, <3>2 DEF i
  <2> QED  BY <2>2, <2>3
<1> HIDE DEF list
<1>6. /\ all \in Seq(Items) /\ Distinct(all)
      /\ \A n \in DOMAIN all : \E i \in DOMAIN list : all[n] = list[i]
      /\ \A i \in DOMAIN list : \E n \in DOMAIN all :
            all[n].id = list[i].id /\ (IsPublishable(list[i]) => IsPublishable(all[n]))
  BY <1>4, CanonicalList
<1> HIDE DEF all
<1>7. \A n \in DOMAIN all : Good(all[n])
  BY <1>5, <1>6
<1>8. \A f \in Reentering : \E n \in DOMAIN all : all[n].id = f /\ IsPublishable(all[n])
  <2> TAKE f \in Reentering
  <2>1. PICK m \in DOMAIN Reentered : Reentered[m].id = f /\ IsPublishable(Reentered[m])
    BY ReenteredList
  <2>2. PICK i \in DOMAIN list : list[i] = Reentered[m]
    BY <1>5
  <2> QED  BY <1>6, <2>1, <2>2
<1>9. \A n \in DOMAIN all : all[n].id \in Reentering => all[n].status = "accepted"
  BY <1>6, <1>8 DEF Distinct, IsPublishable
<1> QED  BY <1>6, <1>7, <1>8, <1>9 DEF all, list

\* The verdicts and the threshold leave a list as the invariant says.
LEMMA ValidateKeepsInv ==
    ASSUME IInv, Validate  PROVE IInv'
<1>1. PICK judged \in [DOMAIN items -> UNION {Judged(items[i]) : i \in DOMAIN items}] :
        LET all == Canonical(judged \o Reentered) IN
        /\ \A i \in DOMAIN items : judged[i] \in Judged(items[i])
        /\ items' = Retain(all, {i \in DOMAIN all : IsSevere(all[i])})
        /\ low' = {f \in Findings : rechecks[f].status = "accepted"
                                    /\ rechecks[f].sev < MinSeverity}
                  \cup {f \in Findings : IsTracked(book, f) /\ \E i \in DOMAIN all :
                                    all[i].id = f /\ ~IsSevere(all[i])}
  BY Zenon DEF Validate
<1> DEFINE all == Canonical(judged \o Reentered)
<1> DEFINE kept == {i \in DOMAIN all : IsSevere(all[i])}
<1>2. /\ items' = Retain(all, kept)
      /\ low' = {f \in Findings : rechecks[f].status = "accepted"
                                  /\ rechecks[f].sev < MinSeverity}
                \cup {f \in Findings : IsTracked(book, f) /\ \E i \in DOMAIN all :
                                  all[i].id = f /\ ~IsSevere(all[i])}
  BY <1>1
<1>3. /\ stage = "validate" /\ stage' = "dedup"
      /\ UNCHANGED <<change, most, book, rechecks, places, reopened, start>>
  BY DEF Validate
<1>4. /\ all \in Seq(Items) /\ Distinct(all)
      /\ \A n \in DOMAIN all : /\ IsNews(all[n])
                               /\ all[n].status # "none"
                               /\ all[n].merged = NotMerged
                               /\ all[n].id \in Reentering => all[n].status = "accepted"
      /\ \A f \in Reentering : \E n \in DOMAIN all : all[n].id = f
  BY <1>1, <1>3, ValidatedList, Zenon
<1> HIDE DEF all
<1>5. kept \subseteq Nat /\ IsFiniteSet(kept) /\ \A k \in kept : all[k] \in Items
  BY <1>4, PlacesIn
<1>6. /\ items' \in Seq(Items)
      /\ \A n \in DOMAIN items' : Nth(kept, n) \in kept /\ items'[n] = all[Nth(kept, n)]
      /\ \A k \in kept : \E n \in DOMAIN items' : Nth(kept, n) = k
      /\ \A m, n \in DOMAIN items' : Nth(kept, m) = Nth(kept, n) => m = n
  <2> HIDE DEF kept
  <2>1. /\ Retain(all, kept) \in Seq(Items)
        /\ \A n \in DOMAIN Retain(all, kept) :
              Nth(kept, n) \in kept /\ Retain(all, kept)[n] = all[Nth(kept, n)]
        /\ \A k \in kept : \E n \in DOMAIN Retain(all, kept) : Nth(kept, n) = k
        /\ \A m, n \in DOMAIN Retain(all, kept) : Nth(kept, m) = Nth(kept, n) => m = n
    BY <1>5, Retained, Zenon
  <2>2. items' = Retain(all, kept)
    BY <1>2
  <2> QED  BY <2>1, <2>2, Zenon
<1>7. Types'
  <2>1. low' \subseteq Findings
    BY <1>2
  <2> QED  BY <1>3, <1>6, <2>1 DEF IInv, Types
<1>8. BookInv'
  BY <1>3 DEF IInv, BookInv, IsTracked
<1>9. Reentering' = Reentering /\ \A c : IsNews(c)' <=> IsNews(c)
  BY <1>3 DEF Reentering, HasPosted, IsNews, IsTracked
<1>10. Distinct(items')
  <2>1. kept \subseteq DOMAIN all
    OBVIOUS
  <2> HIDE DEF kept
  <2> QED  BY <1>4, <1>6, <2>1 DEF Distinct
<1>11. \A i \in DOMAIN items' :
          /\ IsNews(items'[i]) /\ items'[i].status # "none" /\ items'[i].merged = NotMerged
          /\ items'[i].id \in Reentering => items'[i].status = "accepted"
  <2>1. kept \subseteq DOMAIN all
    OBVIOUS
  <2> HIDE DEF kept
  <2>2. \A i \in DOMAIN items' : \E n \in DOMAIN all : items'[i] = all[n]
    BY <1>6, <2>1
  <2> QED  BY <1>4, <2>2
<1>12. ASSUME NEW f \in Reentering
       PROVE  f \in low' \/ \E i \in DOMAIN items' : items'[i].id = f
  <2>1. PICK n \in DOMAIN all : all[n].id = f
    BY <1>4
  <2>2. CASE IsSevere(all[n])
    <3>1. n \in kept
      BY <2>2
    <3> HIDE DEF kept
    <3>2. PICK m \in DOMAIN items' : Nth(kept, m) = n
      BY Zenon, <1>6, <3>1
    <3>3. items'[m] = all[n]
      BY Zenon, <1>6, <3>2
    <3> QED  BY Zenon, <2>1, <3>2, <3>3
  <2>3. CASE ~IsSevere(all[n])
    <3>1. f \in Findings /\ IsTracked(book, f)
      BY <1>3, AcceptedIsOpen DEF Reentering
    <3> QED  BY <1>2, <2>1, <2>3, <3>1
  <2> QED  BY <2>2, <2>3
<1>13. \A f \in low' : IsTracked(book, f)
  BY <1>2, <1>3, AcceptedIsOpen
<1>14. ListInv'
  BY <1>3, <1>9, <1>10, <1>11, <1>12, <1>13 DEF ListInv, Own, Distinct, IsTracked, IsNews
<1>15. CandidatesInv' /\ MergedInv'
  BY <1>3, <1>11 DEF CandidatesInv, MergedInv
<1> QED  BY <1>7, <1>8, <1>14, <1>15 DEF IInv

-------------------------------------------------------------------------------
(* Dedup.                                                                  *)

\* Among some places of the list there is one with the worst severity, and Winner
\* is such a place.
LEMMA WinnerIsWorst ==
    ASSUME items \in Seq(Items), NEW news \in SUBSET DOMAIN items, news # {}
    PROVE  /\ Winner(news) \in news
           /\ \A j \in news : items[j].sev <= items[Winner(news)].sev
<1> DEFINE R == {p \in (DOMAIN items) \X (DOMAIN items) :
                    \/ items[p[1]].sev < items[p[2]].sev
                    \/ items[p[1]].sev = items[p[2]].sev /\ p[1] < p[2]}
<1>1. \A i \in DOMAIN items : i \in Nat /\ items[i].sev \in Nat
  BY PlacesIn, ItemTypes
<1>2. \A i, j \in DOMAIN items :
        <<i, j>> \in R <=> \/ items[i].sev < items[j].sev
                           \/ items[i].sev = items[j].sev /\ i < j
  OBVIOUS
<1> HIDE DEF R
<1>9. Orders(R, DOMAIN items)
  <2> DEFINE Sev(i) == items[i].sev
  <2>1. \A i \in DOMAIN items : i \in Nat /\ Sev(i) \in Nat
    BY <1>1
  <2>2. \A i, j \in DOMAIN items :
          <<i, j>> \in R <=> \/ Sev(i) < Sev(j)
                             \/ Sev(i) = Sev(j) /\ i < j
    BY <1>2
  <2> HIDE DEF Sev
  <2>3. \A i \in DOMAIN items : <<i, i>> \notin R
    BY <2>1, <2>2
  <2>4. ASSUME NEW i \in DOMAIN items, NEW j \in DOMAIN items, i # j
        PROVE  <<i, j>> \in R \/ <<j, i>> \in R
    <3>1. i < j \/ j < i
      BY <2>1, <2>4
    <3>2. Sev(i) < Sev(j) \/ Sev(j) < Sev(i) \/ Sev(i) = Sev(j)
      <4>1. Sev(i) \in Nat /\ Sev(j) \in Nat
        BY <2>1
      <4> QED  BY <4>1
    <3> QED  BY <2>2, <3>1, <3>2
  <2>5. \A i, j, k \in DOMAIN items : <<i, j>> \in R /\ <<j, k>> \in R => <<i, k>> \in R
    BY <2>1, <2>2
  <2> QED  BY <2>3, <2>4, <2>5 DEF Orders
<1>3. IsFiniteSet(DOMAIN items)
  BY PlacesIn
<1>4. PICK m \in news : \A j \in news \ {m} : <<j, m>> \in R
  BY <1>3, <1>9, LastOf
<1>5. ASSUME NEW j \in news  PROVE items[j].sev <= items[m].sev
  <2>1. items[j].sev \in Nat /\ items[m].sev \in Nat
    BY <1>1
  <2>2. CASE j = m
    BY <2>1, <2>2
  <2>3. CASE j # m
    <3>1. items[j].sev < items[m].sev \/ items[j].sev = items[m].sev
      BY <1>2, <1>4, <2>3
    <3> QED  BY <2>1, <3>1
  <2> QED  BY <2>2, <2>3
<1> DEFINE worst == {i \in news : \A j \in news : items[j].sev <= items[i].sev}
<1>6. worst # {} /\ worst \subseteq Nat
  BY <1>1, <1>5
<1>7. Min(worst) \in worst
  BY <1>6, LeastOf
<1>8. Winner(news) = Min(worst)
  BY DEF Winner
<1> QED  BY <1>7, <1>8

\* What a valid answer makes of a finding: it stays as it is, or it is merged into a
\* carried finding or into one of the list that is publishable, no less severe and
\* stays itself.
LEMMA MergedInto ==
    ASSUME IInv, stage = "dedup", NEW answer, IsValid(answer), NEW i \in DOMAIN items
    PROVE  \/ Merged(answer, i) = items[i]
           \/ \E t \in Findings :
                 /\ Merged(answer, i) = [items[i] EXCEPT !.merged = t]
                 /\ items[i].status = "accepted"
                 /\ \/ t \in Carried(book, items)
                    \/ \E j \in DOMAIN items :
                          /\ items[j].id = t
                          /\ Merged(answer, j) = items[j]
                          /\ IsPublishable(items[j])
                          /\ items[i].sev <= items[j].sev
<1> DEFINE Of(k) == {g \in answer : <<"new", k>> \in g}
<1> DEFINE Targets(k) == {Target(g) : g \in Of(k)}
<1>0. items \in Seq(Items) /\ DOMAIN items \subseteq Nat
  BY PlacesIn DEF IInv, Types
<1>1. \A k : Merged(answer, k) = IF Of(k) = {} \/ items[k].id \in Targets(k) THEN items[k]
                                 ELSE [items[k] EXCEPT !.merged = CHOOSE t \in Targets(k) : TRUE]
  BY DEF Merged
<1> SUFFICES ASSUME Of(i) # {}, items[i].id \notin Targets(i)
             PROVE  \E t \in Findings :
                 /\ Merged(answer, i) = [items[i] EXCEPT !.merged = t]
                 /\ items[i].status = "accepted"
                 /\ \/ t \in Carried(book, items)
                    \/ \E j \in DOMAIN items :
                          /\ items[j].id = t
                          /\ Merged(answer, j) = items[j]
                          /\ IsPublishable(items[j])
                          /\ items[i].sev <= items[j].sev
  BY <1>1
<1>2. PICK g \in answer : <<"new", i>> \in g
  OBVIOUS
<1>3. \A k : <<"new", k>> \in g => Of(k) = {g}
  <2> TAKE k
  <2> HAVE <<"new", k>> \in g
  <2>1. \A h \in answer : g = h \/ g \cap h = {}
    BY DEF IsValid
  <2> QED  BY <2>1
<1>4. \A k : <<"new", k>> \in g => Targets(k) = {Target(g)}
  BY <1>3
<1>5. Merged(answer, i) = [items[i] EXCEPT !.merged = Target(g)]
  <2>1. (CHOOSE t \in Targets(i) : TRUE) = Target(g)
    BY <1>2, <1>4
  <2> QED  BY <1>1, <2>1
<1>6. g \subseteq Refs
  BY DEF IsValid
<1>7. \A k : <<"new", k>> \in g => k \in DOMAIN items /\ IsPublishable(items[k])
  BY <1>6 DEF Refs, News
<1>8. items[i].status = "accepted"
  BY <1>2, <1>7 DEF IsPublishable
<1> DEFINE posted == Numbers("posted", g)
<1> DEFINE news   == Numbers("new", g)
<1>9. CASE posted # {}
  <2>1. posted \subseteq Carried(book, items)
    BY <1>6 DEF Numbers, Refs
  <2>2. posted \subseteq Nat
    BY <2>1, FindingsAssumption DEF Carried
  <2>3. Min(posted) \in posted
    BY <1>9, <2>2, LeastOf
  <2>4. Target(g) = Min(posted)
    BY <1>9 DEF Target
  <2> HIDE DEF posted
  <2>5. Target(g) \in Carried(book, items) /\ Target(g) \in Findings
    BY <2>1, <2>3, <2>4 DEF Carried
  <2> QED  BY <1>5, <1>8, <2>5
<1>10. CASE posted = {}
  <2>1. \A k : k \in news <=> <<"new", k>> \in g
    BY <1>6 DEF Numbers, Refs
  <2>2. news # {} /\ news \subseteq DOMAIN items
    BY <1>2, <1>7, <2>1
  <2> DEFINE w == Winner(news)
  <2>3. w \in news /\ \A j \in news : items[j].sev <= items[w].sev
    BY <1>0, <2>2, WinnerIsWorst
  <2>4. Target(g) = items[w].id
    BY <1>10 DEF Target
  <2> HIDE DEF w, news
  <2>5. <<"new", w>> \in g /\ w \in DOMAIN items /\ IsPublishable(items[w])
    BY <1>7, <2>1, <2>3
  <2>6. Merged(answer, w) = items[w]
    BY <1>1, <1>4, <2>4, <2>5
  <2>7. items[w].id \in Findings
    BY <1>0, <2>5, ItemTypes
  <2>8. items[i].sev <= items[w].sev
    BY <1>2, <2>1, <2>3
  <2> QED  BY <1>5, <1>8, <2>4, <2>5, <2>6, <2>7, <2>8
<1> QED  BY <1>9, <1>10

\* Deduplication keeps the list, its identities and its verdicts; what it merges goes
\* into a finding that is shown.
LEMMA DedupKeepsInv ==
    ASSUME IInv, Dedup  PROVE IInv'
<1>1. /\ stage = "dedup" /\ stage' = "anchor"
      /\ UNCHANGED <<change, most, book, rechecks, low, places, reopened, start>>
  BY DEF Dedup
<1>2. items \in Seq(Items) /\ \A i \in DOMAIN items : items[i].merged = NotMerged
  BY <1>1 DEF IInv, Types, MergedInv
<1> DEFINE Kept(old, new) ==
      \/ new = old
      \/ \E t \in Findings :
            /\ new = [old EXCEPT !.merged = t]
            /\ old.status = "accepted"
            /\ \/ t \in Carried(book, items)
               \/ \E j \in DOMAIN items : /\ items[j].id = t
                                          /\ items'[j] = items[j]
                                          /\ IsPublishable(items[j])
                                          /\ old.sev <= items[j].sev
<1>3. DOMAIN items' = DOMAIN items /\ \A i \in DOMAIN items : Kept(items[i], items'[i])
  <2>1. CASE items' = items
    BY <2>1
  <2>2. CASE \E g, h \in Groups : items' = Apply({g, h} \ {{}})
    <3>1. PICK answer : items' = Apply(answer)
      BY <2>2
    <3>2. CASE IsValid(answer)
      <4>1. items' = [i \in DOMAIN items |-> Merged(answer, i)]
        BY <3>1, <3>2 DEF Apply
      <4>2. DOMAIN items' = DOMAIN items /\ \A i \in DOMAIN items : items'[i] = Merged(answer, i)
        BY <4>1
      <4>3. ASSUME NEW i \in DOMAIN items  PROVE Kept(items[i], items'[i])
        <5>1. \/ Merged(answer, i) = items[i]
              \/ \E t \in Findings :
                    /\ Merged(answer, i) = [items[i] EXCEPT !.merged = t]
                    /\ items[i].status = "accepted"
                    /\ \/ t \in Carried(book, items)
                       \/ \E j \in DOMAIN items :
                             /\ items[j].id = t
                             /\ Merged(answer, j) = items[j]
                             /\ IsPublishable(items[j])
                             /\ items[i].sev <= items[j].sev
          BY <1>1, <3>2, MergedInto
        <5> QED  BY <4>2, <5>1
      <4> QED  BY <4>2, <4>3
    <3>3. CASE ~IsValid(answer)
      BY <3>1, <3>3 DEF Apply
    <3> QED  BY <3>2, <3>3
  <2> QED  BY <2>1, <2>2 DEF Dedup
<1>4. ASSUME NEW i \in DOMAIN items
      PROVE  /\ items'[i] \in Items
             /\ items'[i].id = items[i].id /\ items'[i].at = items[i].at
             /\ items'[i].sev = items[i].sev /\ items'[i].status = items[i].status
             /\ items'[i].merged # NotMerged =>
                   /\ items[i].status = "accepted"
                   /\ \/ items'[i].merged \in Carried(book, items)
                      \/ \E j \in DOMAIN items : /\ items[j].id = items'[i].merged
                                                 /\ items'[j] = items[j]
                                                 /\ IsPublishable(items[j])
                                                 /\ items[i].sev <= items[j].sev
  <2>1. items[i] \in Items
    BY <1>2
  <2>2. CASE items'[i] = items[i]
    BY <1>2, <2>1, <2>2
  <2>3. CASE items'[i] # items[i]
    <3>1. PICK t \in Findings :
            /\ items'[i] = [items[i] EXCEPT !.merged = t]
            /\ items[i].status = "accepted"
            /\ \/ t \in Carried(book, items)
               \/ \E j \in DOMAIN items : /\ items[j].id = t
                                          /\ items'[j] = items[j]
                                          /\ IsPublishable(items[j])
                                          /\ items[i].sev <= items[j].sev
      BY <1>3, <2>3
    <3>2. /\ items'[i] \in Items /\ items'[i].merged = t
          /\ items'[i].id = items[i].id /\ items'[i].at = items[i].at
          /\ items'[i].sev = items[i].sev /\ items'[i].status = items[i].status
      BY <2>1, <3>1 DEF Items
    <3> QED  BY <3>1, <3>2
  <2> QED  BY <2>2, <2>3
<1> HIDE DEF Kept
<1>5. items' \in Seq(Items)
  <2>1. DOMAIN items = 1..Len(items) /\ Len(items) \in Nat
    BY <1>2
  <2>2. items' = [i \in DOMAIN items' |-> items'[i]]
    <3>1. CASE items' = items
      BY <1>2, <3>1
    <3>2. CASE \E g, h \in Groups : items' = Apply({g, h} \ {{}})
      <4>1. PICK answer : items' = Apply(answer)
        BY <3>2
      <4>2. CASE IsValid(answer)
        BY <4>1, <4>2 DEF Apply
      <4>3. CASE ~IsValid(answer)
        BY <1>2, <4>1, <4>3 DEF Apply
      <4> QED  BY <4>2, <4>3
    <3> QED  BY <3>1, <3>2 DEF Dedup
  <2>3. items' \in [1..Len(items) -> Items]
    BY <1>3, <1>4, <2>1, <2>2
  <2> QED  BY <2>1, <2>3
<1>6. Types'
  BY <1>1, <1>5 DEF IInv, Types
<1>7. BookInv' /\ CandidatesInv'
  BY <1>1 DEF IInv, BookInv, CandidatesInv, IsTracked
<1>8. /\ Reentering' = Reentering
      /\ Carried(book, items)' = Carried(book, items)
      /\ \A f : Own(f)' = Own(f)
  <2>1. Reentering' = Reentering
    BY <1>1 DEF Reentering, HasPosted, IsTracked
  <2>2. Carried(book, items)' = Carried(book, items)
    BY <1>1, <1>3, <1>4 DEF Carried
  <2>3. \A f : Own(f)' = Own(f)
    BY <1>3, <1>4 DEF Own
  <2> QED  BY <2>1, <2>2, <2>3
<1>9. ListInv'
  <2>1. Distinct(items')
    BY <1>1, <1>3, <1>4 DEF IInv, ListInv, Distinct
  <2>2. \A i \in DOMAIN items' :
              /\ IsNews(items[i])' /\ items'[i].status # "none"
              /\ items'[i].id \in Reentering' => items'[i].status = "accepted"
    BY <1>1, <1>3, <1>4, <1>8 DEF IInv, ListInv, IsNews, IsTracked
  <2>3. \A f \in Reentering' : f \in low' \/ Own(f)' # {}
    BY <1>1, <1>8 DEF IInv, ListInv
  <2>4. \A f \in low' : IsTracked(book', f)
    BY <1>1 DEF IInv, ListInv, IsTracked
  <2>5. Distinct(items)'
    BY <2>1 DEF Distinct
  <2> QED  BY <2>2, <2>3, <2>4, <2>5 DEF ListInv
<1>10. MergedInv'
  <2> SUFFICES ASSUME NEW i \in DOMAIN items, items'[i].merged # NotMerged
               PROVE  /\ items'[i].status = "accepted"
                      /\ \/ items'[i].merged \in Carried(book, items)'
                         \/ \E j \in DOMAIN items' :
                               /\ items'[j].id = items'[i].merged
                               /\ IsPublishable(items'[j])
                               /\ items'[i].sev <= items'[j].sev
    BY <1>1, <1>3 DEF MergedInv
  <2> QED  BY <1>3, <1>4, <1>8
<1> QED  BY <1>6, <1>7, <1>9, <1>10 DEF IInv

-------------------------------------------------------------------------------
(* Anchor.                                                                 *)

\* A finding's own place in the list is the only one.
LEMMA OwnPlace ==
    ASSUME IInv, stage = "anchor", NEW i \in DOMAIN items
    PROVE  /\ Own(items[i].id) = {i} /\ Min(Own(items[i].id)) = i
           /\ items[i] \in Items /\ items[i].id \in Findings /\ items[i].id # NotMerged
<1>1. Distinct(items) /\ items \in Seq(Items)
  BY DEF IInv, ListInv, Types
<1>2. Own(items[i].id) = {i}
  BY <1>1 DEF Own, Distinct
<1>3. {i} \subseteq Nat
  BY <1>1, PlacesIn
<1>4. Min({i}) = i
  BY <1>3, LeastOf
<1> QED  BY <1>1, <1>2, <1>4, ItemTypes

\* The new entry of a finding of the list, and of one that is not on it.
LEMMA EntryAfter ==
    ASSUME IInv, stage = "anchor"
    PROVE  /\ \A i \in DOMAIN items :
                 LET f == items[i].id
                     e == IF f \in low THEN Upsert(book[f], "uncertain") ELSE book[f]
                 IN  NewEntry(f) = IF items[i].merged # NotMerged THEN Untracked
                                   ELSE Upsert(e, FreshStatus(items[i].status))
           /\ \A f \in Findings : Own(f) = {} =>
                 NewEntry(f) = IF f \in low THEN Upsert(book[f], "uncertain") ELSE book[f]
<1>1. \A f : NewEntry(f) =
        IF \E i \in Own(f) : items[i].merged # NotMerged THEN Untracked
        ELSE IF Own(f) # {}
        THEN Upsert(IF f \in low THEN Upsert(book[f], "uncertain") ELSE book[f],
                    FreshStatus(items[Min(Own(f))].status))
        ELSE IF f \in low THEN Upsert(book[f], "uncertain") ELSE book[f]
  BY DEF NewEntry, Own
<1>2. \A i \in DOMAIN items : Own(items[i].id) = {i} /\ Min(Own(items[i].id)) = i
  BY OwnPlace
<1> QED  BY <1>1, <1>2

\* Anchoring gives the publishable findings their places and no other one.
LEMMA PlacesAfter ==
    ASSUME IInv, Anchor
    PROVE  /\ \A i \in News : places'[items[i].id] = Place(i)
           /\ \A i \in DOMAIN items \ News : places'[items[i].id] = "none"
           /\ \A f \in Findings : places'[f] # "none" <=> \E i \in News : items[i].id = f
           /\ \A i \in DOMAIN items : places'[items[i].id] = "inline" <=> i \in Inline
           /\ places' \in [Findings -> {"none", "lower", "inline", "outside"}]
<1>1. /\ stage = "anchor"
      /\ places' = [f \in Findings |->
                      IF \E i \in News : items[i].id = f
                      THEN Place(CHOOSE i \in News : items[i].id = f) ELSE "none"]
  BY DEF Anchor
<1>2. \A i \in DOMAIN items : items[i].id \in Findings
  BY <1>1, OwnPlace
<1>3. \A i, j \in DOMAIN items : items[i].id = items[j].id => i = j
  BY <1>1 DEF IInv, ListInv, Distinct
<1>4. News \subseteq DOMAIN items
  BY DEF News
<1>5. ASSUME NEW i \in News  PROVE places'[items[i].id] = Place(i)
  <2>1. (CHOOSE j \in News : items[j].id = items[i].id) = i
    BY <1>3, <1>4
  <2>2. places'[items[i].id] = Place(CHOOSE j \in News : items[j].id = items[i].id)
    BY <1>1, <1>2, <1>4
  <2> QED  BY <2>1, <2>2
<1>6. ASSUME NEW i \in DOMAIN items \ News  PROVE places'[items[i].id] = "none"
  <2>1. ~ \E j \in News : items[j].id = items[i].id
    BY <1>3, <1>4
  <2> QED  BY <1>1, <1>2, <2>1
<1>7. \A i : Place(i) \in {"lower", "inline", "outside"}
  BY DEF Place
<1>8. ASSUME NEW f \in Findings
      PROVE  /\ places'[f] # "none" <=> \E i \in News : items[i].id = f
             /\ places'[f] \in {"none", "lower", "inline", "outside"}
  <2>1. CASE \E i \in News : items[i].id = f
    BY <1>5, <1>7, <2>1
  <2>2. CASE ~ \E i \in News : items[i].id = f
    BY <1>1, <2>2
  <2> QED  BY <2>1, <2>2
<1>9. ASSUME NEW i \in DOMAIN items
      PROVE  places'[items[i].id] = "inline" <=> i \in Inline
  <2>1. Inline \subseteq News /\ \A j \in Inline : items[j].sev >= InlineMin
    BY DEF Inline, Eligible, Anchors
  <2>2. items[i].sev \in Nat /\ InlineMin \in Nat
    BY ItemTypes, SeveritiesAssumption DEF IInv, Types
  <2>3. CASE i \in News
    BY <1>5, <2>1, <2>2, <2>3 DEF Place
  <2>4. CASE i \notin News
    BY <1>6, <2>1, <2>4
  <2> QED  BY <2>3, <2>4
<1>10. places' \in [Findings -> {"none", "lower", "inline", "outside"}]
  BY <1>1, <1>8
<1> QED  BY <1>5, <1>6, <1>8, <1>9, <1>10

\* Severity, line and place put the findings in a row.
LEMMA SeverityOrders ==
    ASSUME items \in Seq(Items), NEW E \in SUBSET DOMAIN items,
           NEW R, \A i, j \in E : <<i, j>> \in R <=> GoesFirst(i, j)
    PROVE  Orders(R, E)
<1> DEFINE Sev(i) == items[i].sev
<1> DEFINE Row(i) == items[i].at[1]
<1>1. \A i \in E : i \in Nat /\ Sev(i) \in Nat /\ Row(i) \in Nat
  <2> TAKE i \in E
  <2>1. items[i] \in Items /\ items[i].sev \in Nat
    BY ItemTypes
  <2>2. items[i].at \in Nat \X Nat
    BY <2>1, SpansAssumption DEF Items
  <2> QED  BY <2>1, <2>2, PlacesIn
<1>2. \A i, j \in E : <<i, j>> \in R <=>
        Sev(i) > Sev(j) \/ (Sev(i) = Sev(j) /\ (Row(i) < Row(j) \/ (Row(i) = Row(j) /\ i < j)))
  <2> TAKE i, j \in E
  <2>1. GoesFirst(i, j) <=>
          Sev(i) > Sev(j) \/ (Sev(i) = Sev(j) /\ (Row(i) < Row(j) \/ (Row(i) = Row(j) /\ i < j)))
    BY Zenon DEF GoesFirst, Above
  <2> HIDE DEF Sev, Row
  <2> QED  BY <2>1, Zenon
<1> HIDE DEF Sev, Row
<1>3. \A i \in E : <<i, i>> \notin R
  BY <1>1, <1>2
<1>4. ASSUME NEW i \in E, NEW j \in E, i # j
      PROVE  <<i, j>> \in R \/ <<j, i>> \in R
  <2>1. i < j \/ j < i
    BY <1>1, <1>4
  <2>2. Sev(i) > Sev(j) \/ Sev(j) > Sev(i) \/ Sev(i) = Sev(j)
    <3>1. Sev(i) \in Nat /\ Sev(j) \in Nat
      BY <1>1
    <3> QED  BY <3>1
  <2>3. Row(i) < Row(j) \/ Row(j) < Row(i) \/ Row(i) = Row(j)
    <3>1. Row(i) \in Nat /\ Row(j) \in Nat
      BY <1>1
    <3> QED  BY <3>1
  <2>4. <<i, j>> \in R <=>
          Sev(i) > Sev(j) \/ (Sev(i) = Sev(j) /\ (Row(i) < Row(j) \/ (Row(i) = Row(j) /\ i < j)))
    BY <1>2
  <2>5. <<j, i>> \in R <=>
          Sev(j) > Sev(i) \/ (Sev(j) = Sev(i) /\ (Row(j) < Row(i) \/ (Row(j) = Row(i) /\ j < i)))
    BY <1>2
  <2>6. CASE Sev(i) # Sev(j)
    BY Zenon, <2>2, <2>4, <2>5, <2>6
  <2>7. CASE Sev(i) = Sev(j) /\ Row(i) # Row(j)
    BY Zenon, <2>3, <2>4, <2>5, <2>7
  <2>8. CASE Sev(i) = Sev(j) /\ Row(i) = Row(j)
    BY Zenon, <2>1, <2>4, <2>5, <2>8
  <2> QED  BY Zenon, <2>6, <2>7, <2>8
<1>5. ASSUME NEW i \in E, NEW j \in E, NEW k \in E, <<i, j>> \in R, <<j, k>> \in R
      PROVE  <<i, k>> \in R
  <2>1. /\ i \in Nat /\ Sev(i) \in Nat /\ Row(i) \in Nat
        /\ j \in Nat /\ Sev(j) \in Nat /\ Row(j) \in Nat
        /\ k \in Nat /\ Sev(k) \in Nat /\ Row(k) \in Nat
    BY <1>1
  <2>2. Sev(i) > Sev(j) \/ (Sev(i) = Sev(j) /\ (Row(i) < Row(j) \/ (Row(i) = Row(j) /\ i < j)))
    BY Zenon, <1>2, <1>5
  <2>3. Sev(j) > Sev(k) \/ (Sev(j) = Sev(k) /\ (Row(j) < Row(k) \/ (Row(j) = Row(k) /\ j < k)))
    BY Zenon, <1>2, <1>5
  <2>4. Sev(i) > Sev(k) \/ (Sev(i) = Sev(k) /\ (Row(i) < Row(k) \/ (Row(i) = Row(k) /\ i < k)))
    BY <2>1, <2>2, <2>3
  <2> QED  BY Zenon, <1>2, <2>4
<1> QED  BY <1>3, <1>4, <1>5 DEF Orders

\* There are as many inline places as may be, and the most severe findings have them.
LEMMA InlinePlaces ==
    ASSUME items \in Seq(Items)
    PROVE  /\ Cardinality(Inline) = Min({MaxFindings, Cardinality(Eligible)})
           /\ Cardinality(Inline) <= MaxFindings
           /\ \A i \in Inline, j \in Eligible \ Inline : items[j].sev <= items[i].sev
<1> DEFINE R == {p \in Eligible \X Eligible : GoesFirst(p[1], p[2])}
<1>1. Eligible \subseteq DOMAIN items /\ IsFiniteSet(Eligible)
  BY PlacesIn DEF Eligible, Anchors, News
<1>2. \A i, j \in Eligible : <<i, j>> \in R <=> GoesFirst(i, j)
  OBVIOUS
<1> HIDE DEF R
<1>3. Orders(R, Eligible)
  BY <1>1, <1>2, SeverityOrders
<1>4. \A i \in Eligible : Before(R, Eligible, i) = {j \in Eligible : GoesFirst(j, i)}
  BY <1>2 DEF Before
<1>5. Leading(R, Eligible, MaxFindings) = Inline
  BY <1>4 DEF Leading, Inline
<1>6. Cardinality(Inline) = IF Cardinality(Eligible) < MaxFindings
                            THEN Cardinality(Eligible) ELSE MaxFindings
  BY <1>1, <1>3, <1>5, LeadingCount, MaxFindingsAssumption
<1>7. Cardinality(Eligible) \in Nat /\ MaxFindings \in Nat
  BY <1>1, FS_CardinalityType, MaxFindingsAssumption
<1>8. Cardinality(Inline) = Min({MaxFindings, Cardinality(Eligible)})
  <2> DEFINE both == {MaxFindings, Cardinality(Eligible)}
  <2>1. Min(both) \in both /\ \A n \in both : Min(both) <= n
    BY <1>7, LeastOf
  <2> HIDE DEF both
  <2>2. Min(both) \in {MaxFindings, Cardinality(Eligible)}
        /\ Min(both) <= MaxFindings /\ Min(both) <= Cardinality(Eligible)
    BY <2>1 DEF both
  <2>3. Cardinality(Inline) = Min(both)
    BY <1>6, <1>7, <2>2
  <2> QED  BY <2>3 DEF both
<1>9. ASSUME NEW i \in Inline, NEW j \in Eligible \ Inline
      PROVE  items[j].sev <= items[i].sev
  <2>1. i \in Eligible /\ items[i].sev \in Nat /\ items[j].sev \in Nat
    BY <1>1, ItemTypes DEF Inline
  <2> SUFFICES ASSUME items[j].sev > items[i].sev  PROVE FALSE
    BY <2>1
  <2>2. <<j, i>> \in R
    BY <1>2, <2>1 DEF GoesFirst
  <2>3. Before(R, Eligible, j) \subseteq Before(R, Eligible, i)
    BY <1>3, <2>1, <2>2 DEF Before, Orders
  <2>4. IsFiniteSet(Before(R, Eligible, i))
    BY <1>1, FS_Subset DEF Before
  <2>5. /\ Cardinality(Before(R, Eligible, j)) <= Cardinality(Before(R, Eligible, i))
        /\ Cardinality(Before(R, Eligible, i)) \in Nat
        /\ Cardinality(Before(R, Eligible, j)) \in Nat
    BY <2>3, <2>4, FS_Subset, FS_CardinalityType
  <2>6. Cardinality(Before(R, Eligible, i)) < MaxFindings
        /\ ~(Cardinality(Before(R, Eligible, j)) < MaxFindings)
    BY <1>5 DEF Leading
  <2> QED  BY <1>7, <2>5, <2>6
<1> QED  BY <1>6, <1>7, <1>8, <1>9

\* The inline places after anchoring are those of the most severe findings.
LEMMA AnchorPlacesMostSevere ==
    ASSUME IInv, Anchor  PROVE MostSevereInline'
<1>1. stage = "anchor" /\ UNCHANGED <<change, items>>
  BY DEF Anchor
<1>2. items \in Seq(Items)
  BY DEF IInv, Types
<1>3. HeadLines' = HeadLines
  BY <1>1 DEF HeadLines
<1> DEFINE eligible == {i \in DOMAIN items : /\ IsPublishable(items[i])
                                             /\ items[i].sev >= InlineMin
                                             /\ items[i].at[1] \in HeadLines}
<1>4. eligible = Eligible
  BY DEF Eligible, Anchors, News
<1>5. {i \in DOMAIN items : places'[items[i].id] = "inline"} = Inline
  <2>1. Inline \subseteq DOMAIN items
    BY DEF Inline, Eligible, Anchors, News
  <2> QED  BY <2>1, PlacesAfter
<1>6. Inline \subseteq Eligible
  BY DEF Inline
<1> HIDE DEF eligible
<1>7. /\ Inline \subseteq eligible
      /\ Cardinality(Inline) = Min({MaxFindings, Cardinality(eligible)})
      /\ \A i \in Inline, j \in eligible \ Inline : items[j].sev <= items[i].sev
  BY <1>2, <1>4, <1>6, InlinePlaces
<1> QED  BY <1>1, <1>3, <1>5, <1>7 DEF MostSevereInline, eligible

\* An upsert gives an entry the status.
LEMMA UpsertIs ==
    ASSUME NEW e \in Entries, NEW s \in {"open", "uncertain", "resolved", "rejected"}
    PROVE  Upsert(e, s) \in Entries /\ Upsert(e, s).status = s
<1>1. e.posted \in BOOLEAN
  BY EntryIs
<1>2. (e.posted /\ ~ComesBack(e, s)) \in BOOLEAN
  BY <1>1
<1> HIDE DEF ComesBack
<1> QED  BY <1>2 DEF Upsert, Entries

\* Whatever was accepted is shown after anchoring.
LEMMA AnchorShows ==
    ASSUME IInv, Anchor  PROVE NothingVanishes'
<1>1. stage = "anchor" /\ UNCHANGED <<items, low, rechecks>>
      /\ book' = [f \in Findings |-> NewEntry(f)]
  BY DEF Anchor
<1>2. items \in Seq(Items)
  BY DEF IInv, Types
<1>3. \A i \in DOMAIN items :
        items[i] \in Items /\ items[i].id \in Findings /\ items[i].id # NotMerged
  BY <1>1, OwnPlace
<1>4. \A f : Own(f)' = Own(f)
  BY <1>1 DEF Own
<1> DEFINE Shown(f) == places'[f] # "none" \/ f \in Carried(book', items)
<1>5. \A f : IsShown(f)' <=> Shown(f)
  BY <1>1 DEF IsShown
<1>6. ASSUME NEW f \in Carried(book, items), f \notin low  PROVE Shown(f)
  <2>1. f \in Findings /\ Own(f) = {}
    BY DEF Carried, Own
  <2>2. book'[f] = book[f]
    BY <1>1, <1>6, <2>1, EntryAfter
  <2> QED  BY <2>1, <2>2 DEF Carried
<1>7. ASSUME NEW i \in DOMAIN items, items[i].status = "accepted"
      PROVE  LET into == items[i].merged IN
             \/ into = NotMerged /\ places'[items[i].id] # "none"
             \/ into # NotMerged /\ (Shown(into) \/ into \in low)
  <2>1. CASE items[i].merged = NotMerged
    <3>1. i \in News
      BY <1>7, <2>1 DEF News, IsPublishable
    <3> QED  BY <1>3, <2>1, <3>1, PlacesAfter
  <2>2. CASE items[i].merged # NotMerged
    <3>1. CASE items[i].merged \in Carried(book, items)
      BY <1>6, <2>2, <3>1
    <3>2. CASE \E j \in DOMAIN items : items[j].id = items[i].merged /\ IsPublishable(items[j])
      <4>1. PICK j \in News : items[j].id = items[i].merged
        BY <3>2 DEF News
      <4>2. j \in DOMAIN items
        BY DEF News
      <4> QED  BY <1>3, <2>2, <4>1, <4>2, PlacesAfter
    <3> QED  BY <1>1, <2>2, <3>1, <3>2 DEF IInv, MergedInv
  <2> QED  BY <2>1, <2>2
<1>8. ASSUME NEW i \in DOMAIN items, NEW j \in DOMAIN items, items[i].merged = items[j].id
      PROVE  items[i].sev <= items[j].sev
  <2>1. items[i].merged # NotMerged /\ items[i].merged \notin Carried(book, items)
    BY <1>3, <1>8 DEF Carried
  <2>2. PICK k \in DOMAIN items : items[k].id = items[i].merged /\ items[i].sev <= items[k].sev
    BY <1>1, <2>1 DEF IInv, MergedInv
  <2>3. k = j
    BY <1>1, <1>8, <2>2 DEF IInv, ListInv, Distinct
  <2> QED  BY <2>2, <2>3
<1>9. ASSUME NEW f \in Findings \ low, rechecks[f].status = "accepted", Own(f) = {}
      PROVE  Shown(f)
  <2>1. book[f].status = "open" /\ IsTracked(book, f)
    BY <1>1, <1>9, AcceptedIsOpen
  <2>2. f \notin Reentering
    BY <1>1, <1>9 DEF IInv, ListInv
  <2>3. book[f].posted
    BY <1>9, <2>1, <2>2 DEF Reentering, HasPosted
  <2>4. f \in Carried(book, items)
    BY <1>9, <2>1, <2>3 DEF Carried, Own
  <2> QED  BY <1>6, <2>4
<1> HIDE DEF Shown
<1> QED  BY <1>1, <1>4, <1>5, <1>7, <1>8, <1>9 DEF NothingVanishes

\* Anchoring ends the run and keeps the types.
LEMMA AnchorKeepsInv ==
    ASSUME IInv, Anchor  PROVE IInv'
<1>1. stage = "anchor" /\ stage' = "done"
      /\ UNCHANGED <<change, most, rechecks, items, low, start>>
      /\ book' = [f \in Findings |-> NewEntry(f)]
      /\ reopened' = {items[i].id : i \in {j \in News : ComesBack(book[items[j].id], "open")}}
  BY DEF Anchor
<1>2. \A i \in DOMAIN items : items[i] \in Items /\ items[i].id \in Findings
  BY <1>1, OwnPlace
<1>3. ASSUME NEW f \in Findings  PROVE NewEntry(f) \in Entries
  <2> DEFINE e == IF f \in low THEN Upsert(book[f], "uncertain") ELSE book[f]
  <2>1. e \in Entries
    BY UpsertIs DEF IInv, Types
  <2> HIDE DEF e
  <2>2. CASE Own(f) = {}
    BY <1>1, <2>1, <2>2, EntryAfter DEF e
  <2>3. CASE Own(f) # {}
    <3>1. PICK i \in DOMAIN items : items[i].id = f
      BY <2>3 DEF Own
    <3>2. NewEntry(f) = IF items[i].merged # NotMerged THEN Untracked
                        ELSE Upsert(e, FreshStatus(items[i].status))
      BY <1>1, <3>1, EntryAfter DEF e
    <3>3. items[i].status \in {"accepted", "rejected", "uncertain"}
      BY <1>1, <1>2 DEF IInv, ListInv, Items
    <3>4. FreshStatus(items[i].status) \in {"open", "uncertain", "resolved", "rejected"}
      BY <3>3 DEF FreshStatus
    <3>5. Untracked \in Entries
      BY DEF Entries
    <3> QED  BY <2>1, <3>2, <3>4, <3>5, UpsertIs
  <2> QED  BY <2>2, <2>3
<1>4. reopened' \subseteq Findings
  BY <1>1, <1>2 DEF News
<1>5. Types'
  BY <1>1, <1>3, <1>4, PlacesAfter DEF IInv, Types
<1>6. BookInv' /\ CandidatesInv' /\ ListInv' /\ MergedInv'
  BY <1>1 DEF BookInv, CandidatesInv, ListInv, MergedInv
<1> QED  BY <1>5, <1>6 DEF IInv

-------------------------------------------------------------------------------
(* The step that Publish promises.                                         *)

\* The findings of the list that were merged, and those that are published.
Gone   == {items[i].id : i \in {j \in DOMAIN items : items[j].merged # NotMerged}}
Others == {items[i].id : i \in News}

\* What Publish takes for rechecked is the state before anchoring, except that what
\* is below the threshold and not on the list is uncertain there.
LEMMA CheckedIs ==
    ASSUME IInv, stage = "anchor", NEW f \in Findings
    PROVE  P!Rechecked(start, Verdict)[f] =
              IF f \in low /\ Own(f) = {} THEN Upsert(book[f], "uncertain") ELSE book[f]
<1> DEFINE checked == P!Rechecked(start, Verdict)
<1>1. checked[f] = IF IsTracked(start, f)
                   THEN [start[f] EXCEPT !.status = P!RecheckStatus(Verdict[f])] ELSE start[f]
  BY DEF P!Rechecked, P!IsTracked, P!Tracked, IsTracked, Tracked
<1>2. Verdict[f] = IF ~IsTracked(start, f) \/ (f \in low /\ Own(f) = {}) THEN "uncertain"
                   ELSE rechecks[f].status
  BY DEF Verdict
<1>3. book[f] = IF IsTracked(start, f)
                THEN [start[f] EXCEPT !.status = RecheckStatus(rechecks[f].status)]
                ELSE start[f]
  BY DEF IInv, BookInv
<1> HIDE DEF checked
<1>4. \A v : P!RecheckStatus(v) = RecheckStatus(v)
  BY DEF P!RecheckStatus, RecheckStatus
<1>5. CASE f \in low /\ Own(f) = {}
  <2>1. IsTracked(book, f)
    BY <1>5 DEF IInv, ListInv
  <2>2. IsTracked(start, f)
    BY <1>3, <2>1 DEF IsTracked
  <2>3. start[f] = [status |-> start[f].status, posted |-> start[f].posted]
        /\ start[f].posted \in BOOLEAN
    BY EntryIs DEF IInv, Types
  <2>4. RecheckStatus("uncertain") = "uncertain"
    BY DEF RecheckStatus
  <2>5. checked[f] = [status |-> "uncertain", posted |-> start[f].posted]
    BY <1>1, <1>2, <1>4, <1>5, <2>2, <2>3, <2>4
  <2>6. book[f].posted = start[f].posted
    BY <1>3, <2>2, <2>3
  <2>7. Upsert(book[f], "uncertain") = [status |-> "uncertain", posted |-> start[f].posted]
    BY <2>1, <2>3, <2>6 DEF Upsert, ComesBack, Closed, IsTracked, Tracked
  <2> QED  BY <1>5, <2>5, <2>7 DEF checked
<1>6. CASE ~(f \in low /\ Own(f) = {})
  BY <1>1, <1>2, <1>3, <1>4, <1>6 DEF checked
<1> QED  BY <1>5, <1>6

\* What Publish takes for final is the list, with its verdicts.
LEMMA FinalIs ==
    ASSUME IInv, stage = "anchor"
    PROVE  LET final == P!Final(start, Verdict, Found) IN
           /\ DOMAIN final = {items[i].id : i \in DOMAIN items}
           /\ \A i \in DOMAIN items : final[items[i].id] = items[i].status
<1> DEFINE checked == P!Rechecked(start, Verdict)
<1> DEFINE again == {f \in Findings : /\ IsTracked(start, f) /\ Verdict[f] = "accepted"
                                      /\ ~HasPosted(checked, f)}
<1> DEFINE fresh == {f \in Findings : Found[f] # "none" /\ ~IsTracked(checked, f)}
<1>1. P!Final(start, Verdict, Found) =
        [f \in again \cup fresh |-> IF f \in again THEN "accepted" ELSE Found[f]]
  <2>1. \A b, f : (P!IsTracked(b, f) <=> IsTracked(b, f)) /\ (P!HasPosted(b, f) <=> HasPosted(b, f))
    BY DEF P!IsTracked, P!HasPosted, P!Tracked, IsTracked, HasPosted, Tracked
  <2>2. P!Reenter(start, Verdict) = again
    BY <2>1 DEF P!Reenter
  <2> HIDE DEF again, checked
  <2>3. {f \in Findings : Found[f] # "none" /\ ~P!IsTracked(P!Rechecked(start, Verdict), f)} = fresh
    BY <2>1 DEF checked
  <2> HIDE DEF fresh
  <2> QED  BY <2>2, <2>3 DEF P!Final
<1>2. \A f \in Findings : checked[f] = IF f \in low /\ Own(f) = {}
                                       THEN Upsert(book[f], "uncertain") ELSE book[f]
  BY CheckedIs
<1> HIDE DEF checked
<1>3. \A f \in Findings : Verdict[f] = IF ~IsTracked(start, f) \/ (f \in low /\ Own(f) = {})
                                       THEN "uncertain" ELSE rechecks[f].status
  BY DEF Verdict
<1>4. \A i \in DOMAIN items : /\ items[i].id \in Findings
                              /\ Own(items[i].id) = {i} /\ Min(Own(items[i].id)) = i
                              /\ items[i].status # "none"
                              /\ IsNews(items[i])
                              /\ items[i].id \in Reentering => items[i].status = "accepted"
  BY OwnPlace DEF IInv, ListInv
<1>5. \A i \in DOMAIN items : Found[items[i].id] = items[i].status
  BY <1>4 DEF Found
<1>6. \A f \in Findings : Own(f) = {} => Found[f] = "none"
  BY DEF Found
<1>7. ASSUME NEW f \in again  PROVE f \in Reentering /\ Own(f) # {}
  <2>1. ~(f \in low /\ Own(f) = {}) /\ rechecks[f].status = "accepted"
    BY <1>3, <1>7
  <2>2. ~HasPosted(book, f)
    BY <1>2, <1>7, <2>1 DEF HasPosted, IsTracked
  <2>3. f \in Reentering
    BY <2>1, <2>2 DEF Reentering
  <2> QED  BY <2>1, <2>3 DEF IInv, ListInv
<1>8. ASSUME NEW f \in Reentering, Own(f) # {}  PROVE f \in again
  <2>1. f \in Findings /\ rechecks[f].status = "accepted" /\ ~HasPosted(book, f)
    BY DEF Reentering
  <2>2. IsTracked(start, f)
    BY <2>1, AcceptedIsOpen
  <2>3. Verdict[f] = "accepted"
    BY <1>3, <1>8, <2>1, <2>2
  <2>4. ~HasPosted(checked, f)
    BY <1>2, <1>8, <2>1 DEF HasPosted, IsTracked
  <2> QED  BY <2>1, <2>2, <2>3, <2>4
<1> HIDE DEF again
<1>9. ASSUME NEW i \in DOMAIN items
      PROVE  /\ items[i].id \in again \cup fresh
             /\ (IF items[i].id \in again THEN "accepted" ELSE Found[items[i].id]) = items[i].status
  <2>1. CASE items[i].id \in Reentering
    BY <1>4, <1>8, <2>1
  <2>2. CASE items[i].id \notin Reentering
    <3>1. ~IsTracked(book, items[i].id)
      BY <1>4, <2>2 DEF IsNews
    <3>2. ~IsTracked(checked, items[i].id)
      BY <1>2, <1>4, <3>1 DEF IsTracked
    <3>3. items[i].id \in fresh /\ items[i].id \notin again
      BY <1>4, <1>5, <1>7, <2>2, <3>2
    <3> QED  BY <1>5, <3>3
  <2> QED  BY <2>1, <2>2
<1>10. ASSUME NEW f \in again \cup fresh  PROVE \E i \in DOMAIN items : items[i].id = f
  <2>1. Own(f) # {}
    BY <1>6, <1>7
  <2> QED  BY <2>1 DEF Own
<1> HIDE DEF fresh
<1>11. DOMAIN P!Final(start, Verdict, Found) = {items[i].id : i \in DOMAIN items}
  BY <1>1, <1>9, <1>10
<1>12. ASSUME NEW i \in DOMAIN items
       PROVE  P!Final(start, Verdict, Found)[items[i].id] = items[i].status
  BY <1>1, <1>9
<1> QED  BY <1>11, <1>12

\* The entry Publish expects of a finding is the one it gets.
LEMMA AfterReviewIs ==
    ASSUME IInv, stage = "anchor"
    PROVE  [f \in Findings |-> NewEntry(f)] =
           P!AfterReview(P!Rechecked(start, Verdict), P!Final(start, Verdict, Found), Gone)
<1> DEFINE checked == P!Rechecked(start, Verdict)
<1> DEFINE final   == P!Final(start, Verdict, Found)
<1>1. \A f \in Findings : checked[f] = IF f \in low /\ Own(f) = {}
                                       THEN Upsert(book[f], "uncertain") ELSE book[f]
  BY CheckedIs
<1>2. /\ DOMAIN final = {items[i].id : i \in DOMAIN items}
      /\ \A i \in DOMAIN items : final[items[i].id] = items[i].status
  BY FinalIs
<1> HIDE DEF checked, final
<1>3. ASSUME NEW f \in Findings
      PROVE  NewEntry(f) = IF f \in Gone THEN P!Absent
                           ELSE IF f \in DOMAIN final THEN P!Upsert(checked[f], final[f])
                           ELSE checked[f]
  <2>1. CASE Own(f) = {}
    <3>1. f \notin DOMAIN final /\ f \notin Gone
      BY <1>2, <2>1 DEF Own, Gone
    <3> QED  BY <1>1, <2>1, <3>1, EntryAfter
  <2>2. CASE Own(f) # {}
    <3>1. PICK i \in DOMAIN items : items[i].id = f
      BY <2>2 DEF Own
    <3> DEFINE e == IF f \in low THEN Upsert(book[f], "uncertain") ELSE book[f]
    <3> DEFINE s == FreshStatus(items[i].status)
    <3>2. NewEntry(f) = IF items[i].merged # NotMerged THEN Untracked ELSE Upsert(e, s)
      BY <3>1, EntryAfter
    <3>3. f \in Gone <=> items[i].merged # NotMerged
      BY <3>1 DEF Gone, IInv, ListInv, Distinct
    <3>4. f \in DOMAIN final /\ final[f] = items[i].status /\ checked[f] = book[f]
      BY <1>1, <1>2, <2>2, <3>1
    <3>5. P!Upsert(book[f], items[i].status) =
            [status |-> s, posted |-> book[f].posted /\ ~(Closed(book[f]) /\ s \in Tracked)]
      BY DEF P!Upsert, P!FreshStatus, P!Closed, P!Tracked, FreshStatus, Closed, Tracked
    <3> HIDE DEF s
    <3>6. book[f].posted \in BOOLEAN
      BY EntryIs DEF IInv, Types
    <3>7. Upsert(e, s) = [status |-> s, posted |-> book[f].posted /\ ~(Closed(book[f]) /\ s \in Tracked)]
      <4>1. CASE f \notin low
        BY <4>1 DEF Upsert, ComesBack
      <4>2. CASE f \in low
        <5>1. ~Closed(book[f])
          BY <4>2 DEF IInv, ListInv, IsTracked, Tracked, Closed
        <5>2. e.status = "uncertain" /\ e.posted = book[f].posted
          BY <3>6, <4>2, <5>1 DEF Upsert, ComesBack
        <5>3. ~Closed(e)
          BY <5>2 DEF Closed
        <5> HIDE DEF e
        <5> QED  BY <3>6, <5>1, <5>2, <5>3 DEF Upsert, ComesBack
      <4> QED  BY <4>1, <4>2
    <3>8. P!Absent = Untracked
      BY DEF P!Absent, Untracked
    <3> QED  BY <3>2, <3>3, <3>4, <3>5, <3>7, <3>8
  <2> QED  BY <2>1, <2>2
<1> QED  BY <1>3 DEF P!AfterReview, checked, final

\* No more findings are inline than may be.
LEMMA PlanIsSmall ==
    ASSUME IInv, Anchor
    PROVE  LET plan == {f \in Findings : places'[f] = "inline"} IN
           plan \subseteq Others /\ Cardinality(plan) <= MaxFindings
<1> DEFINE plan == {f \in Findings : places'[f] = "inline"}
<1> DEFINE of == [i \in Inline |-> items[i].id]
<1>1. stage = "anchor" /\ items \in Seq(Items)
  BY DEF Anchor, IInv, Types
<1>2. Inline \subseteq News /\ News \subseteq DOMAIN items
  BY DEF Inline, Eligible, Anchors, News
<1>3. \A i \in DOMAIN items : items[i].id \in Findings /\ (places'[items[i].id] = "inline" <=> i \in Inline)
  BY <1>1, OwnPlace, PlacesAfter
<1>4. \A f \in plan : \E i \in News : items[i].id = f
  BY PlacesAfter
<1>5. \A f \in plan : \E i \in Inline : items[i].id = f
  BY <1>2, <1>3, <1>4
<1>6. \A i \in Inline : items[i].id \in plan
  BY <1>2, <1>3
<1>7. plan \subseteq Others
  BY <1>4 DEF Others
<1> HIDE DEF plan
<1>8. of \in Surjection(Inline, plan)
  BY <1>5, <1>6 DEF Surjection
<1>9. IsFiniteSet(Inline)
  BY <1>1, <1>2, PlacesIn
<1> HIDE DEF of
<1>10. IsFiniteSet(plan) /\ Cardinality(plan) <= Cardinality(Inline)
  BY <1>8, <1>9, FS_Surjection
<1>11. Cardinality(Inline) <= MaxFindings
  BY <1>1, InlinePlaces
<1>12. Cardinality(plan) <= MaxFindings
  BY <1>9, <1>10, <1>11, FS_CardinalityType, MaxFindingsAssumption
<1> QED  BY <1>7, <1>12 DEF plan

\* Publish counts as this module does.
LEMMA SameCardinality == \A S : P!Cardinality(S) = Cardinality(S)
<1> QED  BY Zenon DEF P!Cardinality, Cardinality

\* Anchoring is a step that Publish allows.
LEMMA AnchorFinishes ==
    ASSUME IInv, Anchor
    PROVE  P!Finish(P!Rechecked(start, Verdict), P!Final(start, Verdict, Found))
<1> DEFINE checked == P!Rechecked(start, Verdict)
<1> DEFINE final   == P!Final(start, Verdict, Found)
<1> DEFINE plan    == {f \in Findings : places'[f] = "inline"}
<1>1. /\ stage = "anchor" /\ stage' = "done" /\ items' = items
      /\ book' = [f \in Findings |-> NewEntry(f)]
      /\ reopened' = {items[i].id : i \in {j \in News : ComesBack(book[items[j].id], "open")}}
  BY DEF Anchor
<1>2. /\ DOMAIN final = {items[i].id : i \in DOMAIN items}
      /\ \A i \in DOMAIN items : final[items[i].id] = items[i].status
  BY <1>1, FinalIs
<1>3. \A f \in Findings : checked[f] = IF f \in low /\ Own(f) = {}
                                       THEN Upsert(book[f], "uncertain") ELSE book[f]
  BY <1>1, CheckedIs
<1>4. book' = P!AfterReview(checked, final, Gone)
  BY <1>1, AfterReviewIs
<1> HIDE DEF checked, final
<1>5. \A i \in DOMAIN items : items[i].id \in Findings /\ Own(items[i].id) = {i}
  BY <1>1, OwnPlace
<1>6. \A i, j \in DOMAIN items : items[i].id = items[j].id => i = j
  BY <1>1 DEF IInv, ListInv, Distinct
<1>7. \A i \in DOMAIN items : items[i].merged # NotMerged => items[i].status = "accepted"
  BY <1>1 DEF IInv, MergedInv
<1>8. Gone \subseteq P!Accepted(final)
  BY <1>2, <1>7 DEF Gone, P!Accepted
<1>9. P!Accepted(final) \ Gone = Others
  BY <1>2, <1>6 DEF Gone, Others, P!Accepted, News, IsPublishable
<1>10. Gone # {} => Others \cup P!Carried(checked) # {}
  <2> SUFFICES ASSUME NEW i \in DOMAIN items, items[i].merged # NotMerged
               PROVE  Others \cup P!Carried(checked) # {}
    BY DEF Gone
  <2>1. CASE items[i].merged \in Carried(book, items)
    <3> DEFINE f == items[i].merged
    <3>1. f \in Findings /\ book[f].status = "open" /\ book[f].posted
      BY <2>1 DEF Carried
    <3> HIDE DEF f
    <3>2. Upsert(book[f], "uncertain").posted /\ Upsert(book[f], "uncertain").status = "uncertain"
      BY <3>1 DEF Upsert, ComesBack, Closed
    <3>3. checked[f].posted /\ checked[f].status \in {"open", "uncertain"}
      BY <1>3, <3>1, <3>2
    <3>4. f \in P!Carried(checked)
      BY <3>1, <3>3 DEF P!Carried, P!HasPosted, P!IsTracked, P!Tracked
    <3> QED  BY <3>4
  <2>2. CASE \E j \in DOMAIN items : IsPublishable(items[j])
    BY <2>2 DEF Others, News
  <2> QED  BY <1>1, <2>1, <2>2 DEF IInv, MergedInv
<1>11. plan \subseteq Others /\ Cardinality(plan) <= MaxFindings
  BY PlanIsSmall
<1>12. {f \in Findings : places'[f] # "none"} = Others
  BY <1>5, PlacesAfter DEF Others, News
<1>13. reopened' = {f \in Others : P!Closed(checked[f])}
  <2>1. ASSUME NEW i \in News
        PROVE  ComesBack(book[items[i].id], "open") <=> P!Closed(checked[items[i].id])
    <3>1. checked[items[i].id] = book[items[i].id]
      BY <1>3, <1>5 DEF News
    <3> QED  BY <3>1 DEF ComesBack, Closed, P!Closed, Tracked
  <2> QED  BY <1>1, <2>1 DEF Others
<1> DEFINE report == [key |-> "head", complete |-> FALSE, book |-> book']
<1>14. /\ AbstractRun.on = "head"
       /\ AbstractRun' = [AbstractRun EXCEPT
            !.phase = "check", !.plan = plan, !.surfaced = Others, !.reopened = reopened',
            !.state = report]
  <2> HIDE DEF plan
  <2>1. AbstractRun' =
          [phase |-> "check", on |-> "head", state |-> report, plan |-> plan,
           surfaced |-> Others, reopened |-> reopened', sent |-> {}, refused |-> FALSE]
    BY <1>1, <1>12 DEF AbstractRun, plan
  <2> DEFINE phase    == IF stage = "done" THEN "check" ELSE "review"
  <2> DEFINE state    == [book     |-> IF stage = "done" THEN book ELSE start,
                          complete |-> FALSE,
                          key      |-> IF stage = "done" THEN "head" ELSE "none"]
  <2> DEFINE inline   == {f \in Findings : places[f] = "inline"}
  <2> DEFINE surfaced == {f \in Findings : places[f] # "none"}
  <2>2. AbstractRun =
          [phase |-> phase, on |-> "head", state |-> state, plan |-> inline,
           surfaced |-> surfaced, reopened |-> reopened, sent |-> {}, refused |-> FALSE]
    BY DEF AbstractRun
  <2> HIDE DEF phase, state, inline, surfaced, report
  <2>3. AbstractRun.on = "head"
    BY <2>2
  <2> DEFINE fields == {"phase", "on", "state", "plan", "surfaced", "reopened", "sent", "refused"}
  <2> DEFINE next == [AbstractRun EXCEPT
            !.phase = "check", !.plan = plan, !.surfaced = Others, !.reopened = reopened',
            !.state = report]
  <2>4. DOMAIN AbstractRun = fields
    BY <2>2
  <2>5. DOMAIN next = fields /\ next = [x \in fields |-> next[x]]
    BY <2>4, Zenon
  <2>6. /\ next.phase = "check" /\ next.plan = plan /\ next.surfaced = Others
        /\ next.reopened = reopened' /\ next.state = report
    BY <2>4
  <2>7. next.on = "head" /\ next.sent = {} /\ next.refused = FALSE
    BY <2>2, <2>4
  <2> HIDE DEF next
  <2>8. next = [phase |-> "check", on |-> "head", state |-> report, plan |-> plan,
                surfaced |-> Others, reopened |-> reopened', sent |-> {}, refused |-> FALSE]
    BY <2>5, <2>6, <2>7
  <2>9. AbstractRun' = next
    BY <2>1, <2>8
  <2> QED  BY <2>3, <2>9 DEF next
<1> HIDE DEF plan
<1>15. P!Finish(checked, final)
  <2>1. P!Cardinality(plan) <= MaxFindings
    BY <1>11, SameCardinality
  <2>2. Others = P!Accepted(final) \ Gone
    BY <1>9
  <2>3. AbstractRun' = [AbstractRun EXCEPT
          !.phase = "check", !.plan = plan, !.surfaced = P!Accepted(final) \ Gone,
          !.reopened = {f \in P!Accepted(final) \ Gone : P!Closed(checked[f])},
          !.state = [key |-> AbstractRun.on, complete |-> FALSE,
                     book |-> P!AfterReview(checked, final, Gone)]]
    <3>1. report = [key |-> AbstractRun.on, complete |-> FALSE,
                    book |-> P!AfterReview(checked, final, Gone)]
      BY <1>4, <1>14
    <3>2. reopened' = {f \in P!Accepted(final) \ Gone : P!Closed(checked[f])}
      BY <1>13, <2>2
    <3> HIDE DEF report
    <3> QED  BY Zenon, <1>14, <2>2, <3>1, <3>2
  <2>4. FALSE \in BOOLEAN /\ plan \in SUBSET (P!Accepted(final) \ Gone)
    BY <1>11, <2>2
  <2>5. Gone # {} => (P!Accepted(final) \ Gone) \cup P!Carried(checked) # {}
    BY <1>10, <2>2
  <2>6. Gone \in SUBSET P!Accepted(final)
    BY <1>8
  <2> QED  BY Zenon, <2>1, <2>3, <2>4, <2>5, <2>6 DEF P!Finish
<1> QED  BY <1>15 DEF checked, final

-------------------------------------------------------------------------------
(* Theorems.                                                               *)

\* Every step keeps the invariant.
LEMMA StepsKeepInv ==
    ASSUME IInv, [FindingsNext]_findingsVars  PROVE IInv'
<1>1. CASE Recheck
  BY <1>1, RecheckKeepsInv
<1>2. CASE Investigate
  BY <1>2, InvestigateKeepsInv
<1>3. CASE Validate
  BY <1>3, ValidateKeepsInv
<1>4. CASE Dedup
  BY <1>4, DedupKeepsInv
<1>5. CASE Anchor
  BY <1>5, AnchorKeepsInv
<1>6. CASE UNCHANGED findingsVars
  BY <1>6 DEF findingsVars, IInv, Types, BookInv, CandidatesInv, ListInv, MergedInv, Distinct,
     IsNews, IsTracked, Reentering, HasPosted, Own, Carried
<1> QED  BY <1>1, <1>2, <1>3, <1>4, <1>5, <1>6 DEF FindingsNext

\* The list, the state and what is below the threshold are as the invariant says, for
\* any findings, severities, lines, candidates, verdicts and groups.
THEOREM ListIsSound == FindingsSpec => []IInv
<1>1. FindingsInit => IInv
  BY InvAtStart
<1>2. IInv /\ [FindingsNext]_findingsVars => IInv'
  BY StepsKeepInv
<1> QED  BY <1>1, <1>2, PTL DEF FindingsSpec

\* Whatever a run accepts, new or again, it shows: prepare to anchor, whatever the
\* validators and the model that groups duplicates answer.
THEOREM NothingIsLost == FindingsSpec => []NothingVanishes
<1>1. FindingsInit => NothingVanishes
  BY DEF FindingsInit, NothingVanishes
<1>2. IInv /\ NothingVanishes /\ [FindingsNext]_findingsVars => NothingVanishes'
  <2> SUFFICES ASSUME IInv, NothingVanishes, [FindingsNext]_findingsVars
               PROVE  NothingVanishes'
    OBVIOUS
  <2>1. CASE Anchor
    BY <2>1, AnchorShows
  <2>2. CASE Recheck \/ Investigate \/ Validate \/ Dedup
    BY <2>2 DEF Recheck, Investigate, Validate, Dedup, NothingVanishes
  <2>3. CASE UNCHANGED findingsVars
    BY <2>3 DEF findingsVars, NothingVanishes, IsShown, Carried, Own
  <2> QED  BY <2>1, <2>2, <2>3 DEF FindingsNext
<1> QED  BY <1>1, <1>2, ListIsSound, PTL DEF FindingsSpec

\* Of the findings that may be inline, the most severe ones are, and as many as
\* review.max_findings allows.
THEOREM WorstIsInline == FindingsSpec => []MostSevereInline
<1>1. FindingsInit => MostSevereInline
  BY DEF FindingsInit, MostSevereInline
<1>2. IInv /\ MostSevereInline /\ [FindingsNext]_findingsVars => MostSevereInline'
  <2> SUFFICES ASSUME IInv, MostSevereInline, [FindingsNext]_findingsVars
               PROVE  MostSevereInline'
    OBVIOUS
  <2>1. CASE Anchor
    BY <2>1, AnchorPlacesMostSevere
  <2>2. CASE Recheck \/ Investigate \/ Validate \/ Dedup
    BY <2>2 DEF Recheck, Investigate, Validate, Dedup, MostSevereInline
  <2>3. CASE UNCHANGED findingsVars
    BY <2>3 DEF findingsVars, MostSevereInline, HeadLines, IsPublishable
  <2> QED  BY <2>1, <2>2, <2>3 DEF FindingsNext
<1> QED  BY <1>1, <1>2, ListIsSound, PTL DEF FindingsSpec

\* The five stages of a run together do what Publish takes for one step.
THEOREM StagesImplementReview == FindingsSpec => FinishImplementsReview
<1>1. IInv /\ [FindingsNext]_findingsVars =>
        [stage' = "done" =>
           P!Finish(P!Rechecked(start, Verdict), P!Final(start, Verdict, Found))]_findingsVars
  <2> SUFFICES ASSUME IInv, FindingsNext, stage' = "done"
               PROVE  P!Finish(P!Rechecked(start, Verdict), P!Final(start, Verdict, Found))
    OBVIOUS
  <2>1. Anchor
    BY DEF FindingsNext, Recheck, Investigate, Validate, Dedup
  <2> QED  BY <2>1, AnchorFinishes
<1> QED  BY <1>1, ListIsSound, PTL DEF FindingsSpec, FinishImplementsReview

\* Nothing is reported before the run is done.
NothingYet == stage # "done" => places = [f \in Findings |-> "none"] /\ reopened = {}

LEMMA NothingIsReportedEarly == FindingsSpec => []NothingYet
<1>1. FindingsInit => NothingYet
  BY DEF FindingsInit, NothingYet
<1>2. NothingYet /\ [FindingsNext]_findingsVars => NothingYet'
  BY DEF NothingYet, FindingsNext, Recheck, Investigate, Validate, Dedup, Anchor, findingsVars
<1> QED  BY <1>1, <1>2, PTL DEF FindingsSpec

\* The verdicts of a run, and what it found, are among those that Publish allows.
LEMMA VerdictsArePublishs ==
    ASSUME IInv, stage = "anchor"
    PROVE  /\ Verdict \in [Findings -> P!Verdicts]
           /\ Found \in [Findings -> P!Verdicts \cup {"none"}]
           /\ \A f \in Findings : ~P!IsTracked(start, f) => Verdict[f] = "uncertain"
<1>1. \A f \in Findings : Verdict[f] \in P!Verdicts
  <2> SUFFICES ASSUME NEW f \in Findings, IsTracked(start, f)
               PROVE  rechecks[f].status \in P!Verdicts
    BY DEF Verdict, P!Verdicts
  <2>1. rechecks[f] # NoOpinion
    BY DEF IInv, BookInv
  <2>2. rechecks[f] \in Opinions
    BY <2>1 DEF IInv, Types
  <2> QED  BY <2>2 DEF Opinions, P!Verdicts
<1>2. \A f \in Findings : Found[f] \in P!Verdicts \cup {"none"}
  <2> SUFFICES ASSUME NEW f \in Findings, Own(f) # {}
               PROVE  items[Min(Own(f))].status \in P!Verdicts
    BY DEF Found
  <2>1. PICK i \in DOMAIN items : items[i].id = f
    BY DEF Own
  <2>2. Own(f) = {i} /\ Min(Own(f)) = i
    BY <2>1, OwnPlace
  <2>3. items[i] \in Items /\ items[i].status # "none"
    BY <2>1, ItemTypes DEF IInv, Types, ListInv
  <2> QED  BY <2>2, <2>3 DEF Items, P!Verdicts
<1> QED  BY <1>1, <1>2 DEF Verdict, Found, P!IsTracked, P!Tracked, IsTracked, Tracked

\* Of all the steps of a run, what Publish sees is one Review; the others change
\* nothing of the report or of the state that is kept.
THEOREM RunIsOneReview == FindingsSpec => [][P!Review]_AbstractRun
<1>1. IInv /\ NothingYet /\ NothingYet' /\ [FindingsNext]_findingsVars => [P!Review]_AbstractRun
  <2> SUFFICES ASSUME IInv, NothingYet, NothingYet', [FindingsNext]_findingsVars
               PROVE  [P!Review]_AbstractRun
    OBVIOUS
  <2>1. CASE Anchor
    <3>1. stage = "anchor"
      BY <2>1 DEF Anchor
    <3>2. P!Finish(P!Rechecked(start, Verdict), P!Final(start, Verdict, Found))
      BY <2>1, AnchorFinishes
    <3>3. AbstractRun.phase = "review" /\ AbstractRun.state.book = start
      BY <3>1 DEF AbstractRun
    <3>4. /\ Verdict \in [Findings -> P!Verdicts]
          /\ Found \in [Findings -> P!Verdicts \cup {"none"}]
          /\ \A f \in Findings : ~P!IsTracked(start, f) => Verdict[f] = "uncertain"
      BY <3>1, VerdictsArePublishs
    <3> QED  BY Zenon, <3>2, <3>3, <3>4 DEF P!Review
  <2>2. CASE Recheck \/ Investigate \/ Validate \/ Dedup
    <3>1. /\ stage # "done" /\ stage' # "done" /\ start' = start
          /\ places' = places /\ reopened' = reopened
      BY <2>2 DEF Recheck, Investigate, Validate, Dedup
    <3> QED  BY <3>1 DEF AbstractRun
  <2>3. CASE UNCHANGED findingsVars
    BY <2>3 DEF findingsVars, AbstractRun
  <2> QED  BY <2>1, <2>2, <2>3 DEF FindingsNext
<1> QED  BY <1>1, ListIsSound, NothingIsReportedEarly, PTL DEF FindingsSpec

-------------------------------------------------------------------------------
(* Reading a text line by line.                                           *)

\* g[n] is the parser after n lines of a text, from p.
Follows(g, p, text) ==
    g[0] = p /\ \A n \in 1..Len(text) : g[n] = ReadLine(g[n - 1], text[n])

\* There is a parser after each line.
LEMMA ReadsFollow ==
    ASSUME NEW S, NEW text \in Seq(S), NEW p
    PROVE  \E g : Follows(g, p, text)
<1> DEFINE L == Len(text)
<1> DEFINE Upto(g, m) == g[0] = p /\ \A n \in 1..m : g[n] = ReadLine(g[n - 1], text[n])
<1> DEFINE T == {m \in Nat : \E g : Upto(g, m)}
<1>1. 0 \in T
  <2> DEFINE g == [n \in 0..0 |-> p]
  <2>1. Upto(g, 0)
    OBVIOUS
  <2> QED  BY <2>1
<1>2. ASSUME NEW m \in Nat, m \in T  PROVE m + 1 \in T
  <2>1. PICK g : Upto(g, m)
    BY <1>2
  <2> DEFINE h == [n \in 0..m + 1 |-> IF n = m + 1 THEN ReadLine(g[m], text[m + 1]) ELSE g[n]]
  <2>2. h[m + 1] = ReadLine(g[m], text[m + 1]) /\ \A n \in 0..m : h[n] = g[n]
    OBVIOUS
  <2> HIDE DEF h
  <2>3. ASSUME NEW n \in 1..m + 1  PROVE h[n] = ReadLine(h[n - 1], text[n])
    <3>1. CASE n = m + 1
      <4>1. n - 1 = m /\ m \in 0..m
        BY <3>1
      <4> QED  BY <2>2, <3>1, <4>1
    <3>2. CASE n \in 1..m
      <4>1. n \in 0..m /\ n - 1 \in 0..m
        BY <3>2
      <4> QED  BY <2>1, <2>2, <3>2, <4>1
    <3> QED  BY <3>1, <3>2
  <2>4. Upto(h, m + 1)
    BY <2>1, <2>2, <2>3
  <2> HIDE DEF Upto
  <2> QED  BY <2>4
<1> HIDE DEF T
<1>3. L \in T
  BY <1>1, <1>2, AllNumbers
<1> QED  BY <1>3 DEF T, Follows

\* The parser after a text is the one after its last line.
LEMMA ReadIs ==
    ASSUME NEW S, NEW text \in Seq(S), NEW p, NEW g, Follows(g, p, text)
    PROVE  ReadAll(p, text) = g[Len(text)]
<1> DEFINE L == Len(text)
<1> DEFINE IsIt(f) == f = [n \in 0..L |-> IF n = 0 THEN p ELSE ReadLine(f[n - 1], text[n])]
<1> DEFINE at == CHOOSE f : IsIt(f)
<1>1. ReadAll(p, text) = at[L]
  BY DEF ReadAll
<1>2. L \in Nat
  OBVIOUS
<1>3. IsIt([n \in 0..L |-> g[n]])
  <2> DEFINE f == [n \in 0..L |-> g[n]]
  <2>1. \A n \in 0..L : f[n] = IF n = 0 THEN p ELSE ReadLine(f[n - 1], text[n])
    <3> TAKE n \in 0..L
    <3>1. CASE n = 0
      BY <1>2, <3>1 DEF Follows
    <3>2. CASE n # 0
      <4>1. n \in 1..L /\ n - 1 \in 0..L
        BY <1>2, <3>2
      <4> QED  BY <3>2, <4>1 DEF Follows
    <3> QED  BY <3>1, <3>2
  <2>2. f = [n \in 0..L |-> f[n]]
    OBVIOUS
  <2> HIDE DEF f
  <2>3. IsIt(f)
    BY <2>1, <2>2
  <2> QED  BY <2>3 DEF f
<1> HIDE DEF IsIt
<1>4. IsIt(at)
  BY <1>3
<1> HIDE DEF at
<1>5. at[0] = p /\ \A n \in 1..L : at[n] = ReadLine(at[n - 1], text[n])
  BY <1>2, <1>4 DEF IsIt
<1> DEFINE T == {m \in Nat : m \in 0..L => at[m] = g[m]}
<1>6. 0 \in T
  BY <1>5 DEF Follows
<1>7. ASSUME NEW m \in Nat, m \in T  PROVE m + 1 \in T
  <2> SUFFICES ASSUME m + 1 \in 1..L  PROVE at[m + 1] = g[m + 1]
    BY <1>2
  <2>1. m \in 0..L /\ (m + 1) - 1 = m
    BY <1>2
  <2> QED  BY <1>5, <1>7, <2>1 DEF Follows
<1> HIDE DEF T
<1>8. L \in T
  BY <1>2, <1>6, <1>7, AllNumbers
<1>9. at[L] = g[L]
  BY <1>2, <1>8 DEF T
<1> QED  BY <1>1, <1>9

\* A text is read to its end by reading its beginning first.
LEMMA ReadBoth ==
    ASSUME NEW S, NEW s \in Seq(S), NEW t \in Seq(S), NEW p
    PROVE  ReadAll(p, s \o t) = ReadAll(ReadAll(p, s), t)
<1>1. PICK g : Follows(g, p, s \o t)
  <2>1. s \o t \in Seq(S)
    OBVIOUS
  <2> QED  BY <2>1, ReadsFollow
<1> DEFINE h == [n \in 0..Len(t) |-> g[Len(s) + n]]
<1>2. /\ Len(s) \in Nat /\ Len(t) \in Nat /\ Len(s \o t) = Len(s) + Len(t)
      /\ \A n \in 1..Len(s) : (s \o t)[n] = s[n]
      /\ \A n \in 1..Len(t) : (s \o t)[Len(s) + n] = t[n]
  OBVIOUS
<1>3. Follows(g, p, s)
  BY <1>1, <1>2 DEF Follows
<1>4. ReadAll(p, s) = g[Len(s)]
  BY <1>3, ReadIs
<1>5. Follows(h, g[Len(s)], t)
  <2>1. h[0] = g[Len(s)]
    BY <1>2
  <2>2. ASSUME NEW n \in 1..Len(t)  PROVE h[n] = ReadLine(h[n - 1], t[n])
    <3>1. Len(s) + n \in 1..Len(s \o t) /\ (Len(s) + n) - 1 = Len(s) + (n - 1) /\ n - 1 \in 0..Len(t)
      BY <1>2
    <3>2. g[Len(s) + n] = ReadLine(g[Len(s) + (n - 1)], (s \o t)[Len(s) + n])
      BY <1>1, <3>1 DEF Follows
    <3>3. h[n] = g[Len(s) + n] /\ h[n - 1] = g[Len(s) + (n - 1)]
      BY <1>2, <3>1
    <3> QED  BY <1>2, <3>2, <3>3
  <2> QED  BY <2>1, <2>2 DEF Follows
<1>6. ReadAll(g[Len(s)], t) = h[Len(t)]
  BY <1>5, ReadIs
<1>7. h[Len(t)] = g[Len(s \o t)]
  <2>1. Len(t) \in 0..Len(t)
    BY <1>2
  <2> QED  BY <1>2, <2>1
<1>8. ReadAll(p, s \o t) = g[Len(s \o t)]
  <2>1. s \o t \in Seq(S)
    OBVIOUS
  <2> QED  BY <1>1, <2>1, ReadIs
<1> QED  BY <1>4, <1>6, <1>7, <1>8

\* What each line of a text keeps, the text keeps.
LEMMA ReadKeeps ==
    ASSUME NEW S, NEW text \in Seq(S), NEW I, NEW p \in I[0],
           \A n \in 1..Len(text) : \A q \in I[n - 1] : ReadLine(q, text[n]) \in I[n]
    PROVE  ReadAll(p, text) \in I[Len(text)]
<1>1. PICK g : Follows(g, p, text)
  BY ReadsFollow
<1>2. Len(text) \in Nat
  OBVIOUS
<1> DEFINE T == {m \in Nat : m \in 0..Len(text) => g[m] \in I[m]}
<1>3. 0 \in T
  BY <1>1 DEF Follows
<1>4. ASSUME NEW m \in Nat, m \in T  PROVE m + 1 \in T
  <2> SUFFICES ASSUME m + 1 \in 1..Len(text)  PROVE g[m + 1] \in I[m + 1]
    BY <1>2
  <2>1. m \in 0..Len(text) /\ (m + 1) - 1 = m
    BY <1>2
  <2> QED  BY <1>1, <1>4, <2>1 DEF Follows
<1> HIDE DEF T
<1>5. Len(text) \in T
  BY <1>2, <1>3, <1>4, AllNumbers
<1>6. g[Len(text)] \in I[Len(text)]
  BY <1>2, <1>5 DEF T
<1> QED  BY <1>1, <1>6, ReadIs

\* A text of no line changes nothing.
LEMMA ReadNone == ASSUME NEW p  PROVE ReadAll(p, <<>>) = p
<1> DEFINE g == [n \in 0..0 |-> p]
<1>1. Follows(g, p, <<>>) /\ g[Len(<<>>)] = p
  BY DEF Follows
<1> HIDE DEF g
<1>2. <<>> \in Seq({})
  OBVIOUS
<1> QED  BY <1>1, <1>2, ReadIs

\* A text of one line is read by reading the line.
LEMMA ReadOne ==
    ASSUME NEW p, NEW a  PROVE ReadAll(p, <<a>>) = ReadLine(p, a)
<1> DEFINE g == [n \in 0..1 |-> IF n = 0 THEN p ELSE ReadLine(p, a)]
<1>1. <<a>> \in Seq({a}) /\ Len(<<a>>) = 1 /\ <<a>>[1] = a
  OBVIOUS
<1>2. g[0] = p /\ g[1] = ReadLine(p, a)
  OBVIOUS
<1> HIDE DEF g
<1>3. Follows(g, p, <<a>>)
  <2>1. \A n \in 1..1 : n = 1 /\ n - 1 = 0
    OBVIOUS
  <2> QED  BY <1>1, <1>2, <2>1 DEF Follows
<1> QED  BY <1>1, <1>2, <1>3, ReadIs

\* The two lines of a rename, or of the paths.
LEMMA ReadTwo ==
    ASSUME NEW p, NEW a, NEW b  PROVE ReadAll(p, <<a, b>>) = ReadLine(ReadLine(p, a), b)
<1> DEFINE r == ReadLine(p, a)
<1> DEFINE g == [n \in 0..2 |-> IF n = 0 THEN p ELSE IF n = 1 THEN r ELSE ReadLine(r, b)]
<1> HIDE DEF r
<1>1. /\ <<a, b>> \in Seq({a, b}) /\ Len(<<a, b>>) = 2
      /\ <<a, b>>[1] = a /\ <<a, b>>[2] = b
  OBVIOUS
<1>2. g[0] = p /\ g[1] = r /\ g[2] = ReadLine(r, b)
  OBVIOUS
<1> HIDE DEF g
<1>3. Follows(g, p, <<a, b>>)
  <2>1. \A n \in 1..2 : (n = 1 /\ n - 1 = 0) \/ (n = 2 /\ n - 1 = 1)
    OBVIOUS
  <2> QED  BY <1>1, <1>2, <2>1 DEF Follows, r
<1> QED  BY <1>1, <1>2, <1>3, ReadIs DEF r

\* What each part of a text keeps, the parts in a row keep.
LEMMA ReadFlat ==
    ASSUME NEW S, NEW parts \in Seq(Seq(S)), NEW I, NEW p \in I[0],
           \A n \in 1..Len(parts) : \A q \in I[n - 1] : ReadAll(q, parts[n]) \in I[n]
    PROVE  FlattenSeq(parts) \in Seq(S) /\ ReadAll(p, FlattenSeq(parts)) \in I[Len(parts)]
<1> DEFINE L == Len(parts)
<1>1. L \in Nat /\ \A n \in 1..L : parts[n] \in Seq(S)
  OBVIOUS
<1>2. CASE L = 0
  <2>1. parts = <<>> /\ FlattenSeq(parts) = parts
    BY <1>2 DEF FlattenSeq
  <2>2. <<>> \in Seq(S)
    OBVIOUS
  <2> QED  BY <1>2, <2>1, <2>2, ReadNone
<1>3. CASE L # 0
  <2> DEFINE Upto(f, m) == f = [i \in 1..m |-> IF i = 1 THEN parts[i] ELSE f[i - 1] \o parts[i]]
  <2> DEFINE flatten == CHOOSE f : Upto(f, L)
  <2>1. FlattenSeq(parts) = flatten[L]
    BY <1>3 DEF FlattenSeq
  <2>2. \E f : Upto(f, L)
    <3> DEFINE T == {m \in Nat : \E f : Upto(f, m)}
    <3>1. 0 \in T
      <4>1. Upto(<<>>, 0)
        OBVIOUS
      <4> QED  BY <4>1
    <3>2. ASSUME NEW m \in Nat, m \in T  PROVE m + 1 \in T
      <4>1. PICK f : Upto(f, m)
        BY <3>2
      <4> DEFINE h == [i \in 1..m + 1 |-> IF i <= m THEN f[i]
                                 ELSE IF i = 1 THEN parts[i] ELSE f[m] \o parts[i]]
      <4>2. \A i \in 1..m : h[i] = f[i]
        OBVIOUS
      <4>3. h[m + 1] = IF m = 0 THEN parts[m + 1] ELSE f[m] \o parts[m + 1]
        OBVIOUS
      <4>4. h = [i \in 1..m + 1 |-> h[i]]
        OBVIOUS
      <4> HIDE DEF h
      <4>5. ASSUME NEW i \in 1..m + 1
            PROVE  h[i] = IF i = 1 THEN parts[i] ELSE h[i - 1] \o parts[i]
        <5>1. CASE i = m + 1
          <6>1. m # 0 => h[m] = f[m] /\ i - 1 = m
            BY <4>2, <5>1
          <6> QED  BY <4>3, <5>1, <6>1
        <5>2. CASE i \in 1..m
          <6>1. i # 1 => h[i - 1] = f[i - 1]
            BY <4>2, <5>2
          <6>2. f[i] = IF i = 1 THEN parts[i] ELSE f[i - 1] \o parts[i]
            BY <4>1, <5>2
          <6> QED  BY <4>2, <5>2, <6>1, <6>2
        <5> QED  BY <5>1, <5>2
      <4>6. Upto(h, m + 1)
        BY <4>4, <4>5
      <4> HIDE DEF Upto
      <4> QED  BY <4>6
    <3> HIDE DEF T
    <3>3. L \in T
      BY <1>1, <3>1, <3>2, AllNumbers
    <3> QED  BY <3>3 DEF T
  <2>3. Upto(flatten, L)
    BY <2>2
  <2> HIDE DEF flatten
  <2>4. /\ flatten[1] = parts[1]
        /\ \A m \in Nat : m # 0 /\ m + 1 \in 1..L => flatten[m + 1] = flatten[m] \o parts[m + 1]
    <3>1. \A i \in 1..L : flatten[i] = IF i = 1 THEN parts[i] ELSE flatten[i - 1] \o parts[i]
      BY <2>3
    <3>2. 1 \in 1..L
      BY <1>1, <1>3
    <3>3. \A m \in Nat : m # 0 => m + 1 # 1 /\ (m + 1) - 1 = m
      OBVIOUS
    <3> HIDE DEF L
    <3> QED  BY <3>1, <3>2, <3>3
  <2> HIDE DEF Upto
  <2> DEFINE T == {m \in Nat : m \in 1..L => flatten[m] \in Seq(S) /\ ReadAll(p, flatten[m]) \in I[m]}
  <2>5. 0 \in T
    OBVIOUS
  <2>6. ASSUME NEW m \in Nat, m \in T  PROVE m + 1 \in T
    <3> SUFFICES ASSUME m + 1 \in 1..L
                 PROVE  flatten[m + 1] \in Seq(S) /\ ReadAll(p, flatten[m + 1]) \in I[m + 1]
      OBVIOUS
    <3>1. CASE m = 0
      BY <1>1, <2>4, <3>1
    <3>2. CASE m # 0
      <4>1. flatten[m] \in Seq(S) /\ ReadAll(p, flatten[m]) \in I[m]
        BY <1>1, <2>6, <3>2
      <4>2. parts[m + 1] \in Seq(S) /\ (m + 1) - 1 = m
        BY <1>1
      <4>3. flatten[m + 1] = flatten[m] \o parts[m + 1]
        BY <2>4, <3>2
      <4>4. ReadAll(p, flatten[m + 1]) = ReadAll(ReadAll(p, flatten[m]), parts[m + 1])
        BY <4>1, <4>2, <4>3, ReadBoth
      <4>5. flatten[m + 1] \in Seq(S)
        BY <4>1, <4>2, <4>3
      <4> QED  BY <4>1, <4>2, <4>4, <4>5
    <3> QED  BY <3>1, <3>2
  <2> HIDE DEF T
  <2>7. L \in T
    BY <1>1, <2>5, <2>6, AllNumbers
  <2> QED  BY <1>1, <1>3, <2>1, <2>7 DEF T
<1> QED  BY <1>2, <1>3

-------------------------------------------------------------------------------
(* What a line does to the parser.                                        *)

NewLines  == [mark : {"+", "-", " "}, old : Nat, new : Nat]
NewFiles  == [old : Paths \cup {NoPath}, new : Paths \cup {NoPath}, hunks : Seq(Seq(NewLines))]
Parsers   == [files : Seq(NewFiles), file : NewFiles, open : BOOLEAN, old : Nat, new : Nat]

\* The parser is in a file, or in a hunk of it.
InFile(p) == p \in Parsers /\ p.file.new # NoPath
InHunk(p) == InFile(p) /\ p.open = TRUE /\ p.file.hunks # <<>>

\* The numbers that the lines of hunks have on the new side.
AllNew(hunks) == UNION {NewNumbers(lines) : lines \in Range(hunks)}

\* A file that has a path is one.
LEMMA IsAFile == ASSUME NEW p, InFile(p)  PROVE p.file # NoFile
BY DEF InFile, NoFile

\* A new hunk has no numbers yet.
LEMMA HunkAdds ==
    ASSUME NEW hunks \in Seq(Seq(NewLines))
    PROVE  /\ Append(hunks, <<>>) \in Seq(Seq(NewLines)) /\ Append(hunks, <<>>) # <<>>
           /\ AllNew(Append(hunks, <<>>)) = AllNew(hunks)
<1> DEFINE all == Append(hunks, <<>>)
<1>1. all \in Seq(Seq(NewLines)) /\ all # <<>> /\ Len(all) = Len(hunks) + 1
  <2>1. <<>> \in Seq(NewLines)
    OBVIOUS
  <2>2. all \in Seq(Seq(NewLines)) /\ Len(all) = Len(hunks) + 1 /\ Len(hunks) \in Nat
    BY <2>1
  <2> HIDE DEF all
  <2>3. all # <<>>
    BY <2>2
  <2> QED  BY <2>2, <2>3
<1>2. /\ Len(hunks) \in Nat /\ all[Len(hunks) + 1] = <<>>
      /\ \A i \in 1..Len(hunks) : all[i] = hunks[i]
  OBVIOUS
<1>3. DOMAIN all = 1..Len(hunks) + 1 /\ DOMAIN hunks = 1..Len(hunks)
  BY <1>1
<1> HIDE DEF all
<1>4. Range(all) = Range(hunks) \cup {<<>>}
  <2>1. \A i \in 1..Len(hunks) + 1 : i = Len(hunks) + 1 \/ i \in 1..Len(hunks)
    BY <1>2
  <2>2. \A i \in 1..Len(hunks) : i \in 1..Len(hunks) + 1
    BY <1>2
  <2>3. Len(hunks) + 1 \in 1..Len(hunks) + 1
    BY <1>2
  <2> QED  BY <1>2, <1>3, <2>1, <2>2, <2>3 DEF Range
<1>5. NewNumbers(<<>>) = {}
  BY DEF NewNumbers
<1>6. AllNew(all) = AllNew(hunks)
  BY <1>4, <1>5 DEF AllNew
<1> QED  BY <1>1, <1>6 DEF all

\* A line of a hunk adds its number, if it is on the new side.
LEMMA LineAdds ==
    ASSUME NEW hunks \in Seq(Seq(NewLines)), hunks # <<>>, NEW line \in NewLines
    PROVE  /\ AddLine(hunks, line) \in Seq(Seq(NewLines)) /\ AddLine(hunks, line) # <<>>
           /\ AllNew(AddLine(hunks, line)) =
                AllNew(hunks) \cup (IF line.mark = "-" THEN {} ELSE {line.new})
<1> DEFINE L == Len(hunks)
<1> DEFINE last == hunks[L]
<1> DEFINE all == AddLine(hunks, line)
<1> DEFINE more == Append(last, line)
<1>1. L \in Nat /\ L \in 1..L /\ DOMAIN hunks = 1..L
  OBVIOUS
<1>2. last \in Seq(NewLines)
  BY <1>1
<1>3. more \in Seq(NewLines)
  BY <1>2
<1>4. /\ all \in Seq(Seq(NewLines)) /\ DOMAIN all = 1..L
      /\ all[L] = more /\ \A i \in 1..L : i # L => all[i] = hunks[i]
  <2>1. all = [hunks EXCEPT ![L] = more]
    BY DEF AddLine
  <2> HIDE DEF all, more, L
  <2> QED  BY <1>1, <1>3, <2>1
<1>5. all # <<>>
  <2>1. DOMAIN <<>> = {}
    OBVIOUS
  <2>2. L \in DOMAIN all
    BY <1>1, <1>4
  <2> HIDE DEF all, L
  <2> QED  BY Zenon, <2>1, <2>2
<1>6. NewNumbers(more) = NewNumbers(last) \cup (IF line.mark = "-" THEN {} ELSE {line.new})
  <2> DEFINE n == Len(last)
  <2>1. /\ n \in Nat /\ DOMAIN last = 1..n /\ DOMAIN more = 1..n + 1
        /\ more[n + 1] = line /\ \A i \in 1..n : more[i] = last[i]
    BY <1>2
  <2>2. \A i : i \in 1..n + 1 <=> i \in 1..n \/ i = n + 1
    BY <2>1
  <2> HIDE DEF more, last, n
  <2> QED  BY <2>1, <2>2 DEF NewNumbers
<1> HIDE DEF all, last, more
<1>7. AllNew(all) = AllNew(hunks) \cup NewNumbers(more)
  <2>1. \A x : x \in AllNew(all) <=> \E i \in 1..L : x \in NewNumbers(all[i])
    BY <1>4 DEF AllNew, Range
  <2>2. \A x : x \in AllNew(hunks) <=> \E i \in 1..L : x \in NewNumbers(hunks[i])
    BY <1>1 DEF AllNew, Range
  <2>3. NewNumbers(hunks[L]) \subseteq NewNumbers(more)
    BY <1>6 DEF last
  <2>4. ASSUME NEW x  PROVE x \in AllNew(all) <=> x \in AllNew(hunks) \cup NewNumbers(more)
    <3> HIDE DEF L
    <3> QED  BY <1>1, <1>4, <2>1, <2>2, <2>3
  <2> QED  BY <2>4
<1>8. NewNumbers(last) \subseteq AllNew(hunks)
  BY <1>1 DEF AllNew, Range, last
<1> QED  BY <1>4, <1>5, <1>6, <1>7, <1>8 DEF all

\* What a parser is made of.
LEMMA ParserIs ==
    ASSUME NEW files \in Seq(NewFiles), NEW f \in NewFiles, NEW o \in BOOLEAN,
           NEW m \in Nat, NEW n \in Nat
    PROVE  [files |-> files, file |-> f, open |-> o, old |-> m, new |-> n] \in Parsers
BY DEF Parsers

\* A file begins.
LEMMA ReadsGit ==
    ASSUME NEW p \in Parsers, NEW path \in Paths, NEW q, q = ReadLine(p, Line("git", path))
    PROVE  /\ InFile(q) /\ q.files = Keep(p) /\ q.file = [old |-> path, new |-> path, hunks |-> <<>>]
<1>1. Reads(Line("git", path)) = "git" /\ Line("git", path).path = path
  BY DEF Reads, Line
<1> DEFINE f == [old |-> path, new |-> path, hunks |-> <<>>]
<1>2. q = [files |-> Keep(p), file |-> f, open |-> FALSE, old |-> 0, new |-> 0]
  BY <1>1 DEF ReadLine, Parsing
<1>3. Keep(p) \in Seq(NewFiles)
  BY DEF Keep, Parsers
<1>4. f \in NewFiles /\ f.new # NoPath
  BY PathsAssumption DEF NewFiles
<1> HIDE DEF f
<1>5. q.files = Keep(p) /\ q.file = f
  BY <1>2
<1>6. q \in Parsers
  <2>1. FALSE \in BOOLEAN /\ 0 \in Nat
    OBVIOUS
  <2> QED  BY Zenon, <1>2, <1>3, <1>4, <2>1, ParserIs
<1> QED  BY <1>4, <1>5, <1>6 DEF InFile, f

\* A header gives the path on one side, or none.
IsOld(line) == Reads(line) \in {"rename-from", "---"}
IsNew(line) == Reads(line) \in {"rename-to", "+++"}

Stays(p, q) ==
    /\ q \in Parsers /\ q.files = p.files /\ q.new = p.new /\ (p.open = TRUE => q.open = TRUE)
    /\ q.file.hunks = p.file.hunks

TakesOld(p, path, q) ==
    /\ Stays(p, q) /\ q.file.new = p.file.new
    /\ q.file.old = IF path = DevNull THEN p.file.old ELSE path

TakesNew(p, path, q) ==
    /\ Stays(p, q) /\ q.file.old = p.file.old
    /\ q.file.new = IF path = DevNull THEN p.file.new ELSE path

\* A line with the old path changes that path, or nothing if there is none.
LEMMA ReadsOld ==
    ASSUME NEW p, InFile(p), NEW line, IsOld(line), line.path \in Sides
    PROVE  TakesOld(p, line.path, ReadLine(p, line))
<1> SUFFICES ASSUME NEW q, q = ReadLine(p, line)  PROVE TakesOld(p, line.path, q)
  OBVIOUS
<1>1. q = IF line.path = DevNull THEN p ELSE [p EXCEPT !.file.old = line.path]
  BY IsAFile DEF ReadLine, IsOld
<1>2. CASE line.path = DevNull
  BY <1>1, <1>2 DEF InFile, Stays, TakesOld
<1>3. CASE line.path # DevNull
  <2> DEFINE f == [p.file EXCEPT !.old = line.path]
  <2>1. q = [p EXCEPT !.file = f]
    BY <1>1, <1>3
  <2>2. p.file \in NewFiles /\ line.path \in Paths
    BY <1>3 DEF InFile, Parsers, Sides
  <2>3. /\ f \in NewFiles /\ f.new = p.file.new /\ f.hunks = p.file.hunks
        /\ f.old = line.path
    BY <2>2 DEF NewFiles
  <2> HIDE DEF f
  <2> QED  BY <1>3, <2>1, <2>3 DEF InFile, Parsers, Stays, TakesOld
<1> QED  BY <1>2, <1>3

\* The same for the new path.
LEMMA ReadsNew ==
    ASSUME NEW p, InFile(p), NEW line, IsNew(line), line.path \in Sides
    PROVE  TakesNew(p, line.path, ReadLine(p, line))
<1> SUFFICES ASSUME NEW q, q = ReadLine(p, line)  PROVE TakesNew(p, line.path, q)
  OBVIOUS
<1>1. q = IF line.path = DevNull THEN p ELSE [p EXCEPT !.file.new = line.path]
  BY IsAFile DEF ReadLine, IsNew
<1>2. CASE line.path = DevNull
  BY <1>1, <1>2 DEF InFile, Stays, TakesNew
<1>3. CASE line.path # DevNull
  <2> DEFINE f == [p.file EXCEPT !.new = line.path]
  <2>1. q = [p EXCEPT !.file = f]
    BY <1>1, <1>3
  <2>2. p.file \in NewFiles /\ line.path \in Paths
    BY <1>3 DEF InFile, Parsers, Sides
  <2>3. /\ f \in NewFiles /\ f.old = p.file.old /\ f.hunks = p.file.hunks
        /\ f.new = line.path
    BY <2>2 DEF NewFiles
  <2> HIDE DEF f
  <2> QED  BY <1>3, <2>1, <2>3 DEF InFile, Parsers, Stays, TakesNew
<1> QED  BY <1>2, <1>3

\* A hunk begins.
LEMMA ReadsHunk ==
    ASSUME NEW p, InFile(p), NEW old \in Nat, NEW new \in Nat,
           NEW q, q = ReadLine(p, HunkLine(old, new))
    PROVE  /\ InHunk(q) /\ q.files = p.files /\ q.new = new
           /\ q.file.old = p.file.old /\ q.file.new = p.file.new
           /\ AllNew(q.file.hunks) = AllNew(p.file.hunks)
<1> DEFINE hunks == Append(p.file.hunks, <<>>)
<1> DEFINE f == [p.file EXCEPT !.hunks = hunks]
<1>1. Reads(HunkLine(old, new)) = "@@" /\ HunkLine(old, new).old = old /\ HunkLine(old, new).new = new
  BY DEF Reads, HunkLine
<1>2. q = [p EXCEPT !.file = f, !.open = TRUE, !.old = old, !.new = new]
  <2>1. q = [p EXCEPT !.file.hunks = Append(@, <<>>), !.open = TRUE, !.old = old, !.new = new]
    BY <1>1, IsAFile DEF ReadLine
  <2> QED  BY <2>1
<1>3. p.file \in NewFiles /\ p.file.hunks \in Seq(Seq(NewLines))
  BY DEF InFile, Parsers, NewFiles
<1>4. /\ hunks \in Seq(Seq(NewLines)) /\ hunks # <<>>
      /\ AllNew(hunks) = AllNew(p.file.hunks)
  BY <1>3, HunkAdds
<1> HIDE DEF hunks
<1>5. f \in NewFiles /\ f.new = p.file.new /\ f.old = p.file.old /\ f.hunks = hunks
  BY <1>3, <1>4 DEF NewFiles
<1> HIDE DEF f
<1>6. q \in Parsers /\ q.files = p.files /\ q.file = f /\ q.open = TRUE /\ q.new = new
  BY <1>2, <1>5 DEF InFile, Parsers
<1> QED  BY <1>4, <1>5, <1>6 DEF InHunk, InFile

\* A line of a hunk that is on the new side.
OnNewSide(line) == line.mark \in {"+", " "}

\* What a line does in a hunk; the text of one that looks like a header may give
\* the file another path.
CountsLine(p, line, q) ==
    /\ q.file.new = p.file.new
    /\ AllNew(q.file.hunks) = AllNew(p.file.hunks) \cup (IF OnNewSide(line) THEN {p.new} ELSE {})
    /\ q.new = IF OnNewSide(line) THEN p.new + 1 ELSE p.new

TakesLine(p, line, q) ==
    /\ InHunk(q) /\ q.files = p.files
    /\ q.file.old \in {p.file.old, line.path} /\ q.file.new \in {p.file.new, line.path}
    /\ Reads(line) # "+++" => CountsLine(p, line, q)

\* A line of a hunk gives the hunk its number, or, if it looks like a header, may
\* give the file its path.
LEMMA ReadsBodyLine ==
    ASSUME NEW p, InHunk(p), NEW line \in BodyLines
    PROVE  TakesLine(p, line, ReadLine(p, line))
<1> SUFFICES ASSUME NEW q, q = ReadLine(p, line)  PROVE TakesLine(p, line, q)
  OBVIOUS
<1>1. InFile(p) /\ p.open = TRUE /\ p.file # NoFile
  BY IsAFile DEF InHunk
<1>2. line.mark \in BodyMarks /\ line.path \in Paths \cup {NoPath, DevNull}
  BY DEF BodyLines, Line
<1>3. CASE line.mark = "-" /\ line.path # NoPath
  <2>1. Reads(line) = "---" /\ line.path \in Sides /\ ~OnNewSide(line)
    BY <1>2, <1>3 DEF Reads, Sides, OnNewSide
  <2> HIDE DEF OnNewSide
  <2>2. IsOld(line)
    BY <2>1 DEF IsOld
  <2>3. TakesOld(p, line.path, q)
    BY <1>1, <2>1, <2>2, ReadsOld
  <2> QED  BY <2>1, <2>3 DEF InHunk, InFile, TakesOld, Stays, TakesLine, CountsLine
<1>4. CASE line.mark = "+" /\ line.path # NoPath
  <2>1. Reads(line) = "+++" /\ line.path \in Sides
    BY <1>2, <1>4 DEF Reads, Sides
  <2>2. IsNew(line)
    BY <2>1 DEF IsNew
  <2>3. TakesNew(p, line.path, q)
    BY <1>1, <2>1, <2>2, ReadsNew
  <2> QED  BY <1>4, <2>1, <2>3 DEF InHunk, InFile, TakesNew, Stays, TakesLine
<1>5. CASE ~(line.mark = "-" /\ line.path # NoPath) /\ ~(line.mark = "+" /\ line.path # NoPath)
  <2>1. Reads(line) = line.mark
    BY <1>5 DEF Reads
  <2>2. q = BodyLine(p, line.mark)
    BY <1>1, <1>2, <2>1 DEF ReadLine, BodyMarks
  <2>3. CASE line.mark = "\\"
    BY <2>1, <2>2, <2>3 DEF BodyLine, OnNewSide, TakesLine, CountsLine
  <2>4. CASE line.mark \in {"+", "-", " "}
    <3> DEFINE mark == line.mark
    <3> DEFINE new == [mark |-> mark, old |-> IF mark # "+" THEN p.old ELSE 0,
                       new |-> IF mark # "-" THEN p.new ELSE 0]
    <3> DEFINE hunks == AddLine(p.file.hunks, new)
    <3> DEFINE f == [p.file EXCEPT !.hunks = hunks]
    <3> DEFINE o == IF mark # "+" THEN p.old + 1 ELSE p.old
    <3> DEFINE n == IF mark # "-" THEN p.new + 1 ELSE p.new
    <3>1. q = [p EXCEPT !.file = f, !.old = o, !.new = n]
      BY <2>2, <2>4 DEF BodyLine
    <3>2. /\ p \in Parsers /\ p.file \in NewFiles /\ p.old \in Nat /\ p.new \in Nat
          /\ p.file.hunks \in Seq(Seq(NewLines))
      BY <1>1 DEF InFile, Parsers, NewFiles
    <3>3. /\ new \in NewLines /\ new.mark = mark /\ o \in Nat /\ n \in Nat
          /\ mark # "-" => new.new = p.new
      <4>1. /\ mark \in {"+", "-", " "} /\ o \in Nat /\ n \in Nat
            /\ (IF mark # "+" THEN p.old ELSE 0) \in Nat
            /\ (IF mark # "-" THEN p.new ELSE 0) \in Nat
        <5> HIDE DEF mark
        <5>1. mark \in {"+", "-", " "}
          BY <2>4 DEF mark
        <5>2. o \in Nat /\ n \in Nat
          BY <3>2
        <5>3. p.old \in Nat /\ p.new \in Nat /\ 0 \in Nat
          BY <3>2
        <5> QED  BY Zenon, <5>1, <5>2, <5>3
      <4>2. new \in NewLines
        BY <4>1 DEF NewLines
      <4> QED  BY <4>1, <4>2
    <3>4. /\ OnNewSide(line) <=> mark # "-"
          /\ n = IF OnNewSide(line) THEN p.new + 1 ELSE p.new
      BY <2>4 DEF OnNewSide
    <3> HIDE DEF new, mark, o, n
    <3>5. /\ hunks \in Seq(Seq(NewLines)) /\ hunks # <<>>
          /\ AllNew(hunks) =
                AllNew(p.file.hunks) \cup (IF new.mark = "-" THEN {} ELSE {new.new})
      BY <3>2, <3>3, LineAdds DEF InHunk
    <3> HIDE DEF hunks
    <3>6. f \in NewFiles /\ f.new = p.file.new /\ f.old = p.file.old /\ f.hunks = hunks
      BY <3>2, <3>5 DEF NewFiles
    <3> HIDE DEF f
    <3>7. q \in Parsers /\ q.files = p.files /\ q.file = f /\ q.open = p.open /\ q.new = n
      BY <3>1, <3>2, <3>3, <3>6 DEF Parsers
    <3>8. AllNew(hunks) = AllNew(p.file.hunks) \cup (IF OnNewSide(line) THEN {p.new} ELSE {})
      BY <3>3, <3>4, <3>5
    <3>9. InHunk(q)
      BY <1>1, <3>5, <3>6, <3>7 DEF InHunk, InFile
    <3> QED  BY <3>4, <3>6, <3>7, <3>8, <3>9 DEF TakesLine, CountsLine
  <2> QED  BY <1>2, <2>3, <2>4 DEF BodyMarks
<1> QED  BY <1>3, <1>4, <1>5

-------------------------------------------------------------------------------
(* The lines of a hunk.                                                   *)

HunkDiffs  == [old : Nat, new : Nat, body : Seq(BodyLines)]
LinesThere(body) == {j \in DOMAIN body : OnNewSide(body[j])}
UpTo(T, n) == {j \in T : j <= n}
BodyPaths(body)  == {line.path : line \in Range(body)}

\* The numbers that the first n lines of a hunk really have.
FirstNumbers(hunk, n) ==
    {hunk.new + Cardinality({j \in LinesThere(hunk.body) : j < i}) : i \in UpTo(LinesThere(hunk.body), n)}

\* One line more has one number more, if it is on the new side.
LEMMA NumbersGrow ==
    ASSUME NEW hunk \in HunkDiffs, NEW n \in 1..Len(hunk.body)
    PROVE  LET T == LinesThere(hunk.body)
               k == Cardinality(UpTo(T, n - 1)) IN
           /\ k \in Nat
           /\ Cardinality(UpTo(T, n)) = IF OnNewSide(hunk.body[n]) THEN k + 1 ELSE k
           /\ FirstNumbers(hunk, n) = FirstNumbers(hunk, n - 1)
                 \cup (IF OnNewSide(hunk.body[n]) THEN {hunk.new + k} ELSE {})
<1> DEFINE body == hunk.body
<1> DEFINE T == LinesThere(body)
<1> DEFINE k == Cardinality(UpTo(T, n - 1))
<1>1. body \in Seq(BodyLines) /\ Len(body) \in Nat /\ DOMAIN body = 1..Len(body) /\ hunk.new \in Nat
  BY DEF HunkDiffs
<1>2. T \subseteq 1..Len(body) /\ (n \in T <=> OnNewSide(hunk.body[n]))
  BY <1>1 DEF LinesThere
<1> HIDE DEF T
<1>3. IsFiniteSet(UpTo(T, n - 1)) /\ k \in Nat
  <2>1. UpTo(T, n - 1) \subseteq 1..Len(body)
    BY <1>2 DEF UpTo
  <2>2. IsFiniteSet(1..Len(body))
    <3> HIDE DEF body
    <3>1. 1 \in Int /\ Len(body) \in Int
      BY <1>1
    <3> QED  BY <3>1, FS_Interval
  <2> HIDE DEF body
  <2>3. IsFiniteSet(UpTo(T, n - 1))
    BY <2>1, <2>2, FS_Subset
  <2> QED  BY <2>3, FS_CardinalityType
<1>4. n \notin UpTo(T, n - 1)
  BY <1>1 DEF UpTo
<1>5. UpTo(T, n) = UpTo(T, n - 1) \cup (IF n \in T THEN {n} ELSE {})
  <2>1. \A j \in T : j <= n <=> j <= n - 1 \/ j = n
    BY <1>1, <1>2
  <2> QED  BY <1>1, <2>1 DEF UpTo
<1>6. Cardinality(UpTo(T, n)) = IF n \in T THEN k + 1 ELSE k
  <2>1. CASE n \in T
    BY <1>3, <1>4, <1>5, <2>1, FS_AddElement
  <2>2. CASE n \notin T
    BY <1>5, <2>2
  <2> QED  BY <2>1, <2>2
<1>7. {j \in T : j < n} = UpTo(T, n - 1)
  <2>1. \A j \in T : j < n <=> j <= n - 1
    BY <1>1, <1>2
  <2> QED  BY <2>1 DEF UpTo
<1>8. FirstNumbers(hunk, n) = FirstNumbers(hunk, n - 1) \cup (IF n \in T THEN {hunk.new + k} ELSE {})
  <2> DEFINE Number(i) == hunk.new + Cardinality({j \in T : j < i})
  <2>1. \A m : FirstNumbers(hunk, m) = {Number(i) : i \in UpTo(T, m)}
    BY DEF FirstNumbers, T
  <2>2. Number(n) = hunk.new + k
    BY <1>7
  <2> HIDE DEF Number, k
  <2>3. CASE n \in T
    BY <1>5, <2>1, <2>2, <2>3
  <2>4. CASE n \notin T
    BY <1>5, <2>1, <2>4
  <2> QED  BY <2>3, <2>4
<1> QED  BY <1>2, <1>3, <1>6, <1>8 DEF T

\* All lines of a hunk have its numbers.
LEMMA AllNumbersOfHunk ==
    ASSUME NEW hunk \in HunkDiffs
    PROVE  /\ FirstNumbers(hunk, Len(hunk.body)) = RealNumbers(hunk)
           /\ FirstNumbers(hunk, 0) = {} /\ UpTo(LinesThere(hunk.body), 0) = {}
<1> DEFINE T == LinesThere(hunk.body)
<1>1. hunk.body \in Seq(BodyLines)
  BY DEF HunkDiffs
<1>2. T \subseteq 1..Len(hunk.body) /\ Len(hunk.body) \in Nat
  BY <1>1 DEF LinesThere
<1>3. T = {j \in DOMAIN hunk.body : hunk.body[j].mark \in {"+", " "}}
  BY DEF LinesThere, OnNewSide
<1> HIDE DEF T
<1> DEFINE L == Len(hunk.body)
<1>4. UpTo(T, L) = T /\ UpTo(T, 0) = {}
  <2> HIDE DEF L
  <2>1. \A j \in T : j <= L /\ ~(j <= 0)
    BY <1>2 DEF L
  <2> QED  BY <2>1 DEF UpTo
<1>5. \A n : FirstNumbers(hunk, n) = {hunk.new + Cardinality({j \in T : j < i}) : i \in UpTo(T, n)}
  BY DEF FirstNumbers, T
<1>6. RealNumbers(hunk) = {hunk.new + Cardinality({j \in T : j < i}) : i \in T}
  BY <1>3 DEF RealNumbers
<1> QED  BY <1>4, <1>5, <1>6 DEF T

\* The parser numbers the lines of a hunk as they are numbered in the new file.
LEMMA BodyIsRead ==
    ASSUME NEW hunk \in HunkDiffs, NEW p, InHunk(p), p.new = hunk.new,
           NEW q, q = ReadAll(p, hunk.body)
    PROVE  /\ InHunk(q) /\ q.files = p.files
           /\ q.file.old \in {p.file.old} \cup BodyPaths(hunk.body)
           /\ q.file.new \in {p.file.new} \cup BodyPaths(hunk.body)
           /\ (\A i \in DOMAIN hunk.body : Reads(hunk.body[i]) # "+++") =>
                /\ q.file.new = p.file.new
                /\ AllNew(q.file.hunks) = AllNew(p.file.hunks) \cup RealNumbers(hunk)
<1> DEFINE body == hunk.body
<1> DEFINE L == Len(body)
<1> DEFINE Plain == \A i \in DOMAIN body : Reads(body[i]) # "+++"
<1> DEFINE Count(n) == Cardinality(UpTo(LinesThere(body), n))
<1> DEFINE Inv(r, n) ==
      /\ InHunk(r) /\ r.files = p.files
      /\ r.file.old \in {p.file.old} \cup BodyPaths(body)
      /\ r.file.new \in {p.file.new} \cup BodyPaths(body)
      /\ Plain => /\ r.file.new = p.file.new
                  /\ AllNew(r.file.hunks) = AllNew(p.file.hunks) \cup FirstNumbers(hunk, n)
                  /\ r.new = hunk.new + Count(n)
<1> DEFINE I == [n \in 0..L |-> {r \in Parsers : Inv(r, n)}]
<1>1. body \in Seq(BodyLines) /\ L \in Nat /\ DOMAIN body = 1..L /\ hunk.new \in Nat
  BY DEF HunkDiffs
<1>2. \A r : InHunk(r) => r \in Parsers
  BY DEF InHunk, InFile
<1>3. Inv(p, 0)
  <2>1. Count(0) = 0 /\ FirstNumbers(hunk, 0) = {}
    BY AllNumbersOfHunk, FS_EmptySet
  <2> HIDE DEF Count
  <2>2. hunk.new + Count(0) = hunk.new
    BY <1>1, <2>1
  <2> QED  BY <2>1, <2>2
<1>4. ASSUME NEW n \in 1..L, NEW r, Inv(r, n - 1)
      PROVE  Inv(ReadLine(r, body[n]), n)
  <2> DEFINE s == ReadLine(r, body[n])
  <2> DEFINE k == Count(n - 1)
  <2>1. body[n] \in BodyLines /\ body[n].path \in BodyPaths(body)
    BY <1>1 DEF BodyPaths, Range
  <2>2. TakesLine(r, body[n], s)
    BY <1>4, <2>1, ReadsBodyLine
  <2>3. /\ k \in Nat /\ Count(n) = IF OnNewSide(body[n]) THEN k + 1 ELSE k
        /\ FirstNumbers(hunk, n) = FirstNumbers(hunk, n - 1)
              \cup (IF OnNewSide(body[n]) THEN {hunk.new + k} ELSE {})
    BY NumbersGrow
  <2> HIDE DEF s, k
  <2>4. ASSUME Plain
        PROVE  /\ s.file.new = p.file.new
               /\ AllNew(s.file.hunks) = AllNew(p.file.hunks) \cup FirstNumbers(hunk, n)
               /\ s.new = hunk.new + Count(n)
    <3>1. Reads(body[n]) # "+++"
      BY <1>1, <2>4
    <3>2. /\ r.file.new = p.file.new /\ r.new = hunk.new + k
          /\ AllNew(r.file.hunks) = AllNew(p.file.hunks) \cup FirstNumbers(hunk, n - 1)
      BY <1>4, <2>4 DEF k
    <3> HIDE DEF Count, Plain, body
    <3>3. s.new = hunk.new + Count(n)
      BY <1>1, <2>2, <2>3, <3>1, <3>2 DEF TakesLine, CountsLine
    <3>4. AllNew(s.file.hunks) = AllNew(p.file.hunks) \cup FirstNumbers(hunk, n)
      BY <2>2, <2>3, <3>1, <3>2 DEF TakesLine, CountsLine
    <3> QED  BY <2>2, <3>1, <3>2, <3>3, <3>4 DEF TakesLine, CountsLine
  <2> HIDE DEF Count, Plain, body
  <2> QED  BY <1>4, <2>1, <2>2, <2>4 DEF s, TakesLine
<1> HIDE DEF Inv
<1>5. p \in I[0]
  BY <1>1, <1>2, <1>3 DEF Inv
<1>6. \A n \in 1..L : \A r \in I[n - 1] : ReadLine(r, body[n]) \in I[n]
  <2> SUFFICES ASSUME NEW n \in 1..L, NEW r \in I[n - 1]  PROVE ReadLine(r, body[n]) \in I[n]
    OBVIOUS
  <2>1. n \in 0..L /\ n - 1 \in 0..L
    BY <1>1
  <2>2. Inv(r, n - 1)
    BY <2>1
  <2>3. Inv(ReadLine(r, body[n]), n)
    BY <1>4, <2>2
  <2>4. ReadLine(r, body[n]) \in Parsers
    BY <1>2, <2>3 DEF Inv
  <2> QED  BY <2>1, <2>3, <2>4
<1>7. q \in I[L]
  <2> HIDE DEF I
  <2> QED  BY <1>1, <1>5, <1>6, ReadKeeps
<1>8. Inv(q, L)
  BY <1>1, <1>7
<1>9. FirstNumbers(hunk, L) = RealNumbers(hunk)
  BY AllNumbersOfHunk
<1> QED  BY <1>8, <1>9 DEF Inv

-------------------------------------------------------------------------------
(* Files.                                                                 *)

HeaderMarks  == {"git", "rename-from", "rename-to", "---", "+++"}
HeaderLines  == {Line(m, path) : m \in HeaderMarks, path \in Sides}
HunkLines    == {HunkLine(old, new) : old \in Nat, new \in Nat}
PrintedLines == BodyLines \cup HeaderLines \cup HunkLines

\* What the parser has of a file: paths the file has or seems to have, and, if it is
\* not misread, its path and the numbers of its lines.
HasRead(f, file, numbers) ==
    /\ f.old \in SeemsAt(file) /\ f.new \in SeemsAt(file)
    /\ ~Misread(file) => f.new = Path(file) /\ AllNew(f.hunks) = numbers

\* A file's hunks and lines are what FileDiffs says.
LEMMA FileIs ==
    ASSUME NEW file \in FileDiffs
    PROVE  /\ file.old \in Sides /\ file.new \in Sides /\ Path(file) \in Paths
           /\ file.hunks \in Seq(HunkDiffs)
           /\ Path(file) \in SeemsAt(file)
           /\ \A h \in DOMAIN file.hunks :
                 /\ file.hunks[h] \in HunkDiffs
                 /\ BodyPaths(file.hunks[h].body) \subseteq SeemsAt(file)
<1>1. file.old \in Sides /\ file.new \in Sides /\ file.hunks \in Seq(HunkDiffs)
  BY DEF FileDiffs, HunkDiffs
<1>2. Path(file) \in Paths /\ Path(file) \in {file.old, file.new}
  BY DEF FileDiffs, Path, Sides
<1>3. Path(file) \in SeemsAt(file)
  BY <1>2 DEF SeemsAt
<1>4. ASSUME NEW h \in DOMAIN file.hunks
      PROVE  file.hunks[h] \in HunkDiffs /\ BodyPaths(file.hunks[h].body) \subseteq SeemsAt(file)
  <2>1. file.hunks[h] \in Range(file.hunks)
    BY DEF Range
  <2> QED  BY <1>1, <2>1 DEF SeemsAt, BodyPaths
<1> QED  BY <1>1, <1>2, <1>3, <1>4

\* What is printed of a hunk, and how the parser takes it.
HunkText(hunk) == <<HunkLine(hunk.old, hunk.new)>> \o hunk.body

\* A hunk gives the file its numbers.
LEMMA HunkIsRead ==
    ASSUME NEW file \in FileDiffs, NEW h \in DOMAIN file.hunks, NEW p, InFile(p),
           NEW numbers, HasRead(p.file, file, numbers)
    PROVE  LET q == ReadAll(p, HunkText(file.hunks[h])) IN
           /\ HunkText(file.hunks[h]) \in Seq(PrintedLines)
           /\ InFile(q) /\ q.files = p.files
           /\ HasRead(q.file, file, numbers \cup RealNumbers(file.hunks[h]))
<1> DEFINE hunk == file.hunks[h]
<1> DEFINE head == <<HunkLine(hunk.old, hunk.new)>>
<1> DEFINE r == ReadLine(p, HunkLine(hunk.old, hunk.new))
<1> DEFINE q == ReadAll(p, HunkText(hunk))
<1>1. hunk \in HunkDiffs /\ BodyPaths(hunk.body) \subseteq SeemsAt(file)
  BY FileIs
<1>2. hunk.old \in Nat /\ hunk.new \in Nat /\ hunk.body \in Seq(BodyLines)
  BY <1>1 DEF HunkDiffs
<1>3. ~Misread(file) => \A i \in DOMAIN hunk.body : Reads(hunk.body[i]) # "+++"
  BY DEF Misread
<1> HIDE DEF hunk
<1>4. head \in Seq(PrintedLines) /\ hunk.body \in Seq(PrintedLines)
  <2>1. HunkLine(hunk.old, hunk.new) \in HunkLines
    BY <1>2 DEF HunkLines
  <2>2. BodyLines \subseteq PrintedLines /\ HunkLines \subseteq PrintedLines
    BY DEF PrintedLines
  <2>3. hunk.body \in Seq(PrintedLines)
    BY <1>2, <2>2
  <2>4. \A S, x : x \in S => <<x>> \in Seq(S)
    OBVIOUS
  <2> QED  BY <2>1, <2>2, <2>3, <2>4
<1>5. q = ReadAll(r, hunk.body)
  <2>1. ReadAll(p, head \o hunk.body) = ReadAll(ReadAll(p, head), hunk.body)
    BY <1>4, ReadBoth
  <2>2. ReadAll(p, head) = r
    BY ReadOne
  <2> QED  BY <2>1, <2>2 DEF HunkText
<1>6. HunkText(hunk) \in Seq(PrintedLines)
  <2> HIDE DEF head
  <2>1. head \o hunk.body \in Seq(PrintedLines)
    BY <1>4
  <2> QED  BY <2>1 DEF HunkText, head
<1> HIDE DEF q
<1>7. /\ InHunk(r) /\ r.files = p.files /\ r.new = hunk.new
      /\ r.file.old = p.file.old /\ r.file.new = p.file.new
      /\ AllNew(r.file.hunks) = AllNew(p.file.hunks)
  BY <1>2, ReadsHunk
<1> HIDE DEF r
<1>8. /\ InHunk(q) /\ q.files = r.files
      /\ q.file.old \in {r.file.old} \cup BodyPaths(hunk.body)
      /\ q.file.new \in {r.file.new} \cup BodyPaths(hunk.body)
      /\ (\A i \in DOMAIN hunk.body : Reads(hunk.body[i]) # "+++") =>
            /\ q.file.new = r.file.new
            /\ AllNew(q.file.hunks) = AllNew(r.file.hunks) \cup RealNumbers(hunk)
  BY <1>1, <1>5, <1>7, BodyIsRead
<1>9. HasRead(q.file, file, numbers \cup RealNumbers(hunk))
  BY <1>1, <1>3, <1>7, <1>8 DEF HasRead
<1> QED  BY <1>6, <1>7, <1>8, <1>9 DEF q, hunk, InHunk

\* All hunks of a file.
LEMMA HunksAreRead ==
    ASSUME NEW file \in FileDiffs, NEW p, InFile(p), HasRead(p.file, file, {})
    PROVE  LET q == ReadAll(p, Hunks(file)) IN
           /\ Hunks(file) \in Seq(PrintedLines)
           /\ InFile(q) /\ q.files = p.files /\ HasRead(q.file, file, RealLines(file))
<1> DEFINE L == Len(file.hunks)
<1> DEFINE parts == [h \in 1..L |-> HunkText(file.hunks[h])]
<1> DEFINE Real(n) == UNION {RealNumbers(file.hunks[h]) : h \in 1..n}
<1> DEFINE I == [n \in 0..L |-> {r \in Parsers : /\ InFile(r) /\ r.files = p.files
                                                /\ HasRead(r.file, file, Real(n))}]
<1> DEFINE q == ReadAll(p, Hunks(file))
<1>1. L \in Nat /\ DOMAIN file.hunks = 1..L
  BY FileIs
<1>2. \A r : InFile(r) => r \in Parsers
  BY DEF InFile
<1>3. Hunks(file) = FlattenSeq(parts)
  BY DEF Hunks, HunkText
<1>4. \A h \in 1..L : HunkText(file.hunks[h]) \in Seq(PrintedLines)
  <2> TAKE h \in 1..L
  <2> QED  BY <1>1, HunkIsRead
<1>5. parts \in Seq(Seq(PrintedLines)) /\ Len(parts) = L
  <2>1. \A h \in 1..L : parts[h] \in Seq(PrintedLines)
    BY <1>4
  <2>2. parts = [h \in 1..L |-> parts[h]]
    OBVIOUS
  <2> HIDE DEF parts
  <2> QED  BY <1>1, <2>1, <2>2
<1>6. Real(0) = {} /\ Real(L) = RealLines(file)
  <2>1. 1..0 = {}
    OBVIOUS
  <2>2. Range(file.hunks) = {file.hunks[h] : h \in 1..L}
    BY <1>1 DEF Range
  <2> QED  BY <2>1, <2>2 DEF RealLines
<1>7. p \in I[0]
  BY <1>1, <1>2, <1>6
<1>8. ASSUME NEW n \in 1..L, NEW r \in I[n - 1]  PROVE ReadAll(r, parts[n]) \in I[n]
  <2> DEFINE s == ReadAll(r, HunkText(file.hunks[n]))
  <2>1. n \in 0..L /\ n - 1 \in 0..L /\ n \in DOMAIN file.hunks
    BY <1>1
  <2>2. InFile(r) /\ r.files = p.files /\ HasRead(r.file, file, Real(n - 1))
    BY <2>1
  <2> HIDE DEF Real
  <2>3. /\ InFile(s) /\ s.files = r.files
        /\ HasRead(s.file, file, Real(n - 1) \cup RealNumbers(file.hunks[n]))
    BY <2>1, <2>2, HunkIsRead
  <2>4. Real(n) = Real(n - 1) \cup RealNumbers(file.hunks[n])
    <3>1. \A h : h \in 1..n <=> h \in 1..n - 1 \/ h = n
      BY <1>1
    <3> QED  BY <3>1 DEF Real
  <2> HIDE DEF s
  <2>5. s \in I[n]
    BY <1>2, <2>1, <2>2, <2>3, <2>4
  <2> QED  BY <2>5 DEF s
<1> HIDE DEF I
<1>9. FlattenSeq(parts) \in Seq(PrintedLines) /\ q \in I[L]
  <2> HIDE DEF parts
  <2> QED  BY <1>3, <1>5, <1>7, <1>8, ReadFlat
<1> HIDE DEF q
<1>10. InFile(q) /\ q.files = p.files /\ HasRead(q.file, file, Real(L))
  <2> HIDE DEF Real
  <2> QED  BY <1>1, <1>9 DEF I
<1> QED  BY <1>3, <1>6, <1>9, <1>10 DEF q

\* The header of a file begins it.
LEMMA HeaderIsRead ==
    ASSUME NEW file \in FileDiffs, NEW p \in Parsers
    PROVE  LET q == ReadAll(p, Header(file)) IN
           /\ Header(file) \in Seq(PrintedLines)
           /\ InFile(q) /\ q.files = Keep(p) /\ HasRead(q.file, file, {})
<1> DEFINE git == <<Line("git", Path(file))>>
<1> DEFINE renamed == file.old # file.new /\ DevNull \notin {file.old, file.new}
<1> DEFINE moves == <<Line("rename-from", file.old), Line("rename-to", file.new)>>
<1> DEFINE rename == IF renamed THEN moves ELSE <<>>
<1> DEFINE paths == <<Line("---", file.old), Line("+++", file.new)>>
<1> DEFINE sides == IF file.hunks # <<>> THEN paths ELSE <<>>
<1>1. /\ file.old \in Sides /\ file.new \in Sides /\ Path(file) \in Paths
      /\ Path(file) \in SeemsAt(file)
  BY FileIs
<1>2. /\ git \in Seq(PrintedLines) /\ moves \in Seq(PrintedLines) /\ sides \in Seq(PrintedLines)
      /\ rename \in Seq(PrintedLines)
  <2>1. \A m \in HeaderMarks, path \in Sides : Line(m, path) \in PrintedLines
    BY DEF PrintedLines, HeaderLines
  <2>4. "git" \in HeaderMarks /\ "---" \in HeaderMarks /\ "+++" \in HeaderMarks
    BY DEF HeaderMarks
  <2>5. "rename-from" \in HeaderMarks /\ "rename-to" \in HeaderMarks
    BY Zenon DEF HeaderMarks
  <2>2. \A S, a, b : a \in S /\ b \in S => <<a>> \in Seq(S) /\ <<a, b>> \in Seq(S) /\ <<>> \in Seq(S)
    OBVIOUS
  <2>3. /\ Line("git", Path(file)) \in PrintedLines
        /\ Line("rename-from", file.old) \in PrintedLines
        /\ Line("rename-to", file.new) \in PrintedLines
        /\ Line("---", file.old) \in PrintedLines /\ Line("+++", file.new) \in PrintedLines
    <3>1. Path(file) \in Sides
      BY <1>1 DEF Sides
    <3> QED  BY Zenon, <1>1, <2>1, <2>4, <2>5, <3>1
  <2>6. (rename = moves \/ rename = <<>>) /\ (sides = paths \/ sides = <<>>)
    OBVIOUS
  <2> HIDE DEF rename, sides
  <2>7. /\ git \in Seq(PrintedLines) /\ moves \in Seq(PrintedLines)
        /\ paths \in Seq(PrintedLines) /\ <<>> \in Seq(PrintedLines)
    BY <2>2, <2>3
  <2> QED  BY <2>6, <2>7
<1> DEFINE a == ReadLine(p, Line("git", Path(file)))
<1> DEFINE b == ReadAll(a, rename)
<1> DEFINE q == ReadAll(p, Header(file))
<1>3. Header(file) = (git \o rename) \o sides /\ git \o rename \in Seq(PrintedLines)
  <2>1. git \o rename \in Seq(PrintedLines)
    <3>1. \A S, s, t : s \in Seq(S) /\ t \in Seq(S) => s \o t \in Seq(S)
      OBVIOUS
    <3> HIDE DEF git, rename
    <3> QED  BY <1>2, <3>1
  <2>2. Header(file) = (git \o rename) \o sides
    BY DEF Header
  <2> QED  BY <2>1, <2>2
<1>4. Header(file) \in Seq(PrintedLines)
  <2> DEFINE both == git \o rename
  <2>1. both \in Seq(PrintedLines) /\ Header(file) = both \o sides /\ sides \in Seq(PrintedLines)
    BY <1>2, <1>3
  <2> HIDE DEF both, sides
  <2> QED  BY <2>1
<1>5. q = ReadAll(b, sides)
  <2>1. ReadAll(p, git) = a
    BY ReadOne
  <2> HIDE DEF git, rename, sides, a
  <2>2. ReadAll(p, git \o rename) = b
    BY <1>2, <2>1, ReadBoth
  <2> DEFINE both == git \o rename
  <2>3. both \in Seq(PrintedLines) /\ sides \in Seq(PrintedLines) /\ ReadAll(p, both) = b
    BY <1>2, <1>3, <2>2
  <2>4. Header(file) = both \o sides
    BY <1>3
  <2> HIDE DEF both, b
  <2>5. ReadAll(p, both \o sides) = ReadAll(b, sides)
    BY <2>3, ReadBoth
  <2> QED  BY <2>4, <2>5
<1>6. /\ InFile(a) /\ a.files = Keep(p)
      /\ a.file = [old |-> Path(file), new |-> Path(file), hunks |-> <<>>]
  BY <1>1, ReadsGit
<1> HIDE DEF a
<1>7. /\ InFile(b) /\ b.files = Keep(p) /\ b.file.hunks = <<>>
      /\ b.file.new = Path(file) /\ b.file.old \in SeemsAt(file)
  <2>1. CASE ~renamed
    <3>1. rename = <<>>
      BY <2>1
    <3> HIDE DEF rename
    <3>2. b = a
      BY <3>1, ReadNone
    <3> HIDE DEF b
    <3> QED  BY <1>1, <1>6, <3>2
  <2>2. CASE renamed
    <3> DEFINE x == ReadLine(a, Line("rename-from", file.old))
    <3> DEFINE y == ReadLine(x, Line("rename-to", file.new))
    <3>1. b = y
      <4>1. rename = moves
        BY <2>2
      <4> HIDE DEF rename
      <4> QED  BY <4>1, ReadTwo
    <3>2. IsOld(Line("rename-from", file.old)) /\ Line("rename-from", file.old).path = file.old
      BY DEF IsOld, Reads, Line
    <3>3. IsNew(Line("rename-to", file.new)) /\ Line("rename-to", file.new).path = file.new
      BY DEF IsNew, Reads, Line
    <3>4. TakesOld(a, file.old, x)
      BY <1>1, <1>6, <3>2, ReadsOld
    <3>5. InFile(x)
      BY <1>6, <3>4 DEF InFile, TakesOld, Stays
    <3> HIDE DEF x
    <3>6. TakesNew(x, file.new, y)
      BY <1>1, <3>3, <3>5, ReadsNew
    <3> HIDE DEF y
    <3>7. Path(file) = file.new /\ file.new # DevNull /\ file.old # DevNull
      BY <2>2 DEF Path
    <3>8. file.old \in SeemsAt(file) /\ Path(file) # NoPath
      BY <1>1, PathsAssumption DEF SeemsAt
    <3> HIDE DEF b
    <3>9. y.files = Keep(p) /\ y.file.hunks = <<>>
      BY <1>6, <3>4, <3>6 DEF TakesOld, TakesNew, Stays
    <3>10. y.file.new = file.new /\ y.file.old = file.old
      BY <3>4, <3>6, <3>7 DEF TakesOld, TakesNew, Stays
    <3>11. InFile(y)
      BY <3>6, <3>7, <3>8, <3>10 DEF InFile, TakesNew, Stays
    <3> QED  BY <3>1, <3>7, <3>8, <3>9, <3>10, <3>11
  <2> QED  BY <2>1, <2>2
<1> HIDE DEF b
<1>8. /\ InFile(q) /\ q.files = Keep(p) /\ q.file.hunks = <<>>
      /\ q.file.new = Path(file) /\ q.file.old \in SeemsAt(file)
  <2> HIDE DEF q
  <2>1. CASE file.hunks = <<>>
    <3>1. sides = <<>>
      BY <2>1
    <3> HIDE DEF sides
    <3>2. q = b
      BY <1>5, <3>1, ReadNone
    <3> QED  BY <1>7, <3>2
  <2>2. CASE file.hunks # <<>>
    <3> DEFINE x == ReadLine(b, Line("---", file.old))
    <3> DEFINE y == ReadLine(x, Line("+++", file.new))
    <3>1. q = y
      <4>1. sides = paths
        BY <2>2
      <4> HIDE DEF sides
      <4> QED  BY <1>5, <4>1, ReadTwo
    <3>2. IsOld(Line("---", file.old)) /\ Line("---", file.old).path = file.old
      BY DEF IsOld, Reads, Line
    <3>3. IsNew(Line("+++", file.new)) /\ Line("+++", file.new).path = file.new
      BY DEF IsNew, Reads, Line
    <3>4. TakesOld(b, file.old, x)
      BY <1>1, <1>7, <3>2, ReadsOld
    <3>5. InFile(x)
      BY <1>7, <3>4 DEF InFile, TakesOld, Stays
    <3> HIDE DEF x
    <3>6. TakesNew(x, file.new, y)
      BY <1>1, <3>3, <3>5, ReadsNew
    <3> HIDE DEF y
    <3>7. file.new # DevNull => file.new = Path(file)
      BY DEF Path
    <3>8. file.old \in SeemsAt(file) /\ Path(file) # NoPath
      BY <1>1, PathsAssumption DEF SeemsAt
    <3>9. y.file.hunks = <<>> /\ y.file.new = Path(file) /\ y.file.old \in SeemsAt(file)
      BY <1>7, <3>4, <3>6, <3>7, <3>8 DEF TakesOld, TakesNew, Stays
    <3>10. InFile(y) /\ y.files = Keep(p)
      BY <1>7, <3>4, <3>6, <3>8, <3>9 DEF InFile, TakesOld, TakesNew, Stays
    <3> QED  BY <3>1, <3>9, <3>10
  <2> QED  BY <2>1, <2>2
<1>9. HasRead(q.file, file, {})
  <2> HIDE DEF q
  <2>1. AllNew(<<>>) = {}
    BY DEF AllNew, Range
  <2> QED  BY <1>1, <1>8, <2>1 DEF HasRead
<1> QED  BY <1>4, <1>8, <1>9

-------------------------------------------------------------------------------
(* A whole diff.                                                          *)

\* What is printed of a file gives the parser one file more.
LEMMA FileIsRead ==
    ASSUME NEW file \in FileDiffs, NEW p \in Parsers
    PROVE  LET q == ReadAll(p, Header(file) \o Hunks(file)) IN
           /\ Header(file) \o Hunks(file) \in Seq(PrintedLines)
           /\ q \in Parsers /\ q.file \in NewFiles /\ Keep(q) = Append(Keep(p), q.file)
           /\ HasRead(q.file, file, RealLines(file))
<1> DEFINE a == ReadAll(p, Header(file))
<1> DEFINE q == ReadAll(p, Header(file) \o Hunks(file))
<1>1. /\ Header(file) \in Seq(PrintedLines)
      /\ InFile(a) /\ a.files = Keep(p) /\ HasRead(a.file, file, {})
  BY HeaderIsRead
<1>2. /\ Hunks(file) \in Seq(PrintedLines)
      /\ InFile(ReadAll(a, Hunks(file))) /\ ReadAll(a, Hunks(file)).files = a.files
      /\ HasRead(ReadAll(a, Hunks(file)).file, file, RealLines(file))
  <2> HIDE DEF a
  <2> QED  BY <1>1, HunksAreRead
<1>3. q = ReadAll(a, Hunks(file))
  BY <1>1, <1>2, ReadBoth
<1>4. Header(file) \o Hunks(file) \in Seq(PrintedLines)
  BY <1>1, <1>2
<1> HIDE DEF a, q
<1>5. q \in Parsers /\ q.file \in NewFiles /\ q.file # NoFile
  BY <1>2, <1>3, IsAFile DEF InFile, Parsers
<1> QED  BY <1>1, <1>2, <1>3, <1>4, <1>5 DEF Keep, q

\* The first n files of a change, as they have been read.
AreRead(files, diff, n) ==
    /\ files \in Seq(NewFiles) /\ Len(files) = n
    /\ \A i \in 1..n : HasRead(files[i], diff[i], RealLines(diff[i]))

\* The text of a change is read as its files, in their order.
LEMMA TextIsRead ==
    ASSUME NEW diff \in Seq(FileDiffs)
    PROVE  AreRead(ParseUnified(Text(diff)), diff, Len(diff))
<1> DEFINE L == Len(diff)
<1> DEFINE parts == [i \in 1..L |-> Header(diff[i]) \o Hunks(diff[i])]
<1> DEFINE I == [n \in 0..L |-> {q \in Parsers : AreRead(Keep(q), diff, n)}]
<1>1. L \in Nat /\ \A i \in 1..L : diff[i] \in FileDiffs
  OBVIOUS
<1>2. parts \in Seq(Seq(PrintedLines)) /\ Len(parts) = L
  <2>1. \A i \in 1..L : parts[i] \in Seq(PrintedLines)
    <3> TAKE i \in 1..L
    <3>1. Header(diff[i]) \o Hunks(diff[i]) \in Seq(PrintedLines)
      <4>1. NoFile \in NewFiles
        BY DEF NoFile, NewFiles
      <4>2. Parsing \in Parsers
        BY <4>1 DEF Parsing, Parsers
      <4> QED  BY <1>1, <4>2, FileIsRead
    <3> QED  BY <3>1
  <2>2. parts = [i \in 1..L |-> parts[i]]
    OBVIOUS
  <2> HIDE DEF parts
  <2> QED  BY <1>1, <2>1, <2>2
<1>3. Parsing \in I[0]
  <2>1. NoFile \in NewFiles
    BY DEF NoFile, NewFiles
  <2>2. Parsing \in Parsers /\ Keep(Parsing) = <<>>
    BY <2>1 DEF Parsing, Parsers, Keep
  <2>3. AreRead(<<>>, diff, 0)
    BY DEF AreRead
  <2> QED  BY <1>1, <2>2, <2>3
<1>4. ASSUME NEW n \in 1..L, NEW p \in I[n - 1]  PROVE ReadAll(p, parts[n]) \in I[n]
  <2> DEFINE q == ReadAll(p, Header(diff[n]) \o Hunks(diff[n]))
  <2>1. n \in 0..L /\ n - 1 \in 0..L /\ (n - 1) + 1 = n /\ diff[n] \in FileDiffs
    BY <1>1
  <2>2. p \in Parsers /\ AreRead(Keep(p), diff, n - 1)
    BY <2>1
  <2>3. /\ q \in Parsers /\ q.file \in NewFiles /\ Keep(q) = Append(Keep(p), q.file)
        /\ HasRead(q.file, diff[n], RealLines(diff[n]))
    BY <2>1, <2>2, FileIsRead
  <2>4. q = ReadAll(p, parts[n])
    OBVIOUS
  <2> HIDE DEF q
  <2>5. AreRead(Keep(q), diff, n)
    <3> DEFINE files == Keep(p)
    <3> DEFINE more == Append(files, q.file)
    <3>1. /\ files \in Seq(NewFiles) /\ Len(files) = n - 1
          /\ \A i \in 1..n - 1 : HasRead(files[i], diff[i], RealLines(diff[i]))
      BY <2>2 DEF AreRead
    <3> HIDE DEF files
    <3>2. /\ more \in Seq(NewFiles) /\ Len(more) = n /\ more[n] = q.file
          /\ \A i \in 1..n - 1 : more[i] = files[i]
      BY <2>1, <2>3, <3>1
    <3> HIDE DEF more
    <3>3. ASSUME NEW i \in 1..n  PROVE HasRead(more[i], diff[i], RealLines(diff[i]))
      <4>1. CASE i = n
        BY <2>3, <3>2, <4>1
      <4>2. CASE i \in 1..n - 1
        BY <3>1, <3>2, <4>2
      <4> QED  BY <4>1, <4>2
    <3>4. AreRead(more, diff, n)
      BY <3>2, <3>3 DEF AreRead
    <3> QED  BY <2>3, <3>4 DEF more, files
  <2>6. q \in I[n]
    BY <2>1, <2>3, <2>5
  <2> QED  BY <2>4, <2>6
<1> DEFINE q == ReadAll(Parsing, Text(diff))
<1>5. q \in I[L]
  <2>1. Text(diff) = FlattenSeq(parts)
    BY DEF Text
  <2> HIDE DEF I, parts
  <2> QED  BY <1>2, <1>3, <1>4, <2>1, ReadFlat
<1> HIDE DEF q
<1>6. AreRead(Keep(q), diff, L)
  BY <1>1, <1>5
<1> QED  BY <1>6 DEF ParseUnified, q

\* A file that is not misread, and whose path no earlier one has or seems to have, is
\* found by it with the lines it really has.
LEMMA FileIsFound ==
    ASSUME NEW diff \in Seq(FileDiffs), NEW i \in DOMAIN diff,
           ~Misread(diff[i]), ~Shadowed(diff, i)
    PROVE  HeadSideLines(ParseUnified(Text(diff)), Path(diff[i])) = RealLines(diff[i])
<1> DEFINE files == ParseUnified(Text(diff))
<1> DEFINE path == Path(diff[i])
<1> DEFINE at == FilesAt(files, path)
<1>1. i \in 1..Len(diff) /\ Len(diff) \in Nat
  OBVIOUS
<1>2. AreRead(files, diff, Len(diff))
  BY TextIsRead
<1> HIDE DEF files
<1>3. /\ DOMAIN files = 1..Len(diff)
      /\ \A j \in 1..Len(diff) : HasRead(files[j], diff[j], RealLines(diff[j]))
  BY <1>2 DEF AreRead
<1>4. files[i].new = path /\ AllNew(files[i].hunks) = RealLines(diff[i])
  BY <1>1, <1>3 DEF HasRead
<1>5. i \in at /\ at \subseteq 1..Len(diff)
  BY <1>1, <1>3, <1>4 DEF FilesAt
<1>6. ASSUME NEW j \in at, j < i  PROVE FALSE
  <2>1. j \in 1..Len(diff) /\ j \in 1..i - 1 /\ path \in {files[j].new, files[j].old}
    BY <1>1, <1>3, <1>6 DEF FilesAt
  <2>2. path \in SeemsAt(diff[j])
    BY <1>3, <2>1 DEF HasRead
  <2> HIDE DEF path
  <2> QED  BY <2>1, <2>2 DEF Shadowed, path
<1>7. Min(at) = i
  <2> HIDE DEF at
  <2>1. at \subseteq Nat /\ at # {}
    BY <1>1, <1>5
  <2>2. Min(at) \in at /\ \A y \in at : Min(at) <= y
    BY <2>1, LeastOf
  <2>3. Min(at) \in Nat /\ i \in Nat /\ Min(at) <= i /\ ~(Min(at) < i)
    BY <1>1, <1>5, <1>6, <2>1, <2>2
  <2> QED  BY <2>3
<1>8. HeadSideLines(files, path) = AllNew(files[i].hunks)
  BY <1>5, <1>7 DEF HeadSideLines, AllNew
<1> QED  BY <1>4, <1>8 DEF files

-------------------------------------------------------------------------------
(* The lines on which comments are placed.                                *)

\* The change under review stays what it was.
IsDiff == change \in Seq(FileDiffs)

LEMMA ChangeStays == FindingsSpec => []IsDiff
<1>1. FindingsInit => IsDiff
  BY InputsAssumption DEF FindingsInit, IsDiff
<1>2. IsDiff /\ [FindingsNext]_findingsVars => IsDiff'
  <2>1. Recheck \/ Investigate => change' = change
    BY DEF Recheck, Investigate
  <2>2. Validate => change' = change
    BY DEF Validate
  <2>3. Dedup => change' = change
    BY DEF Dedup
  <2>4. Anchor => change' = change
    BY DEF Anchor
  <2>5. UNCHANGED findingsVars => change' = change
    BY DEF findingsVars
  <2> QED  BY Zenon, <2>1, <2>2, <2>3, <2>4, <2>5 DEF FindingsNext, IsDiff
<1> QED  BY <1>1, <1>2, PTL DEF FindingsSpec

\* For every diff, comments are placed on lines that are really there, but for
\* the two cases that HeadLinesAreReal leaves out.
THEOREM HeadLinesAreRead == FindingsSpec => []HeadLinesAreReal
<1>1. IsDiff => HeadLinesAreReal
  BY FileIsFound DEF HeadLinesAreReal, IsDiff
<1> QED  BY <1>1, ChangeStays, PTL
===============================================================================
