------------------------------ MODULE ModelRoutes ------------------------------
(***************************************************************************)
(* The model requests of one review run: the ledger that every client of   *)
(* the run reserves from (provider/mod.rs), the attempts of one request    *)
(* with their retries (provider/http.rs), and the routes of one role, tried *)
(* in order from a position that the role's clients share                  *)
(* (provider/fallback.rs).                                                 *)
(*                                                                         *)
(* A caller is a task that holds one client of the role: the agents of a   *)
(* run investigate concurrently, and a caller may drop a request at any    *)
(* await, because agents put a deadline on each.  What a request sends and *)
(* what its answers mean is in Protocols.  Left out: transcripts, tokens   *)
(* and latencies, adjustments learned from earlier requests, and the       *)
(* fallback events, which are only reported.                               *)
(***************************************************************************)
EXTENDS Protocols, Integers, FiniteSets

CONSTANTS
    Callers,        \* tasks with a client of the role
    NumRoutes,      \* length of the role's list of routes
    Missing,        \* routes whose API key is not set
    MaxRequests,    \* run_max_requests
    Retries,        \* retries of a request after its first attempt
    Kinds,          \* the protocol and settings of each route
    Refusable       \* bound: the fields that providers may refuse

Routes == 1 .. NumRoutes

ASSUME RoutesAssumption ==
    /\ NumRoutes \in Nat \ {0}
    /\ Missing \subseteq Routes
    /\ MaxRequests \in Nat
    /\ Retries \in Nat
    /\ Kinds \in [Routes -> RouteKinds]
    /\ Refusable \subseteq Fields

ASSUME CallersAssumption == IsFiniteSet(Callers)

VARIABLES
    recorded,       \* entries of the ledger
    reserved,       \* reservations that were not recorded yet
    sent,           \* history: attempts that went out
    position,       \* the role's sticky route
    call            \* the request of each caller

routeVars == <<recorded, reserved, sent, position, call>>

\* Where a request is: "routing" looks for the next route, "ready" is about to
\* reserve an attempt, "flight" waits for the answer, "waiting" sleeps before a
\* retry, "answered" and "failed" are its results.
Places == {"idle", "routing", "ready", "flight", "waiting", "answered", "failed"}

\* The state of an attempt: what it gave up, and what it had to from the start.
Calls == [at : Places, route : 1 .. NumRoutes + 1, attempts : Nat,
          given : SUBSET Fields, cap : SUBSET {"effort"}]

NoCall == [at |-> "idle", route |-> 1, attempts |-> 0, given |-> {}, cap |-> {}]

RoutesInit ==
    /\ recorded = 0
    /\ reserved = 0
    /\ sent = 0
    /\ position = 1
    /\ call = [c \in Callers |-> NoCall]

InFlight == {c \in Callers : call[c].at = "flight"}

-------------------------------------------------------------------------------
(* The ledger.                                                             *)

\* try_reserve and has_budget: what was recorded and what is under way.
HasBudget == recorded + reserved < MaxRequests

\* saturating_sub(1).
Decremented(n) == IF n = 0 THEN 0 ELSE n - 1

\* record: an attempt is over and takes its reservation with it.
Record ==
    /\ recorded' = recorded + 1
    /\ reserved' = Decremented(reserved)
    /\ UNCHANGED sent

LedgerUnchanged == UNCHANGED <<recorded, reserved, sent>>

-------------------------------------------------------------------------------
(* One request.                                                            *)

MoveTo(c, at) == call' = [call EXCEPT ![c].at = at]

\* complete_routes starts at the role's position, with capped effort or not.
Complete(c, cap) ==
    /\ call[c].at = "idle"
    /\ call' = [call EXCEPT ![c] = [NoCall EXCEPT !.at = "routing", !.route = position,
                                                  !.cap = cap]]
    /\ UNCHANGED position
    /\ LedgerUnchanged

Usable(r) == {s \in Routes \ Missing : r <= s}

\* The first usable route from here on is tried, if the run has any budget.
TryRoute(c) ==
    /\ call[c].at = "routing"
    /\ LET usable == Usable(call[c].route)
       IN  \/ /\ usable = {} \/ ~HasBudget
              /\ MoveTo(c, "failed")
           \/ /\ HasBudget
              /\ \E r \in usable :
                    /\ \A s \in usable : r <= s
                    /\ call' = [call EXCEPT ![c] = [NoCall EXCEPT !.at = "ready", !.route = r,
                                              !.cap = call[c].cap, !.given = call[c].cap]]
    /\ UNCHANGED position
    /\ LedgerUnchanged

\* Every attempt, also a retry, reserves; without a slot the request is over and
\* no other route is tried.
Reserve(c) ==
    /\ call[c].at = "ready"
    /\ \/ /\ HasBudget
          /\ reserved' = reserved + 1
          /\ sent' = sent + 1
          /\ call' = [call EXCEPT ![c].at = "flight", ![c].attempts = @ + 1]
          /\ UNCHANGED <<recorded, position>>
       \/ /\ ~HasBudget
          /\ MoveTo(c, "failed")
          /\ UNCHANGED position
          /\ LedgerUnchanged

\* The next route of the list, if the error is one that another may not have.
NextRoute(c) ==
    call' = [call EXCEPT ![c].at = "routing", ![c].route = @ + 1]

\* fetch_max: a request that started earlier does not take the role back to a
\* route that a later one left.
Advanced(r) == IF r > position THEN r ELSE position

\* What a provider may answer: it only refuses a field that it was sent.
Answers(c) ==
    LET sends == Sends(Kinds[call[c].route], call[c].given)
    IN  {reply \in Replies : reply.field \in {"none"} \cup (Refusable \cap sends)}

Parsed(c, reply) == Parse(Kinds[call[c].route], call[c].given, reply)

\* A usable completion.
Succeed(c) ==
    /\ call[c].at = "flight"
    /\ \E reply \in Answers(c) : Parsed(c, reply).is = "message"
    /\ Record
    /\ position' = Advanced(call[c].route)
    /\ MoveTo(c, "answered")

\* 429, 5xx, no connection or no answer in time: again after a pause while there
\* are retries, then the next route.
Overloaded(c) ==
    /\ call[c].at = "flight"
    /\ Record
    /\ \/ call[c].attempts <= Retries /\ MoveTo(c, "waiting")
       \/ call[c].attempts > Retries /\ NextRoute(c)
    /\ UNCHANGED position

\* The pause before a retry ends.
Resume(c) ==
    /\ call[c].at = "waiting"
    /\ MoveTo(c, "ready")
    /\ UNCHANGED position
    /\ LedgerUnchanged

\* Parse::RetrySameSlot: a field the provider rejects is left out from now on.
Adjust(c) ==
    /\ call[c].at = "flight"
    /\ \E reply \in Answers(c) :
          /\ Parsed(c, reply).is = "again"
          /\ call' = [call EXCEPT ![c].at = "ready", ![c].given = Parsed(c, reply).given]
    /\ Record
    /\ UNCHANGED position

\* A rejected key, an unknown model, an unusable or empty reply, and with no
\* answer at all a broken connection: the next route.
Rejected(c) ==
    /\ call[c].at = "flight"
    /\ \E reply \in Answers(c) :
          /\ reply.status \in {"ok", "denied", "unknown"}
          /\ Parsed(c, reply).is \in {"silent", "error"}
    /\ Record
    /\ NextRoute(c)
    /\ UNCHANGED position

\* Any other refusal of the request ends it.
Refused(c) ==
    /\ call[c].at = "flight"
    /\ \E reply \in Answers(c) :
          reply.status \in {"400", "other"} /\ Parsed(c, reply).is = "error"
    /\ Record
    /\ MoveTo(c, "failed")
    /\ UNCHANGED position

Answer(c) == Succeed(c) \/ Overloaded(c) \/ Adjust(c) \/ Rejected(c) \/ Refused(c)

\* Mutant of Dropped: the reservation of a dropped request is given back.
DroppedReturns(c) ==
    /\ call' = [call EXCEPT ![c] = NoCall]
    /\ reserved' = IF call[c].at = "flight" THEN Decremented(reserved) ELSE reserved
    /\ UNCHANGED <<recorded, sent, position>>

\* The caller's deadline drops the future.  An attempt under way is neither
\* recorded nor released: its reservation counts for the rest of the run.
Dropped(c) ==
    /\ call' = [call EXCEPT ![c] = NoCall]
    /\ UNCHANGED position
    /\ LedgerUnchanged

\* The caller has the result.
Collect(c) ==
    /\ call[c].at \in {"answered", "failed"}
    /\ call' = [call EXCEPT ![c] = NoCall]
    /\ UNCHANGED position
    /\ LedgerUnchanged

\* A step of the client itself, between two awaits.
Work(c) == TryRoute(c) \/ Reserve(c)

-------------------------------------------------------------------------------
(* Callers that ask and drop whenever they like.                           *)

Use(c) ==
    \/ \E cap \in SUBSET {"effort"} : Complete(c, cap)
    \/ Work(c) \/ Answer(c) \/ Resume(c) \/ Collect(c)
    \/ call[c].at \in {"flight", "waiting"} /\ Dropped(c)

RoutesNext == \E c \in Callers : Use(c)

RoutesSpec == RoutesInit /\ [][RoutesNext]_routeVars

-------------------------------------------------------------------------------
RoutesTypeOK ==
    /\ recorded \in Nat
    /\ reserved \in Nat
    /\ sent \in Nat
    /\ position \in Routes
    /\ call \in [Callers -> Calls]

\* run_max_requests: however callers interleave, retry, change routes and drop
\* their requests, no more attempts go out than the run may make.
RequestsInBudget == sent <= MaxRequests
===============================================================================
