----------------------------- MODULE DebateLoop -----------------------------
(***************************************************************************)
(* The execution of one task card: debate_loop_core_async around           *)
(* run_attempt.  A round checks the token budget, calls the executor,      *)
(* which walks the route's fallback chain by itself, gives a failed call   *)
(* one binary fallback, and has the result reviewed; a completed result    *)
(* that the review rejects goes back to the executor with feedback.        *)
(*                                                                         *)
(* The reviewers run concurrently and each answers, fails or times out on  *)
(* its own; nothing else runs beside the loop.                             *)
(***************************************************************************)
EXTENDS Naturals, Sequences, FiniteSets, ExecutorOutcome

CONSTANTS Routes,           \* registered routes
          NoRoute,          \* no such route, an empty route name
          FallbackOf,       \* fallback_route_name of a route
          ExecutorOf,       \* executor_name of a route, every CLI agent as "cli"
          DetachedRoutes,   \* routes that run their executor in a child process
          ChainEnabled,     \* routes on which the executor walks the chain
          StartRoutes,      \* routes select_route may pick
          TaskCards,        \* cards plan may build
          MaxCost,          \* bound: cost of one executor call
          MaxPrior          \* bound: cost of the task's earlier attempts

ASSUME CardAssumption ==
  /\ IsFiniteSet(Routes) /\ NoRoute \notin Routes
  /\ FallbackOf \in [Routes -> Routes \cup {NoRoute}]
  /\ ExecutorOf \in [Routes -> {"http", "cli", "local", "note-only", "mock-remote"}]
  /\ ChainEnabled \subseteq {r \in Routes : ExecutorOf[r] \in {"http", "cli"}}
  /\ DetachedRoutes \subseteq Routes \ ChainEnabled
  /\ StartRoutes \subseteq Routes
  /\ \A c \in TaskCards :
       /\ c.reviewer_routes \in Seq(Routes \cup {NoRoute})
       /\ c.consensus_policy \in {"majority", "veto"}
       /\ c.token_cost_limit \in Nat   \* 0: no limit
  /\ MaxCost \in Nat /\ MaxPrior \in Nat

VARIABLES card,       \* the card: reviewers, policy, budget
          pc,         \* the step of the loop
          round,      \* retry_round
          route,      \* state.route_name
          chain,      \* state.fallback_route_chain
          seen,       \* visited_routes of the executor call in progress
          fallback,   \* the call in progress is the binary fallback's
          result,     \* executor_result of the round
          votes,      \* what each reviewer has said in this round
          review,     \* status of the review gate
          feedback,   \* round of state.review_feedback_ref, 0 if empty
          refs,       \* feedback_refs
          spent,      \* token cost over the executor events of the task
          log         \* the loop's own events

vars == <<card, pc, round, route, chain, seen, fallback, result, votes, review,
          feedback, refs, spent, log>>

DEBATE_MAX_ROUNDS == 3

Kinds == {"none", "retryable", "rate_limited", "blocking", "budget_exhausted"}

CallResult == [status : {"pending", "completed", "failed"}, kind : Kinds,
               valid : BOOLEAN,      \* output is non-empty and fits output_schema
               degraded : BOOLEAN]

NoResult == [status |-> "pending", kind |-> "none", valid |-> FALSE, degraded |-> FALSE]

(* _normalized_reviewer_routes: empty names and repetitions are dropped. *)
Voters == {card.reviewer_routes[i] : i \in DOMAIN card.reviewer_routes} \ {NoRoute}

VetoRoute == LET named == {i \in DOMAIN card.reviewer_routes :
                             card.reviewer_routes[i] # NoRoute}
             IN card.reviewer_routes[CHOOSE i \in named : \A j \in named : i <= j]

LoopEvents == [type : {"budget_exhausted", "execution_fallback", "debate_round",
                       "debate_circuit_breaker"},
               round : Nat]

TypeOK == /\ card \in TaskCards
          /\ pc \in {"guard", "call", "called", "fallback", "review", "voting",
                     "decide", "done", "exhausted"}
          /\ round \in 0 .. DEBATE_MAX_ROUNDS
          /\ route \in Routes
          /\ chain \in Seq(Routes)
          /\ seen \subseteq Routes
          /\ fallback \in BOOLEAN
          /\ result \in CallResult
          /\ votes \in [Voters -> {"pending", "passed", "failed"}]
          /\ review \in {"none", "passed", "failed"}
          /\ feedback \in 0 .. DEBATE_MAX_ROUNDS
          /\ refs \in Seq(1 .. DEBATE_MAX_ROUNDS)
          /\ spent \in Nat
          /\ log \in Seq(LoopEvents)

-----------------------------------------------------------------------------
(* Routes *)

(* The route named as the fallback of a route. *)
fallback_route_for(r) == IF r = NoRoute THEN NoRoute ELSE FallbackOf[r]

(* The walk over fallback_route_name, long enough to meet a repetition. *)
walk(first) ==
  LET at[n \in 1 .. Cardinality(Routes) + 1] ==
        IF n = 1 THEN first ELSE fallback_route_for(at[n - 1])
  IN at

unseen(at, n) == at[n] # NoRoute /\ \A m \in 1 .. n - 1 : at[m] # at[n]

(* The routes of the walk, up to the first repetition. *)
resolve_fallback_chain(first) ==
  LET at == walk(first)
      len == CHOOSE n \in 1 .. Cardinality(Routes) :
               (\A m \in 1 .. n : unseen(at, m)) /\ ~unseen(at, n + 1)
  IN [n \in 1 .. len |-> at[n]]

(* Fault: the chain is followed in the registry, whatever was visited. *)
load_fallback_route_unvisited ==
  FallbackOf[route]

(* The route after the current one in the chain, unless it was visited. *)
load_fallback_route ==
  LET after == {i \in 2 .. Len(chain) : chain[i - 1] = route /\ chain[i] \notin seen}
  IN IF after = {} THEN NoRoute ELSE chain[CHOOSE i \in after : TRUE]

-----------------------------------------------------------------------------
(* One round *)

(* Fault: a budget that is exactly spent still admits a round. *)
budget_exhausted_strict ==
  card.token_cost_limit > 0 /\ spent > card.token_cost_limit

evaluate_token_cost_budget ==
  card.token_cost_limit > 0 /\ spent >= card.token_cost_limit

budget_guard ==
  /\ pc = "guard"
  /\ evaluate_token_cost_budget
  /\ result' = [status |-> "failed", kind |-> "budget_exhausted", valid |-> FALSE,
                degraded |-> FALSE]
  /\ review' = "failed"
  /\ log' = Append(log, [type |-> "budget_exhausted", round |-> round])
  /\ pc' = "decide"
  /\ UNCHANGED <<card, round, route, chain, seen, fallback, votes, feedback, refs, spent>>

run_attempt ==
  /\ pc = "guard"
  /\ ~evaluate_token_cost_budget
  /\ seen' = {route}
  /\ fallback' = FALSE
  /\ pc' = "call"
  /\ UNCHANGED <<card, round, route, chain, result, votes, review, feedback, refs, spent, log>>

(* The failure kinds of the executors, and what a retry thinks of them. *)
classify_failure_kind == {"unreachable_backend", "generic_failure"}
http_failures == {"http_timeout", "http_rate_limited", "http_error"}
cli_failures == {"launch_error", "timeout"} \cup classify_failure_kind

FailsWith(r) == CASE ExecutorOf[r] = "http" -> http_failures
                  [] ExecutorOf[r] = "cli" -> cli_failures
                  [] OTHER -> {}

RETRYABLE_FAILURE_KINDS ==
  {"timeout", "unreachable_backend", "generic_failure", "http_timeout", "http_rate_limited"}

FailedCall(kind) ==
  [status |-> "failed", valid |-> FALSE, degraded |-> fallback \/ Cardinality(seen) > 1,
   kind |-> CASE kind = "http_rate_limited" -> "rate_limited"
              [] kind \in RETRYABLE_FAILURE_KINDS \ {"http_rate_limited"} -> "retryable"
              [] OTHER -> "blocking"]

(* The route failed; the executor goes on with the next one in the chain.  *)
(* A rate limit is returned at once.                                       *)
apply_executor_route_fallback ==
  /\ pc = "call"
  /\ route \in ChainEnabled
  /\ load_fallback_route # NoRoute
  /\ route' = load_fallback_route
  /\ seen' = seen \cup {load_fallback_route}
  /\ UNCHANGED <<card, pc, round, chain, fallback, result, votes, review, feedback, refs,
                 spent, log>>

NoOtherRoute == route \notin ChainEnabled \/ load_fallback_route = NoRoute

(* The executor of the task returns. *)
CallReturns(r) ==
  /\ result' = r
  /\ pc' = "called"
  /\ UNCHANGED <<card, round, route, chain, seen, fallback, votes, review, feedback, refs,
                 spent, log>>

(* Any executor may complete; the local one always does. *)
run_prompt_executor ==
  /\ pc = "call"
  /\ \E valid \in BOOLEAN :
       CallReturns([status |-> "completed", kind |-> "none", valid |-> valid,
                    degraded |-> fallback \/ Cardinality(seen) > 1])

run_http_executor_async ==
  /\ pc = "call" /\ route \notin DetachedRoutes /\ ExecutorOf[route] = "http"
  /\ \E kind \in http_failures : /\ kind = "http_rate_limited" \/ NoOtherRoute
                                 /\ CallReturns(FailedCall(kind))

run_cli_agent_executor_async ==
  /\ pc = "call" /\ route \notin DetachedRoutes /\ ExecutorOf[route] = "cli"
  /\ NoOtherRoute
  /\ \E kind \in cli_failures : CallReturns(FailedCall(kind))

(* The child process reports the failure of its executor, exits with an    *)
(* error, or leaves a result that cannot be read.                          *)
run_detached_executor ==
  /\ pc = "call" /\ route \in DetachedRoutes
  /\ \E kind \in FailsWith(route) \cup {"launch_error", "generic_failure"} :
       CallReturns(FailedCall(kind))

(* Without the offline mode there is nothing a note can be made of. *)
run_note_only_executor ==
  /\ pc = "call" /\ route \notin DetachedRoutes /\ ExecutorOf[route] = "note-only"
  /\ CallReturns(FailedCall("unreachable_backend"))

run_mock_remote_executor ==
  /\ pc = "call" /\ route \notin DetachedRoutes /\ ExecutorOf[route] = "mock-remote"
  /\ CallReturns(FailedCall("mock_remote_failure"))

(* run_execution appends the executor event with the cost of the call. *)
run_execution ==
  /\ pc = "called"
  /\ \E cost \in 0 .. MaxCost : spent' = spent + cost
  /\ log' = IF fallback THEN Append(log, [type |-> "execution_fallback", round |-> round])
            ELSE log
  /\ pc' = IF result.status = "failed" /\ ~fallback THEN "fallback" ELSE "review"
  /\ UNCHANGED <<card, round, route, chain, seen, fallback, result, votes, review, feedback,
                 refs>>

FallbackSkipped == \/ result.degraded
                   \/ result.kind = "rate_limited"
                   \/ FallbackOf[route] \in {NoRoute, route}

run_binary_fallback ==
  /\ pc = "fallback"
  /\ ~FallbackSkipped
  /\ route' = FallbackOf[route]
  /\ chain' = resolve_fallback_chain(FallbackOf[route])
  /\ seen' = {FallbackOf[route]}
  /\ fallback' = TRUE
  /\ pc' = "call"
  /\ UNCHANGED <<card, round, result, votes, review, feedback, refs, spent, log>>

SkipFallback ==
  /\ pc = "fallback"
  /\ FallbackSkipped
  /\ pc' = "review"
  /\ UNCHANGED <<card, round, route, chain, seen, fallback, result, votes, review, feedback,
                 refs, spent, log>>

-----------------------------------------------------------------------------
(* The review gate *)

BaselinePassed == result.status = "completed" /\ result.valid

review_executor_output ==
  /\ pc = "review"
  /\ ~BaselinePassed \/ Voters = {}
  /\ review' = IF BaselinePassed THEN "passed" ELSE "failed"
  /\ pc' = "decide"
  /\ UNCHANGED <<card, round, route, chain, seen, fallback, result, votes, feedback, refs,
                 spent, log>>

run_consensus_review ==
  /\ pc = "review"
  /\ BaselinePassed /\ Voters # {}
  /\ votes' = [v \in Voters |-> "pending"]
  /\ pc' = "voting"
  /\ UNCHANGED <<card, round, route, chain, seen, fallback, result, review, feedback, refs,
                 spent, log>>

(* A reviewer answers; a timeout, an exception, a failed execution and an  *)
(* unreadable answer all count as "failed".                                *)
execute_reviewer(v) ==
  /\ pc = "voting"
  /\ votes[v] = "pending"
  /\ \E vote \in {"passed", "failed"} : votes' = [votes EXCEPT ![v] = vote]
  /\ UNCHANGED <<card, pc, round, route, chain, seen, fallback, result, review, feedback,
                 refs, spent, log>>

PassedCount == Cardinality({v \in Voters : votes[v] = "passed"})

(* Fault: half of the reviewers is enough. *)
consensus_reached_by_half ==
  IF card.consensus_policy = "veto" THEN votes[VetoRoute] = "passed"
  ELSE PassedCount >= Cardinality(Voters) \div 2

consensus_reached ==
  IF card.consensus_policy = "veto" THEN votes[VetoRoute] = "passed"
  ELSE PassedCount >= (Cardinality(Voters) \div 2) + 1

gather_reviews ==
  /\ pc = "voting"
  /\ \A v \in Voters : votes[v] # "pending"
  /\ review' = IF consensus_reached THEN "passed" ELSE "failed"
  /\ pc' = "decide"
  /\ UNCHANGED <<card, round, route, chain, seen, fallback, result, votes, feedback, refs,
                 spent, log>>

-----------------------------------------------------------------------------
(* What debate_loop_core_async does with the round *)

(* Passed, or not completed: the loop returns.  The case of a failed       *)
(* review without failed checks does not arise: both the baseline and the  *)
(* consensus record the check that failed.                                 *)
Return ==
  /\ pc = "decide"
  /\ review = "passed" \/ result.status # "completed"
  /\ feedback' = 0
  /\ pc' = "done"
  /\ UNCHANGED <<card, round, route, chain, seen, fallback, result, votes, review, refs,
                 spent, log>>

RejectedResult == pc = "decide" /\ review = "failed" /\ result.status = "completed"

(* Fault: the last round is not played. *)
record_exhausted_early ==
  /\ RejectedResult
  /\ round >= DEBATE_MAX_ROUNDS - 1
  /\ log' = Append(log, [type |-> "debate_circuit_breaker", round |-> round])
  /\ pc' = "exhausted"
  /\ UNCHANGED <<card, round, route, chain, seen, fallback, result, votes, review, feedback,
                 refs, spent>>

record_exhausted ==
  /\ RejectedResult
  /\ round >= DEBATE_MAX_ROUNDS
  /\ log' = Append(log, [type |-> "debate_circuit_breaker", round |-> round])
  /\ pc' = "exhausted"
  /\ UNCHANGED <<card, round, route, chain, seen, fallback, result, votes, review, feedback,
                 refs, spent>>

(* Faults: the feedback of the round is stored but not handed on; there is *)
(* always another round.                                                   *)
apply_feedback_dropped ==
  /\ RejectedResult
  /\ round < DEBATE_MAX_ROUNDS
  /\ refs' = Append(refs, round + 1)
  /\ log' = Append(log, [type |-> "debate_round", round |-> round + 1])
  /\ round' = round + 1
  /\ pc' = "guard"
  /\ UNCHANGED <<card, route, chain, seen, fallback, result, votes, review, feedback, spent>>

apply_feedback ==
  /\ RejectedResult
  /\ round < DEBATE_MAX_ROUNDS
  /\ feedback' = round + 1
  /\ refs' = Append(refs, round + 1)
  /\ log' = Append(log, [type |-> "debate_round", round |-> round + 1])
  /\ round' = round + 1
  /\ pc' = "guard"
  /\ UNCHANGED <<card, route, chain, seen, fallback, result, votes, review, spent>>

-----------------------------------------------------------------------------
Init == /\ card \in TaskCards
        /\ pc = "guard"
        /\ round = 0
        /\ route \in StartRoutes
        /\ chain = resolve_fallback_chain(route)
        /\ seen = {}
        /\ fallback = FALSE
        /\ result = NoResult
        /\ votes = [v \in Voters |-> "pending"]
        /\ review = "none"
        /\ feedback = 0
        /\ refs = <<>>
        /\ spent \in 0 .. MaxPrior
        /\ log = <<>>

Next == \/ budget_guard
        \/ run_attempt
        \/ apply_executor_route_fallback
        \/ run_prompt_executor
        \/ run_http_executor_async
        \/ run_cli_agent_executor_async
        \/ run_detached_executor
        \/ run_note_only_executor
        \/ run_mock_remote_executor
        \/ run_execution
        \/ run_binary_fallback
        \/ SkipFallback
        \/ review_executor_output
        \/ run_consensus_review
        \/ \E v \in Voters : execute_reviewer(v)
        \/ gather_reviews
        \/ Return
        \/ record_exhausted
        \/ apply_feedback

Spec == Init /\ [][Next]_vars

(* Executor and reviewer calls are cut off by a timeout, so every step of  *)
(* the loop ends.                                                          *)
FairSpec == Spec /\ WF_vars(Next)

-----------------------------------------------------------------------------
(* Properties *)

(* What the loop returns, as the policies of the task see it. *)
Outcome ==
  IF pc = "exhausted"
  THEN [status |-> "failed", kind |-> "debate", exhausted |-> TRUE]
  ELSE [status |-> result.status, exhausted |-> FALSE,
        kind |-> IF result.kind = "rate_limited" THEN "retryable" ELSE result.kind]

(* A completed result is returned only when its own structural checks      *)
(* passed and more than half of the distinct reviewers, or the veto        *)
(* reviewer, passed it in this round (run_consensus_review_async), however *)
(* many rounds and fallbacks came before.                                  *)
AcceptedMeansApproved ==
  pc = "done" /\ result.status = "completed" =>
    /\ result.valid
    /\ Voters # {} =>
         IF card.consensus_policy = "veto" THEN votes[VetoRoute] = "passed"
         ELSE 2 * PassedCount > Cardinality(Voters)

(* Where the log tells of a debate round. *)
DebateRounds == {k \in DOMAIN log : log[k].type = "debate_round"}

(* The circuit breaker opens only after every debate round was played, and *)
(* each left its feedback in order (debate_loop_core_async).               *)
ExhaustedAfterAllRounds ==
  pc = "exhausted" =>
    /\ refs = [i \in 1 .. DEBATE_MAX_ROUNDS |-> i]
    /\ {log[k].round : k \in DebateRounds} = 1 .. DEBATE_MAX_ROUNDS
    /\ \A j, k \in DebateRounds : j < k => log[j].round < log[k].round

(* An executor works on the feedback of the round before it, on none in    *)
(* the first round, and an answer leaves none behind (apply_feedback,      *)
(* _clear_review_feedback_state).                                          *)
FeedbackIsCurrent ==
  /\ pc \in {"call", "called"} => feedback = round
  /\ pc = "done" => feedback = 0

(* No round starts on a spent budget; a started round may overrun it by    *)
(* one call and its binary fallback, which is not checked again            *)
(* (_budget_guard_result, _run_binary_fallback_async).                     *)
OverrunBounded ==
  card.token_cost_limit > 0 /\ pc \in {"call", "called", "fallback"} =>
    spent < card.token_cost_limit + MaxCost

(* The loop returns, whatever the routes' fallbacks look like, with one of *)
(* the results TaskRun assumes of an execution                             *)
(* (_run_single_task_with_debate_async).                                   *)
Returns == <>(pc \in {"done", "exhausted"} /\ Outcome \in Outcomes)

=============================================================================
