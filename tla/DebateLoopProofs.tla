-------------------------- MODULE DebateLoopProofs --------------------------
(***************************************************************************)
(* Proofs about DebateLoop, for any finite registry of routes, any cards   *)
(* and any costs.                                                          *)
(***************************************************************************)
EXTENDS DebateLoop, DataInduction, SequenceTheorems

-----------------------------------------------------------------------------
(* Fallback chains *)

(* What a walk of n routes is. *)
IsWalk(at, first, n) ==
  at = [i \in 1 .. n |-> IF i = 1 THEN first ELSE fallback_route_for(at[i - 1])]

(* There are walks of every length. *)
LEMMA WalkExists ==
  ASSUME NEW first, NEW N \in Nat
  PROVE  \E at : IsWalk(at, first, N)
<1> DEFINE Bad == {n \in Nat : ~\E at : IsWalk(at, first, n)}
<1>1. SUFFICES ASSUME Bad # {} PROVE FALSE
  OBVIOUS
<1>2. PICK n \in Bad : \A m \in Bad : n <= m
  BY <1>1, LeastNatural
<1>3. n # 0
  <2>1. IsWalk([i \in 1 .. 0 |-> first], first, 0)
    BY DEF IsWalk
  <2> QED BY <2>1, <1>2
<1>4. PICK at : IsWalk(at, first, n - 1)
  BY <1>2, <1>3
<1> DEFINE longer == [i \in 1 .. n |-> IF i < n THEN at[i]
                                       ELSE IF n = 1 THEN first
                                       ELSE fallback_route_for(at[n - 1])]
<1>5. IsWalk(longer, first, n)
  <2>1. \A i \in 1 .. n - 1 :
          at[i] = IF i = 1 THEN first ELSE fallback_route_for(at[i - 1])
    BY <1>4 DEF IsWalk
  <2>2. \A i \in 1 .. n :
          longer[i] = IF i = 1 THEN first ELSE fallback_route_for(longer[i - 1])
    BY <2>1, <1>3
  <2> QED BY <2>2 DEF IsWalk
<1> QED BY <1>5, <1>2

(* walk is one of them. *)
LEMMA WalkDefined ==
  ASSUME NEW first
  PROVE  IsWalk(walk(first), first, Cardinality(Routes) + 1)
<1>1. Cardinality(Routes) + 1 \in Nat
  BY CardAssumption, FS_CardinalityType
<1>2. \E at : IsWalk(at, first, Cardinality(Routes) + 1)
  BY <1>1, WalkExists
<1> QED BY <1>2 DEF walk, IsWalk

(* From a route, a walk passes routes until it ends. *)
LEMMA WalkType ==
  ASSUME NEW first \in Routes, NEW n \in 1 .. Cardinality(Routes) + 1
  PROVE  walk(first)[n] \in Routes \cup {NoRoute}
<1> DEFINE N == Cardinality(Routes) + 1
           at == walk(first)
           Bad == {i \in Nat : i \in 1 .. N /\ at[i] \notin Routes \cup {NoRoute}}
<1> HIDE DEF at
<1>0. N \in Nat
  BY CardAssumption, FS_CardinalityType
<1>1. SUFFICES ASSUME Bad # {} PROVE FALSE
  BY DEF at
<1>2. PICK i \in Bad : \A m \in Bad : i <= m
  BY <1>1, LeastNatural
<1>3. at[i] = IF i = 1 THEN first ELSE fallback_route_for(at[i - 1])
  BY <1>0, <1>2, WalkDefined DEF IsWalk, at
<1>4. i # 1 => at[i - 1] \in Routes \cup {NoRoute}
  BY <1>0, <1>2
<1> QED BY <1>2, <1>3, <1>4, CardAssumption DEF fallback_route_for

(* Where a chain may be cut. *)
CutAt(first, n) ==
  (\A m \in 1 .. n : unseen(walk(first), m)) /\ ~unseen(walk(first), n + 1)

(* A walk longer than the registry repeats itself or ends. *)
LEMMA WalkIsCut ==
  ASSUME NEW first \in Routes
  PROVE  \E n \in 1 .. Cardinality(Routes) : CutAt(first, n)
<1> DEFINE K == Cardinality(Routes)
           at == walk(first)
           seenAgain == {n \in Nat : n \in 1 .. K + 1 /\ ~unseen(at, n)}
<1>0. K \in Nat
  BY CardAssumption, FS_CardinalityType
<1>1. seenAgain # {}
  <2> SUFFICES ASSUME \A n \in 1 .. K + 1 : unseen(at, n)
               PROVE  FALSE
    BY <1>0
  <2>1. \A n \in 1 .. K + 1 : at[n] \in Routes
    BY WalkType DEF unseen
  <2>2. \A n, m \in 1 .. K + 1 : n # m => at[n] # at[m]
    BY <1>0 DEF unseen
  <2> DEFINE f == [n \in 1 .. K + 1 |-> at[n]]
  <2>3. f \in [1 .. K + 1 -> Routes]
    BY <2>1
  <2>4. IsFiniteSet(1 .. K + 1) /\ Cardinality(1 .. K + 1) = K + 1
    BY <1>0, FS_Interval
  <2> HIDE DEF at, f
  <2>5. \E x, y \in 1 .. K + 1 : x # y /\ f[x] = f[y]
    BY <1>0, <2>3, <2>4, CardAssumption, FS_PigeonHole
  <2> QED BY <2>2, <2>5 DEF f
<1>2. PICK n \in seenAgain : \A m \in seenAgain : n <= m
  BY <1>1, LeastNatural
<1>3. n # 1
  <2>1. at[1] = first
    BY <1>0, WalkDefined DEF IsWalk
  <2> QED BY <1>2, <2>1, CardAssumption DEF unseen
<1>4. n - 1 \in 1 .. K
  BY <1>0, <1>2, <1>3
<1>5. \A m \in 1 .. n - 1 : unseen(at, m)
  BY <1>0, <1>2
<1>6. CutAt(first, n - 1)
  BY <1>2, <1>4, <1>5 DEF CutAt
<1> QED BY <1>4, <1>6

(* A fallback chain starts at its route, follows fallback_route_name,      *)
(* visits no route twice, and goes on until the registry names no further  *)
(* route or one that is in the chain, also where fallbacks form a cycle    *)
(* (resolve_fallback_chain).                                               *)
THEOREM ChainIsComplete ==
  ASSUME NEW first \in Routes
  PROVE  LET c == resolve_fallback_chain(first)
         IN /\ c \in Seq(Routes) /\ c # <<>> /\ c[1] = first
            /\ Len(c) <= Cardinality(Routes)
            /\ \A i \in 2 .. Len(c) : c[i] = FallbackOf[c[i - 1]]
            /\ \A i, j \in 1 .. Len(c) : i # j => c[i] # c[j]
            /\ \/ FallbackOf[c[Len(c)]] = NoRoute
               \/ \E i \in 1 .. Len(c) : FallbackOf[c[Len(c)]] = c[i]
<1> DEFINE K == Cardinality(Routes)
           at == walk(first)
           len == CHOOSE n \in 1 .. K : CutAt(first, n)
           c == [n \in 1 .. len |-> at[n]]
<1>0. K \in Nat
  BY CardAssumption, FS_CardinalityType
<1>1. len \in 1 .. K /\ CutAt(first, len)
  BY WalkIsCut
<1>2. resolve_fallback_chain(first) = c
  BY DEF resolve_fallback_chain, CutAt
<1> HIDE DEF len
<1>3. at[1] = first /\ \A i \in 2 .. K + 1 : at[i] = fallback_route_for(at[i - 1])
  BY <1>0, WalkDefined DEF IsWalk
<1>4. \A i \in 1 .. K + 1 : at[i] \in Routes \cup {NoRoute}
  BY WalkType
<1> HIDE DEF at
<1>5. \A i \in 1 .. len : at[i] \in Routes
  BY <1>0, <1>1, <1>4 DEF CutAt, unseen, at
<1>6. c \in Seq(Routes) /\ Len(c) = len
  BY <1>0, <1>1, <1>5
<1>7. \A i \in 2 .. len : c[i] = FallbackOf[c[i - 1]]
  BY <1>0, <1>1, <1>3, <1>5, CardAssumption DEF fallback_route_for
<1>8. \A i, j \in 1 .. len : i # j => c[i] # c[j]
  BY <1>0, <1>1 DEF CutAt, unseen, at
<1>9. FallbackOf[c[len]] = NoRoute \/ \E i \in 1 .. len : FallbackOf[c[len]] = c[i]
  <2>1. at[len + 1] = FallbackOf[at[len]]
    BY <1>0, <1>1, <1>3, <1>5, CardAssumption DEF fallback_route_for
  <2>2. at[len + 1] = NoRoute \/ \E i \in 1 .. len : at[i] = at[len + 1]
    BY <1>0, <1>1 DEF CutAt, unseen, at
  <2> QED BY <1>0, <1>1, <2>1, <2>2
<1>10. c # <<>> /\ c[1] = first
  BY <1>0, <1>1, <1>3, <1>6
<1> HIDE DEF c
<1> QED BY <1>0, <1>1, <1>2, <1>6, <1>7, <1>8, <1>9, <1>10

(* The next route of a chain is a route. *)
LEMMA NextRouteType ==
  ASSUME chain \in Seq(Routes), load_fallback_route # NoRoute
  PROVE  load_fallback_route \in Routes
<1> DEFINE after == {i \in 2 .. Len(chain) : chain[i - 1] = route /\ chain[i] \notin seen}
<1>1. after # {}
  BY DEF load_fallback_route
<1>2. (CHOOSE i \in after : TRUE) \in after
  BY <1>1
<1>3. \A i \in after : chain[i] \in Routes
  BY ElementOfSeq
<1> HIDE DEF after
<1>4. load_fallback_route = chain[CHOOSE i \in after : TRUE]
  BY <1>1 DEF load_fallback_route, after
<1> QED BY <1>2, <1>3, <1>4

-----------------------------------------------------------------------------
(* Types *)

(* What an executor returns is a result. *)
LEMMA CallType ==
  ASSUME TypeOK
  PROVE  /\ \A kind : FailedCall(kind) \in CallResult
         /\ \A kind : /\ FailedCall(kind).status = "failed"
                      /\ FailedCall(kind).kind \in {"retryable", "rate_limited", "blocking"}
         /\ \A valid \in BOOLEAN :
              [status |-> "completed", kind |-> "none", valid |-> valid,
               degraded |-> fallback \/ Cardinality(seen) > 1] \in CallResult
  BY DEF TypeOK, FailedCall, CallResult, Kinds, RETRYABLE_FAILURE_KINDS

(* The calls of the executors, of which only the result differs. *)
CallStep == \/ run_prompt_executor
            \/ run_http_executor_async
            \/ run_cli_agent_executor_async
            \/ run_detached_executor
            \/ run_note_only_executor
            \/ run_mock_remote_executor

(* Whatever the executor, a call returns a result of its kind. *)
LEMMA CallsReturnResults ==
  ASSUME TypeOK, CallStep
  PROVE  /\ pc = "call"
         /\ \E r \in CallResult :
              /\ CallReturns(r)
              /\ r.status \in {"completed", "failed"}
              /\ r.status = "completed" => r.kind = "none"
              /\ r.status = "failed" => r.kind \in {"retryable", "rate_limited", "blocking"}
<1>1. CASE run_prompt_executor
  BY <1>1, CallType DEF run_prompt_executor
<1>2. CASE run_http_executor_async
  BY <1>2, CallType DEF run_http_executor_async
<1>3. CASE run_cli_agent_executor_async
  BY <1>3, CallType DEF run_cli_agent_executor_async
<1>4. CASE run_detached_executor
  BY <1>4, CallType DEF run_detached_executor
<1>5. CASE run_note_only_executor
  BY <1>5, CallType DEF run_note_only_executor
<1>6. CASE run_mock_remote_executor
  BY <1>6, CallType DEF run_mock_remote_executor
<1> QED BY <1>1, <1>2, <1>3, <1>4, <1>5, <1>6 DEF CallStep

(* Every step keeps the types, one case per action. *)
LEMMA TypeStep == TypeOK /\ [Next]_vars => TypeOK'
<1> SUFFICES ASSUME TypeOK, [Next]_vars
             PROVE  TypeOK'
  OBVIOUS
<1>0. card' = card => Voters' = Voters
  BY DEF Voters
<1>1. CASE budget_guard
  <2>1. [type |-> "budget_exhausted", round |-> round] \in LoopEvents
    BY DEF TypeOK, LoopEvents, DEBATE_MAX_ROUNDS
  <2> QED BY <1>0, <1>1, <2>1 DEF TypeOK, budget_guard, CallResult, Kinds
<1>2. CASE run_attempt
  BY <1>0, <1>2 DEF TypeOK, run_attempt
<1>3. CASE apply_executor_route_fallback
  BY <1>0, <1>3, NextRouteType DEF TypeOK, apply_executor_route_fallback
<1>4. CASE CallStep
  BY <1>0, <1>4, CallsReturnResults DEF TypeOK, CallReturns
<1>5. CASE run_execution
  <2>1. [type |-> "execution_fallback", round |-> round] \in LoopEvents
    BY DEF TypeOK, LoopEvents, DEBATE_MAX_ROUNDS
  <2>2. spent' \in Nat
    BY <1>5, CardAssumption DEF TypeOK, run_execution
  <2> QED BY <1>0, <1>5, <2>1, <2>2 DEF TypeOK, run_execution
<1>6. CASE run_binary_fallback
  <2>1. FallbackOf[route] \in Routes
    BY <1>6, CardAssumption DEF TypeOK, run_binary_fallback, FallbackSkipped
  <2>2. resolve_fallback_chain(FallbackOf[route]) \in Seq(Routes)
    BY <2>1, ChainIsComplete
  <2> QED BY <1>0, <1>6, <2>1, <2>2 DEF TypeOK, run_binary_fallback
<1>7. CASE SkipFallback
  BY <1>0, <1>7 DEF TypeOK, SkipFallback
<1>8. CASE review_executor_output
  BY <1>0, <1>8 DEF TypeOK, review_executor_output
<1>9. CASE run_consensus_review
  BY <1>0, <1>9 DEF TypeOK, run_consensus_review
<1>10. ASSUME NEW v \in Voters, execute_reviewer(v)
       PROVE  TypeOK'
  BY <1>0, <1>10 DEF TypeOK, execute_reviewer
<1>11. CASE gather_reviews
  BY <1>0, <1>11 DEF TypeOK, gather_reviews
<1>12. CASE Return
  BY <1>0, <1>12 DEF TypeOK, Return, DEBATE_MAX_ROUNDS
<1>13. CASE record_exhausted
  <2>1. [type |-> "debate_circuit_breaker", round |-> round] \in LoopEvents
    BY DEF TypeOK, LoopEvents, DEBATE_MAX_ROUNDS
  <2> QED BY <1>0, <1>13, <2>1 DEF TypeOK, record_exhausted
<1>14. CASE apply_feedback
  <2>1. [type |-> "debate_round", round |-> round + 1] \in LoopEvents
    BY DEF TypeOK, LoopEvents, DEBATE_MAX_ROUNDS
  <2> QED BY <1>0, <1>14, <2>1 DEF TypeOK, apply_feedback, DEBATE_MAX_ROUNDS
<1>15. CASE UNCHANGED vars
  BY <1>0, <1>15 DEF TypeOK, vars
<1> QED BY <1>1, <1>2, <1>3, <1>4, <1>5, <1>6, <1>7, <1>8, <1>9, <1>10, <1>11,
           <1>12, <1>13, <1>14, <1>15 DEF Next, CallStep

(* The loop's variables keep their types; above all, the chain of a call   *)
(* is always a sequence of routes.                                         *)
THEOREM TypeCorrect == Spec => []TypeOK
<1>1. Init => TypeOK
  <2> SUFFICES ASSUME Init PROVE TypeOK
    OBVIOUS
  <2>1. route \in Routes /\ chain \in Seq(Routes)
    BY CardAssumption, ChainIsComplete DEF Init
  <2>2. spent \in Nat
    BY CardAssumption DEF Init
  <2>3. result \in CallResult
    BY DEF Init, NoResult, CallResult, Kinds
  <2>4. refs \in Seq(1 .. DEBATE_MAX_ROUNDS) /\ log \in Seq(LoopEvents)
    BY EmptySeq DEF Init
  <2>5. votes \in [Voters -> {"pending", "passed", "failed"}]
    BY DEF Init
  <2>6. /\ card \in TaskCards /\ pc = "guard" /\ round = 0 /\ feedback = 0
        /\ seen = {} /\ fallback \in BOOLEAN /\ review = "none"
    BY DEF Init
  <2> QED BY <2>1, <2>2, <2>3, <2>4, <2>5, <2>6 DEF TypeOK, DEBATE_MAX_ROUNDS
<1> QED BY <1>1, TypeStep, PTL DEF Spec

-----------------------------------------------------------------------------
(* The inductive invariant *)

(* What the last call returned. *)
ResultFits ==
  /\ pc \notin {"guard", "call"} => result.status \in {"completed", "failed"}
  /\ result.status = "completed" => result.kind = "none"
  /\ result.status = "failed" => result.kind # "none"

(* What the review gate has seen of it: a review that is passed looked at  *)
(* this result with these votes.                                           *)
ReviewFits ==
  /\ pc = "voting" => BaselinePassed /\ Voters # {}
  /\ pc \in {"decide", "done"} /\ review = "passed" =>
       BaselinePassed /\ (Voters # {} => consensus_reached)
  /\ pc \in {"decide", "done", "exhausted"} => review # "none"
  /\ pc = "done" => review = "passed" \/ result.status # "completed"

(* The rounds that were played, in refs, in the log and as feedback. *)
RoundsInLog ==
  /\ {log[k].round : k \in DebateRounds} = 1 .. round
  /\ \A j, k \in DebateRounds : j < k => log[j].round < log[k].round
RoundsFit ==
  /\ refs = [i \in 1 .. round |-> i]
  /\ RoundsInLog
  /\ pc = "exhausted" => round = DEBATE_MAX_ROUNDS
  /\ pc \notin {"done", "exhausted"} => feedback = round
  /\ pc = "done" => feedback = 0

(* The guard was passed below the limit; the first call of a round is      *)
(* charged before its binary fallback.                                     *)
BudgetFits ==
  card.token_cost_limit > 0 =>
    /\ pc \in {"call", "called"} /\ ~fallback => spent < card.token_cost_limit
    /\ pc = "fallback" => spent < card.token_cost_limit + MaxCost
    /\ pc \in {"call", "called"} => spent < card.token_cost_limit + MaxCost

DebateInv == TypeOK /\ ResultFits /\ ReviewFits /\ RoundsFit /\ BudgetFits

(* Results keep fitting: they change where a call returns or the guard     *)
(* stops the round.                                                        *)
LEMMA ResultStep == TypeOK /\ ResultFits /\ [Next]_vars => ResultFits'
<1> SUFFICES ASSUME TypeOK, ResultFits, [Next]_vars
             PROVE  ResultFits'
  OBVIOUS
<1> USE DEF ResultFits
<1>1. CASE CallStep
  BY <1>1, CallsReturnResults DEF CallReturns
<1>2. CASE budget_guard
  BY <1>2 DEF budget_guard
<1>3. CASE run_attempt \/ apply_executor_route_fallback \/ run_binary_fallback
  BY <1>3 DEF run_attempt, apply_executor_route_fallback, run_binary_fallback
<1>4. CASE run_execution \/ SkipFallback \/ review_executor_output \/ run_consensus_review
  BY <1>4 DEF run_execution, SkipFallback, review_executor_output, run_consensus_review
<1>5. ASSUME NEW v \in Voters, execute_reviewer(v)
      PROVE  ResultFits'
  BY <1>5 DEF execute_reviewer
<1>6. CASE gather_reviews \/ Return \/ record_exhausted \/ apply_feedback
  BY <1>6 DEF gather_reviews, Return, record_exhausted, apply_feedback, RejectedResult
<1>7. CASE UNCHANGED vars
  BY <1>7 DEF vars
<1> QED BY <1>1, <1>2, <1>3, <1>4, <1>5, <1>6, <1>7 DEF Next, CallStep

(* Reviews keep fitting: from the vote to the return nothing but the votes *)
(* and the verdict changes.                                                *)
LEMMA ReviewStep == TypeOK /\ ReviewFits /\ [Next]_vars => ReviewFits'
<1> SUFFICES ASSUME TypeOK, ReviewFits, [Next]_vars
             PROVE  ReviewFits'
  OBVIOUS
<1>0. card' = card => Voters' = Voters
  BY DEF Voters
<1>v. card' = card /\ votes' = votes => consensus_reached' = consensus_reached
  BY DEF consensus_reached, PassedCount, VetoRoute, Voters
<1> USE DEF ReviewFits, BaselinePassed
<1>1. CASE CallStep
  BY <1>1, CallsReturnResults DEF CallReturns
<1>2. CASE budget_guard
  BY <1>2 DEF budget_guard
<1>3. CASE run_attempt \/ apply_executor_route_fallback \/ run_binary_fallback
  BY <1>3 DEF run_attempt, apply_executor_route_fallback, run_binary_fallback
<1>4. CASE run_execution \/ SkipFallback
  BY <1>4 DEF run_execution, SkipFallback
<1>5. CASE review_executor_output
  BY <1>0, <1>5 DEF review_executor_output
<1>6. CASE run_consensus_review
  BY <1>0, <1>6 DEF run_consensus_review
<1>7. ASSUME NEW v \in Voters, execute_reviewer(v)
      PROVE  ReviewFits'
  BY <1>0, <1>7 DEF execute_reviewer
<1>8. CASE gather_reviews
  BY <1>0, <1>v, <1>8 DEF gather_reviews
<1>9. CASE Return
  BY <1>0, <1>v, <1>9 DEF Return
<1>10. CASE record_exhausted \/ apply_feedback
  BY <1>10 DEF record_exhausted, apply_feedback, RejectedResult
<1>11. CASE UNCHANGED vars
  BY <1>0, <1>v, <1>11 DEF vars
<1> QED BY <1>1, <1>2, <1>3, <1>4, <1>5, <1>6, <1>7, <1>8, <1>9, <1>10, <1>11
        DEF Next, CallStep

(* An event of another type does not add a debate round to the log. *)
LEMMA OtherEvent ==
  ASSUME TypeOK, RoundsInLog, NEW e \in LoopEvents, e.type # "debate_round",
         log' = Append(log, e), round' = round
  PROVE  RoundsInLog'
<1>1. DebateRounds' = DebateRounds
  BY DEF DebateRounds, TypeOK
<1>2. \A k \in DebateRounds : log'[k] = log[k]
  BY DEF DebateRounds, TypeOK
<1> QED BY <1>1, <1>2 DEF RoundsInLog

(* A debate round adds itself, at the end. *)
LEMMA RoundEvent ==
  ASSUME TypeOK, RoundsInLog, round < DEBATE_MAX_ROUNDS,
         log' = Append(log, [type |-> "debate_round", round |-> round + 1]),
         round' = round + 1
  PROVE  RoundsInLog'
<1> DEFINE last == Len(log) + 1
<1>0. round \in Nat /\ log \in Seq(LoopEvents) /\ Len(log) \in Nat
  BY DEF TypeOK, DEBATE_MAX_ROUNDS
<1>1. DebateRounds' = DebateRounds \cup {last}
  BY <1>0 DEF DebateRounds
<1>2. \A k \in DebateRounds : k \in 1 .. Len(log) /\ log'[k] = log[k]
  BY <1>0 DEF DebateRounds
<1>3. log'[last].round = round + 1
  BY <1>0
<1>4. {log'[k].round : k \in DebateRounds'}
        = {log[k].round : k \in DebateRounds} \cup {round + 1}
  BY <1>1, <1>2, <1>3
<1>5. 1 .. round + 1 = (1 .. round) \cup {round + 1}
  BY <1>0
<1>6. \A j \in DebateRounds : log[j].round \in 1 .. round
  BY DEF RoundsInLog
<1>7. \A j, k \in DebateRounds' : j < k => log'[j].round < log'[k].round
  BY <1>0, <1>1, <1>2, <1>3, <1>6 DEF RoundsInLog
<1> QED BY <1>4, <1>5, <1>7 DEF RoundsInLog

(* Rounds keep fitting: apply_feedback records one more in all places. *)
LEMMA RoundsStep == TypeOK /\ RoundsFit /\ [Next]_vars => RoundsFit'
<1> SUFFICES ASSUME TypeOK, RoundsFit, [Next]_vars
             PROVE  RoundsFit'
  OBVIOUS
<1>0. log' = log /\ round' = round => RoundsInLog'
  BY DEF RoundsFit, RoundsInLog, DebateRounds
<1> USE DEF RoundsFit
<1>1. CASE CallStep
  BY <1>0, <1>1, CallsReturnResults DEF CallReturns
<1>2. CASE budget_guard
  <2>1. [type |-> "budget_exhausted", round |-> round] \in LoopEvents
    BY DEF TypeOK, LoopEvents, DEBATE_MAX_ROUNDS
  <2>2. RoundsInLog'
    BY <1>2, <2>1, OtherEvent DEF budget_guard
  <2> QED BY <1>2, <2>2 DEF budget_guard
<1>3. CASE run_attempt \/ apply_executor_route_fallback \/ run_binary_fallback
  BY <1>0, <1>3 DEF run_attempt, apply_executor_route_fallback, run_binary_fallback
<1>4. CASE run_execution
  <2>1. [type |-> "execution_fallback", round |-> round] \in LoopEvents
    BY DEF TypeOK, LoopEvents, DEBATE_MAX_ROUNDS
  <2>2. RoundsInLog'
    BY <1>0, <1>4, <2>1, OtherEvent DEF run_execution
  <2> QED BY <1>4, <2>2 DEF run_execution
<1>5. CASE SkipFallback \/ review_executor_output \/ run_consensus_review
  BY <1>0, <1>5 DEF SkipFallback, review_executor_output, run_consensus_review
<1>6. ASSUME NEW v \in Voters, execute_reviewer(v)
      PROVE  RoundsFit'
  BY <1>0, <1>6 DEF execute_reviewer
<1>7. CASE gather_reviews \/ Return
  BY <1>0, <1>7 DEF gather_reviews, Return
<1>8. CASE record_exhausted
  <2>1. [type |-> "debate_circuit_breaker", round |-> round] \in LoopEvents
    BY DEF TypeOK, LoopEvents, DEBATE_MAX_ROUNDS
  <2>2. RoundsInLog'
    BY <1>8, <2>1, OtherEvent DEF record_exhausted
  <2>3. round = DEBATE_MAX_ROUNDS
    BY <1>8 DEF record_exhausted, TypeOK, DEBATE_MAX_ROUNDS
  <2> QED BY <1>8, <2>2, <2>3 DEF record_exhausted
<1>9. CASE apply_feedback
  <2>1. RoundsInLog'
    BY <1>9, RoundEvent DEF apply_feedback
  <2>2. refs' = [i \in 1 .. round + 1 |-> i]
    BY <1>9 DEF apply_feedback, TypeOK, DEBATE_MAX_ROUNDS
  <2> QED BY <1>9, <2>1, <2>2 DEF apply_feedback
<1>10. CASE UNCHANGED vars
  BY <1>0, <1>10 DEF vars
<1> QED BY <1>1, <1>2, <1>3, <1>4, <1>5, <1>6, <1>7, <1>8, <1>9, <1>10 DEF Next, CallStep

(* The budget keeps fitting: a call is charged after the guard. *)
LEMMA BudgetStep == TypeOK /\ BudgetFits /\ [Next]_vars => BudgetFits'
<1> SUFFICES ASSUME TypeOK, BudgetFits, [Next]_vars
             PROVE  BudgetFits'
  OBVIOUS
<1>0. MaxCost \in Nat /\ card.token_cost_limit \in Nat /\ spent \in Nat
  BY CardAssumption DEF TypeOK
<1> USE DEF BudgetFits
<1>1. CASE CallStep
  BY <1>1, CallsReturnResults DEF CallReturns
<1>2. CASE run_attempt
  BY <1>0, <1>2 DEF run_attempt, evaluate_token_cost_budget
<1>3. CASE run_execution
  BY <1>0, <1>3 DEF run_execution
<1>4. CASE run_binary_fallback
  BY <1>0, <1>4 DEF run_binary_fallback
<1>5. CASE budget_guard \/ apply_executor_route_fallback \/ SkipFallback
  BY <1>5 DEF budget_guard, apply_executor_route_fallback, SkipFallback
<1>6. CASE review_executor_output \/ run_consensus_review
  BY <1>6 DEF review_executor_output, run_consensus_review
<1>7. ASSUME NEW v \in Voters, execute_reviewer(v)
      PROVE  BudgetFits'
  BY <1>7 DEF execute_reviewer
<1>8. CASE gather_reviews \/ Return \/ record_exhausted \/ apply_feedback
  BY <1>8 DEF gather_reviews, Return, record_exhausted, apply_feedback
<1>9. CASE UNCHANGED vars
  BY <1>9 DEF vars
<1> QED BY <1>1, <1>2, <1>3, <1>4, <1>5, <1>6, <1>7, <1>8, <1>9 DEF Next, CallStep

(* The invariant holds at the start. *)
LEMMA InitInv == Init => ResultFits /\ ReviewFits /\ RoundsFit /\ BudgetFits
<1> SUFFICES ASSUME Init
             PROVE  ResultFits /\ ReviewFits /\ RoundsFit /\ BudgetFits
  OBVIOUS
<1>1. DebateRounds = {}
  BY DEF Init, DebateRounds
<1>2. RoundsInLog
  BY <1>1 DEF Init, RoundsInLog
<1>3. refs = [i \in 1 .. round |-> i]
  BY DEF Init
<1> QED BY <1>2, <1>3 DEF Init, NoResult, ResultFits, ReviewFits, RoundsFit, BudgetFits

(* Types, results, reviews, rounds and budget fit in every state of the    *)
(* loop: one inductive invariant from which the promises below follow.     *)
THEOREM DebateCorrect == Spec => []DebateInv
<1>1. Init => ResultFits /\ ReviewFits /\ RoundsFit /\ BudgetFits
  BY InitInv
<1>2. TypeOK /\ (ResultFits /\ ReviewFits /\ RoundsFit /\ BudgetFits) /\ [Next]_vars
        => (ResultFits /\ ReviewFits /\ RoundsFit /\ BudgetFits)'
  BY ResultStep, ReviewStep, RoundsStep, BudgetStep
<1>3. TypeOK /\ (ResultFits /\ ReviewFits /\ RoundsFit /\ BudgetFits) => DebateInv
  BY DEF DebateInv
<1> QED BY <1>1, <1>2, <1>3, TypeCorrect, PTL DEF Spec

(* The voters are finitely many. *)
LEMMA VotersFinite ==
  ASSUME TypeOK
  PROVE  IsFiniteSet(Voters)
<1> DEFINE names == card.reviewer_routes
<1>1. names \in Seq(Routes \cup {NoRoute})
  BY CardAssumption DEF TypeOK
<1>2. Voters \subseteq Routes
  BY <1>1 DEF Voters
<1> QED BY <1>2, CardAssumption, FS_Subset

(* A completed result that the loop returns is valid and was passed by     *)
(* more than half of the distinct reviewers, or by the veto reviewer, in   *)
(* the round it comes from (run_consensus_review_async).                   *)
THEOREM AcceptedIsApproved == Spec => []AcceptedMeansApproved
<1>1. DebateInv => AcceptedMeansApproved
  <2> SUFFICES ASSUME DebateInv, pc = "done", result.status = "completed"
               PROVE  /\ result.valid
                      /\ Voters # {} =>
                           IF card.consensus_policy = "veto" THEN votes[VetoRoute] = "passed"
                           ELSE 2 * PassedCount > Cardinality(Voters)
    BY DEF AcceptedMeansApproved
  <2>1. BaselinePassed /\ (Voters # {} => consensus_reached)
    BY DEF DebateInv, ReviewFits, TypeOK
  <2>2. Cardinality(Voters) \in Nat
    BY VotersFinite, FS_CardinalityType DEF DebateInv
  <2>3. PassedCount \in Nat
    <3>1. {v \in Voters : votes[v] = "passed"} \subseteq Voters
      OBVIOUS
    <3>2. IsFiniteSet({v \in Voters : votes[v] = "passed"})
      BY <3>1, VotersFinite, FS_Subset DEF DebateInv
    <3> QED BY <3>2, FS_CardinalityType DEF PassedCount
  <2>4. \A p, n \in Nat : p >= (n \div 2) + 1 => 2 * p > n
    OBVIOUS
  <2> QED BY <2>1, <2>2, <2>3, <2>4 DEF BaselinePassed, consensus_reached
<1> QED BY <1>1, DebateCorrect, PTL

(* The circuit breaker opens only after all rounds, and each left its      *)
(* feedback and its event, in order (debate_loop_core_async).              *)
THEOREM ExhaustionIsComplete == Spec => []ExhaustedAfterAllRounds
<1>1. DebateInv => ExhaustedAfterAllRounds
  BY DEF DebateInv, RoundsFit, RoundsInLog, ExhaustedAfterAllRounds
<1> QED BY <1>1, DebateCorrect, PTL

(* A call works on the feedback of the round before it, and a returned     *)
(* result leaves none behind (apply_feedback,                              *)
(* _clear_review_feedback_state).                                          *)
THEOREM FeedbackStaysCurrent == Spec => []FeedbackIsCurrent
<1>1. DebateInv => FeedbackIsCurrent
  BY DEF DebateInv, RoundsFit, FeedbackIsCurrent
<1> QED BY <1>1, DebateCorrect, PTL

(* The budget is overrun by less than the cost of one call when the binary *)
(* fallback is called, for any limit and any cost of a call                *)
(* (_budget_guard_result, _run_binary_fallback_async).                     *)
THEOREM OverrunIsBounded == Spec => []OverrunBounded
<1>1. DebateInv => OverrunBounded
  BY DEF DebateInv, BudgetFits, OverrunBounded
<1> QED BY <1>1, DebateCorrect, PTL

(* What the loop hands over is one of the outcomes TaskRun assumes of an   *)
(* execution (_run_single_task_with_debate_async).                         *)
OutcomeIsExpected == pc \in {"done", "exhausted"} => Outcome \in Outcomes

(* The loop returns nothing but the outcomes that TaskRun assumes: the     *)
(* safety half of Returns.                                                 *)
THEOREM ReturnsExpectedOutcomes == Spec => []OutcomeIsExpected
<1>1. DebateInv => OutcomeIsExpected
  BY DEF DebateInv, ResultFits, TypeOK, CallResult, Kinds, OutcomeIsExpected, Outcome, Outcomes
<1> QED BY <1>1, DebateCorrect, PTL
=============================================================================
