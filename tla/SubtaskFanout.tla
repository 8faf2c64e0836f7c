---------------------------- MODULE SubtaskFanout ----------------------------
(***************************************************************************)
(* The execution of a plan of several cards:                               *)
(* _run_subtask_orchestration_async.  The cards are sorted into levels by  *)
(* their dependencies; a level is gathered, at most "workers" cards at a   *)
(* time; when all levels are done, the cards whose result the review       *)
(* rejected go through debate rounds, one card after the other.            *)
(*                                                                         *)
(* All cards share one event loop, and _execute_task_card_async calls the  *)
(* synchronous execute of the executor: while a card executes no other     *)
(* card moves and no timer fires.  Only reviewers are awaited, so only a   *)
(* card under review can run into the timeout of asyncio.wait_for.         *)
(***************************************************************************)
EXTENDS Naturals, Sequences, FiniteSets, FiniteSetsExt, ExecutorOutcome

CONSTANTS CardCount,        \* number of cards
          UnknownCard,      \* an id no card has
          Graphs,           \* the depends_on lists a plan may have
          workers,          \* AIWF_MAX_SUBTASK_WORKERS, normalised
          HasReviewers,     \* the cards name reviewer routes
          token_cost_limit, \* of every card; 0: no limit
          MaxPrior,         \* bound: cost of the task's earlier attempts
          MaxCost           \* bound: cost of one executor call

Cards == 1 .. CardCount
MAX_SUBTASK_WORKERS == 4
DEBATE_MAX_ROUNDS == 3

(* A depends_on list is the number of times it names each id. *)
ASSUME PlanAssumption ==
  /\ CardCount \in Nat \ {0} /\ UnknownCard \notin Cards
  /\ Graphs \subseteq [Cards -> [Cards \cup {UnknownCard} -> Nat]]
  /\ workers \in 1 .. MAX_SUBTASK_WORKERS
  /\ HasReviewers \in BOOLEAN
  /\ token_cost_limit \in Nat
  /\ MaxPrior \in Nat /\ MaxCost \in Nat

VARIABLES depends_on, \* the plan
          pc,         \* the stage of the fan-out
          indegree,   \* of build_subtask_levels
          ready,      \* of build_subtask_levels
          levels,     \* sets of cards
          level,      \* the level being gathered
          phase,      \* where each card is within its level
          record,     \* records_by_id
          queue,      \* failed_records still to be retried, in the order of the cards
          round,      \* retry_round of the first card of the queue
          retries,    \* its retry_attempts: was the attempt approved?
          exhausted,  \* debate_exhausted_card_ids
          counted,    \* calculate_task_token_cost of the task's event log
          incurred,   \* what the executor calls of the task have cost
          log         \* subtask.<n>.execution events

levelVars == <<indegree, ready, levels>>
cardVars  == <<level, phase, record>>
retryVars == <<queue, round, retries, exhausted>>
costVars  == <<counted, incurred>>
vars == <<depends_on, pc, levelVars, cardVars, retryVars, costVars, log>>

Record == [executor : {"none", "completed", "failed"},
           review   : {"none", "passed", "failed"},
           kind     : {"none", "call_failed", "subtask_timeout", "budget_exhausted"}]

NoRecord == [executor |-> "none", review |-> "none", kind |-> "none"]
FailedRecord(kind) == [executor |-> "failed", review |-> "failed", kind |-> kind]
ReviewedRecord(verdict) == [executor |-> "completed", review |-> verdict, kind |-> "none"]

Completed(r) == r.executor = "completed" /\ r.review = "passed"
Rejected(r)  == r.executor = "completed" /\ r.review = "failed"

Attempts == [card : Cards, attempt : Nat, completed : BOOLEAN]

TypeOK ==
  /\ depends_on \in [Cards -> [Cards \cup {UnknownCard} -> Nat]]
  /\ pc \in {"validate", "levels", "run", "retry", "done", "raised"}
  /\ indegree \in [Cards -> Nat]
  /\ ready \subseteq Cards
  /\ levels \in Seq(SUBSET Cards)
  /\ level \in Nat
  /\ phase \in [Cards -> {"waiting", "executing", "reviewing", "recorded"}]
  /\ record \in [Cards -> Record]
  /\ queue \subseteq Cards
  /\ round \in 0 .. DEBATE_MAX_ROUNDS
  /\ retries \in Seq(BOOLEAN)
  /\ exhausted \subseteq Cards
  /\ counted \in Nat /\ incurred \in Nat
  /\ log \in Seq(Attempts)

-----------------------------------------------------------------------------
(* build_subtask_levels *)

Invalid == \E c \in Cards : depends_on[c][c] > 0 \/ depends_on[c][UnknownCard] > 0

(* The entries of a depends_on list that name an id of S. *)
Entries(list, S) == UNION {{d} \X (1 .. list[d]) : d \in S}
Listed(list, S) == Cardinality(Entries(list, S))

validate_cards ==
  /\ pc = "validate"
  /\ pc' = IF Invalid THEN "raised" ELSE "levels"
  /\ indegree' = [c \in Cards |-> Listed(depends_on[c], Cards \cup {UnknownCard})]
  /\ ready' = {c \in Cards : indegree'[c] = 0}
  /\ UNCHANGED <<depends_on, levels, cardVars, retryVars, costVars, log>>

(* Fault: a repeated dependency is counted once when its card is done. *)
next_level_distinct ==
  /\ pc = "levels"
  /\ ready # {}
  /\ levels' = Append(levels, ready)
  /\ indegree' = [c \in Cards |->
       indegree[c] - Cardinality({d \in ready : depends_on[c][d] > 0})]
  /\ ready' = {c \in Cards : indegree[c] > 0 /\ indegree'[c] = 0}
  /\ UNCHANGED <<depends_on, pc, cardVars, retryVars, costVars, log>>

(* Fault: one finished dependency makes a card ready. *)
next_level_eager ==
  /\ pc = "levels"
  /\ ready # {}
  /\ levels' = Append(levels, ready)
  /\ indegree' = [c \in Cards |->
       IF \E d \in ready : depends_on[c][d] > 0 THEN 0 ELSE indegree[c]]
  /\ ready' = {c \in Cards : indegree[c] > 0 /\ indegree'[c] = 0}
  /\ UNCHANGED <<depends_on, pc, cardVars, retryVars, costVars, log>>

next_level ==
  /\ pc = "levels"
  /\ ready # {}
  /\ levels' = Append(levels, ready)
  /\ indegree' = [c \in Cards |-> indegree[c] - Listed(depends_on[c], ready)]
  /\ ready' = {c \in Cards : indegree[c] > 0 /\ indegree'[c] = 0}
  /\ UNCHANGED <<depends_on, pc, cardVars, retryVars, costVars, log>>

Processed == UNION {levels[i] : i \in DOMAIN levels}

(* The cards that were never ready form a cycle: the plan is refused. *)
levels_built ==
  /\ pc = "levels"
  /\ ready = {}
  /\ pc' = IF Processed = Cards THEN "run" ELSE "raised"
  /\ level' = 1
  /\ UNCHANGED <<depends_on, levelVars, phase, record, retryVars, costVars, log>>

-----------------------------------------------------------------------------
(* AsyncSubtaskOrchestrator *)

LoopIsFree == \A c \in Cards : phase[c] # "executing"
InFlight == {c \in Cards : phase[c] \in {"executing", "reviewing"}}

semaphore == Min({workers, Cardinality(levels[level])})

evaluate_token_cost_budget == token_cost_limit > 0 /\ counted >= token_cost_limit

Put(c, rec) == /\ phase' = [phase EXCEPT ![c] = "recorded"]
               /\ record' = [record EXCEPT ![c] = rec]

(* A card enters the semaphore, in the order of the level, and its budget  *)
(* is checked before the executor is called.                               *)
execute_subtask(c) ==
  /\ pc = "run" /\ LoopIsFree
  /\ c \in levels[level] /\ phase[c] = "waiting"
  /\ \A d \in levels[level] : phase[d] = "waiting" => c <= d
  /\ Cardinality(InFlight) < semaphore
  /\ IF evaluate_token_cost_budget
     THEN Put(c, FailedRecord("budget_exhausted"))
     ELSE phase' = [phase EXCEPT ![c] = "executing"] /\ UNCHANGED record
  /\ UNCHANGED <<depends_on, pc, levelVars, level, retryVars, costVars, log>>

(* The executor returns.  Its own event, with the cost of the call, goes   *)
(* to the log of a temporary directory.  A result that fails the baseline  *)
(* checks, or has no reviewers, is reviewed on the spot.                   *)
run_execution(c) ==
  /\ phase[c] = "executing"
  /\ \E cost \in 0 .. MaxCost : incurred' = incurred + cost
  /\ \/ Put(c, FailedRecord("call_failed"))
     \/ Put(c, ReviewedRecord("failed"))
     \/ IF HasReviewers
        THEN phase' = [phase EXCEPT ![c] = "reviewing"] /\ UNCHANGED record
        ELSE Put(c, ReviewedRecord("passed"))
  /\ UNCHANGED <<depends_on, pc, levelVars, level, retryVars, counted, log>>

run_review_gate(c) ==
  /\ phase[c] = "reviewing" /\ LoopIsFree
  /\ \E verdict \in {"passed", "failed"} : Put(c, ReviewedRecord(verdict))
  /\ UNCHANGED <<depends_on, pc, levelVars, level, retryVars, costVars, log>>

subtask_timeout(c) ==
  /\ phase[c] = "reviewing" /\ LoopIsFree
  /\ Put(c, FailedRecord("subtask_timeout"))
  /\ UNCHANGED <<depends_on, pc, levelVars, level, retryVars, costVars, log>>

LevelDone == pc = "run" /\ \A c \in levels[level] : phase[c] = "recorded"

(* Fault: a level with a failed card is the last. *)
finish_level_failing ==
  /\ LevelDone /\ level < Len(levels)
  /\ \A c \in levels[level] : Completed(record[c])
  /\ level' = level + 1
  /\ UNCHANGED <<depends_on, pc, levelVars, phase, record, retryVars, costVars, log>>

(* A failed card does not keep the cards that depend on it from running. *)
finish_level ==
  /\ LevelDone /\ level < Len(levels)
  /\ level' = level + 1
  /\ UNCHANGED <<depends_on, pc, levelVars, phase, record, retryVars, costVars, log>>

(* All levels are done: the first attempts are logged. *)
collect_records ==
  /\ LevelDone /\ level = Len(levels)
  /\ log' = [i \in 1 .. CardCount |->
       [card |-> i, attempt |-> 1, completed |-> Completed(record[i])]]
  /\ queue' = {c \in Cards : ~Completed(record[c])}
  /\ pc' = "retry"
  /\ UNCHANGED <<depends_on, levelVars, cardVars, round, retries, exhausted, costVars>>

-----------------------------------------------------------------------------
(* _run_subtask_debate_retries_async, for each failed record in turn *)

(* The card whose turn it is. *)
current == Min(queue)

(* Fault: a card is retried when its executor failed, too. *)
retry_any_failure(c) == ~Completed(record[c]) /\ round < DEBATE_MAX_ROUNDS

retry_scheduled(c) == Rejected(record[c]) /\ round < DEBATE_MAX_ROUNDS

run_subtask_attempt ==
  /\ pc = "retry" /\ queue # {}
  /\ retry_scheduled(current)
  /\ \E rec \in IF evaluate_token_cost_budget
                THEN {FailedRecord("budget_exhausted")}
                ELSE {FailedRecord("call_failed"), ReviewedRecord("failed"),
                      ReviewedRecord("passed")} :
       /\ record' = [record EXCEPT ![current] = rec]
       /\ retries' = Append(retries, Completed(rec))
  /\ \E cost \in IF evaluate_token_cost_budget THEN {0} ELSE 0 .. MaxCost :
       incurred' = incurred + cost
  /\ round' = round + 1
  /\ UNCHANGED <<depends_on, pc, levelVars, level, phase, queue, exhausted,
                 counted, log>>

(* Fault: only the last of the retries is logged. *)
RetryEventsLast ==
  IF retries = <<>> THEN <<>>
  ELSE <<[card |-> current, attempt |-> Len(retries) + 1,
          completed |-> retries[Len(retries)]]>>

RetryEvents == [i \in 1 .. Len(retries) |->
  [card |-> current, attempt |-> i + 1, completed |-> retries[i]]]

(* Fault: the feedback of the last card is still there for the next one. *)
finish_retries_keep_round ==
  /\ pc = "retry" /\ queue # {}
  /\ ~retry_scheduled(current)
  /\ exhausted' = IF Rejected(record[current]) THEN exhausted \cup {current}
                  ELSE exhausted
  /\ log' = log \o RetryEvents
  /\ queue' = queue \ {current}
  /\ retries' = <<>>
  /\ UNCHANGED <<depends_on, pc, levelVars, cardVars, round, costVars>>

finish_retries ==
  /\ pc = "retry" /\ queue # {}
  /\ ~retry_scheduled(current)
  /\ exhausted' = IF Rejected(record[current]) THEN exhausted \cup {current}
                  ELSE exhausted
  /\ log' = log \o RetryEvents
  /\ queue' = queue \ {current}
  /\ round' = 0
  /\ retries' = <<>>
  /\ UNCHANGED <<depends_on, pc, levelVars, cardVars, costVars>>

(* The parent's executor event carries no token estimate: it adds nothing  *)
(* to the cost of the task.                                                *)
append_parent_executor_event ==
  /\ pc = "retry" /\ queue = {}
  /\ pc' = "done"
  /\ UNCHANGED <<depends_on, levelVars, cardVars, retryVars, costVars, log>>

-----------------------------------------------------------------------------
Init == /\ depends_on \in Graphs
        /\ pc = "validate"
        /\ indegree = [c \in Cards |-> 0]
        /\ ready = {} /\ levels = <<>> /\ level = 0
        /\ phase = [c \in Cards |-> "waiting"]
        /\ record = [c \in Cards |-> NoRecord]
        /\ queue = {} /\ round = 0 /\ retries = <<>> /\ exhausted = {}
        /\ counted \in 0 .. MaxPrior
        /\ incurred = counted
        /\ log = <<>>

CardStep(c) == \/ execute_subtask(c)
               \/ run_execution(c)
               \/ run_review_gate(c)
               \/ subtask_timeout(c)

Next == \/ validate_cards
        \/ next_level
        \/ levels_built
        \/ \E c \in Cards : CardStep(c)
        \/ finish_level
        \/ collect_records
        \/ run_subtask_attempt
        \/ finish_retries
        \/ append_parent_executor_event

Spec == Init /\ [][Next]_vars

(* Executors and reviewers have timeouts of their own, so every step ends. *)
FairSpec == Spec /\ WF_vars(Next)

-----------------------------------------------------------------------------
(* Properties *)

(* _build_subtask_executor_result, as the policies of the task see it. *)
BudgetExhausted == {c \in Cards : record[c].kind = "budget_exhausted"}
Outcome ==
  [status |-> IF \A c \in Cards : Completed(record[c]) THEN "completed" ELSE "failed",
   kind   |-> IF BudgetExhausted # {} THEN "budget_exhausted"
              ELSE IF exhausted # {} THEN "debate"
              ELSE IF \A c \in Cards : Completed(record[c]) THEN "none"
              ELSE "blocking",
   exhausted |-> exhausted # {} \/ BudgetExhausted # {}]

(* A plan is refused exactly when some cards wait for each other, for      *)
(* themselves or for a card that does not exist, however often a           *)
(* dependency is repeated in a list (build_subtask_levels).                *)
Stuck(S) == /\ S # {}
            /\ \A c \in S : \/ depends_on[c][UnknownCard] > 0
                            \/ \E d \in S : depends_on[c][d] > 0
RefusesExactlyBadPlans ==
  /\ pc = "raised" => \E S \in SUBSET Cards : Stuck(S)
  /\ pc = "run" => ~\E S \in SUBSET Cards : Stuck(S)

(* A card starts only after every card it depends on has its record, and   *)
(* is never left out (run, _run_level).                                    *)
DependenciesFirst ==
  \A c, d \in Cards :
    /\ depends_on[c][d] > 0 /\ phase[c] # "waiting" => phase[d] = "recorded"
    /\ pc = "done" => phase[c] = "recorded"

(* The log holds the attempts of each card in order and without a gap, no  *)
(* more than the debate allows; none follows a completed one, and the last *)
(* one decides whether the card counts as completed                        *)
(* (_append_subtask_events).                                               *)
EventsOf(c) == {i \in DOMAIN log : log[i].card = c}
AttemptsOf(c) == {log[i].attempt : i \in EventsOf(c)}
LogTellsOutcome ==
  pc = "done" =>
    \A c \in Cards :
      \E last \in 1 .. DEBATE_MAX_ROUNDS + 1 :
        /\ AttemptsOf(c) = 1 .. last
        /\ \A i, j \in EventsOf(c) : i < j => log[i].attempt < log[j].attempt
        /\ \A i \in EventsOf(c) :
             log[i].completed <=> log[i].attempt = last /\ Completed(record[c])

(* A card is handed to a human only after its own four attempts were all   *)
(* rejected, whatever the cards before it in the queue went through.       *)
ExhaustedCardsUsedAllRounds ==
  pc = "done" =>
    \A c \in exhausted : /\ AttemptsOf(c) = 1 .. DEBATE_MAX_ROUNDS + 1
                         /\ Rejected(record[c])

(* A card whose executor call failed or timed out is not called again. *)
OnlyRejectedAreRetried ==
  [][\A c \in Cards :
       record[c].executor = "failed" => record'[c] = record[c]]_vars

(* The fan-out ends, whatever fails or times out: it refuses its plan or   *)
(* has one of the results TaskRun assumes of an execution.                 *)
Ends == <>(pc = "raised" \/ (pc = "done" /\ Outcome \in Outcomes))

(* The budget sees what the cards cost (calculate_task_token_cost). *)
CostsAreCounted == pc = "done" => counted = incurred

=============================================================================
