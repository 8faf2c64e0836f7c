# Swallow: a verification project

TLA+ specifications of `swallow` (`src/swallow`, Python), the TLC configurations
that check them on small instances and the TLAPS proofs of what matters most for
every instance. `PROJECT.json` maps every definition to the lines it models and
lists runs, mutants, findings, hazards and theorems; this file explains them.
Paths below are relative to `src/swallow/` unless they start with `docs/` or
`tests/`.

## 1. The system

`swallow` runs *tasks* for an operator. A task is a goal that is sent, with
retrieved context, to an executor (an agent CLI or an HTTP model), whose output is
reviewed and recorded. Around it there is a knowledge base with human approval
(staged candidates become canonical records) and a set of proposals through which
routes and policies may change. Everything is kept in files under `.swl/` and in
one SQLite database. A process is a CLI invocation or an HTTP request; several may
run at once, and there is no lock between them.

| Component | State it keeps | Operations that change it | What makes it correct |
|---|---|---|---|
| Task run and recovery (`orchestration/orchestrator.py`, `harness.py`, `artifact_writer.py`, `application/commands/tasks.py`) | `TaskState`, policy records on disk, event log | run, retry, resume, rerun, acknowledge; the steps of `run_task_async` | an attempt is one run, records and status agree after any crash, every attempt is closed |
| Debate loop, budget guard, review gate (`execution_attempts.py`, `review_gate.py`, `execution_budget_policy.py`, `executor.py`) | round, feedback reference, route and fallback chain, token cost in the log | guard, call, route fallback, binary fallback, reviewers, feedback, circuit breaker | accepted means approved, the breaker opens after all rounds, a bounded overrun, termination |
| Subtask fan-out (`subtask_orchestrator.py`, `subtask_flow.py`) | levels, records by card, retry queue | build levels, gather a level, retry rejected cards, merge | bad plans are refused, dependencies come first, one card's retries do not affect another |
| Staged knowledge and canonical registry (`knowledge_retrieval/_internal_staged_knowledge.py`, `_internal_canonical_registry.py`, `truth_governance/truth/knowledge.py`, `application/commands/knowledge.py`) | staged file, canonical registry, evidence and wiki entries, relations, index and reuse policy, pending proposals | submit, promote, reject, apply | one active record per key, supersession leads to an active record, only promoted knowledge is canonical |
| Task knowledge, review queue, librarian (`knowledge_review.py`, `_internal_knowledge_store.py`, `application/services/librarian_executor.py`, `orchestrator.py:411-477`) | the list in the task's state, the entries of the store, index and partition, decision log | create, capture, decide, refresh evidence, the librarian's change set | a record has its decision, derived files agree, the librarian supersedes nothing active |
| Task store (`truth_governance/store.py`, `sqlite_store.py`) | SQLite and file copies of state, knowledge and events | save, append, migrate | the files never know more than SQLite |
| Canonical reuse evaluation and audit (`knowledge_retrieval/canonical_reuse*.py`, `canonical_audit.py`) | evaluations, regression baseline | evaluate | the baseline is that of the evaluations; the audit finds nothing after a promotion |
| Governance (`truth_governance/`) | pending proposals, route metadata, policies, change logs | register and apply proposals | the logs replay to the rows |
| Routes (`provider_router/`) | rows of routes and policy, the copy in each process | select, bootstrap, apply registry, policy, weights, profiles | a supported route is found; memory holds what was committed |
| Meta optimizer (`application/services/meta_optimizer_*.py`) | proposal bundle, review record | propose, review, apply | exactly what was approved is applied; suggestions settle |
| Wiki jobs (`application/services/wiki_jobs.py`, `wiki_compiler.py`) | job records | queue, run, complete, fail | a job ends, a draft is staged once |
| Synthesis (`orchestration/synthesis.py`) | contributions, arbitration | run participants, arbiter, stage | an arbitration cites its own run |
| Consistency audit (`application/services/consistency_audit.py`) | audit reports, background threads | trigger, run, wait | an audit ends and is reported |
| Retrieval, ingestion, executors, specialists, CLI/HTTP adapters, queries | none of their own, or text | - | pure functions of text, scores and I/O |

Interactions. A command loads the task, `run_task_async` plans cards, asks the
dispatch policy, retrieves context, hands one card to the debate loop or several to
the fan-out, then writes the policy records that the *next* command reads. The
debate loop and the fan-out return an `ExecutorResult`; the budget they are held to
is computed from the event log the task run writes. A synthesis, a wiki job, an
ingestion or a librarian run appends staged candidates; the operator's promotion
registers a proposal, and applying it writes evidence, a wiki entry, the registry,
relations and the index that retrieval reads in the next task run.

Hard behaviours, each with its line in `PROJECT.json` under "hazards": commands of
two processes on one task; state in SQLite and mirrored to files without a common
transaction; metadata in the database and in the memory of each process; a crash between two of the many writes of a run or of a
promotion; records of an earlier attempt read as if current; the closing event and
the status chosen by different conditions; timeouts that race synchronous work on
an event loop; cyclic route fallbacks; budgets exactly spent; repeated dependencies
and reviewers; supersession by two rules in two writes; a file rewritten as it was
read while others append to it.

## 2. Modules

| Module | Models | Composed with |
|---|---|---|
| `ExecutorOutcome` | the results an execution may hand over | extended by the next three |
| `TaskTruth` | abstract: one status, one attempt counter, attempts closed once | implemented by `TaskRun` |
| `TaskRun` | commands and `run_task_async` between two writes | assumes `Outcomes` |
| `DebateLoop` | one card: budget, calls, reviewers, rounds | guarantees `Outcomes` |
| `SubtaskFanout` | several cards: levels, semaphore, retries | guarantees `Outcomes` |
| `StagedKnowledge` | candidates, proposals, registry, evidence, relations | - |
| `KnowledgeObjects` | functions on knowledge objects: building, readiness, decisions, queue, index, the librarian's batch | extended by `TaskKnowledge` |
| `TaskKnowledge` | the knowledge of one task in its two stores, the commands and the librarian that write it | adds the registry's other writers to `StagedKnowledge` |
| `RouteSelection` | functions: registry, routing policy, `select_route` | extended by `MetaOptimizer` |
| `MetaOptimizer` | functions: telemetry statistics, suggestions, review | extended by `RouteGovernance` |
| `RouteGovernance` | rows, change logs, transactions, the memory of each process, every command on them | - |
| `KnowledgeJobs` | wiki jobs, synthesis, background audits | candidates are those of `StagedKnowledge` |
| `MC...` | constants of the runs | |
| `TaskRunProofs`, `DebateLoopProofs`, `SubtaskFanoutProofs`, `StagedKnowledgeProofs`, `TaskKnowledgeProofs`, `RouteGovernanceProofs`, `KnowledgeJobsProofs` | theorems about the module of that name | |
| `DataInduction` | lemmas: a claim about numbers or finite sets that fails somewhere fails at a least place | extended by proofs |

An operator whose comment starts with *Fault* is a defective variant of the
definition that follows it. No specification uses it: it shows that the property
named in the "mutants" of `PROJECT.json` notices the defect.

### TaskRun and TaskTruth

`store` is the persisted `TaskState` (the fields that control depends on), `files`
the artifacts and policy records with the attempt that wrote them, `log` the events
that open and close attempts. For a process `r`, `mem[r]` is the `TaskState` it
holds, `ctx[r]` the other locals and `pc[r]` its position. One action stands for
everything between two points where a crash leaves something different on disk:

| Action | Code |
|---|---|
| `Run`, `retry_task_command`, `resume_task_command`, `rerun_task_command` | the gates of `application/commands/tasks.py` |
| `acknowledge_task` | `orchestrator.acknowledge_task` |
| `load_state` .. `EnterRetrieval` | load, grounding reset, `_begin_execution_attempt`, the first event, the dispatch verdict |
| `run_retrieval`, `resolve_grounding_state` | retrieval or its reuse, the grounding lock |
| `ReuseExecution`, `DispatchExecution`, `StopOnBudget`, `WriteExecutorOutput`, `Execute` | the execution phase; its result is any of `Outcomes` |
| `Summarize` .. `write_checkpoint_snapshot_artifacts` | `write_task_artifacts`, record by record, and the policies that compute them |
| `SaveFinalState`, `FinalEvent` | the terminal status, then the closing event |
| `Crash` | the process ends; memory is gone |

The dispatch verdict and the verdicts of the checks (compatibility, execution fit,
validation, knowledge policy) are free choices, except that execution fit fails a
run without a dispatch record, as the code does. The constant `SerialOperator`
says whether commands on the task are issued one at a time.

### DebateLoop

One execution of one card. `card` is the chosen card (reviewers, policy, limit),
`round`, `feedback` and `refs` the loop's memory, `route`, `chain` and `seen` the
fallback walk of a call, `votes` and `review` the review gate, `spent` the cost over
the task's executor events. `budget_guard`, `run_attempt`, `run_prompt_executor`,
`apply_executor_route_fallback`, `run_execution`, `run_binary_fallback`,
`SkipFallback`, `review_executor_output`, `run_consensus_review`,
`execute_reviewer`, `gather_reviews`, `Return`, `record_exhausted` and
`apply_feedback` follow the functions of the same names; reviewers answer in any
order, pass, fail, time out, raise or answer unreadably.

A call is the action of its executor: `run_http_executor_async`,
`run_cli_agent_executor_async`, `run_detached_executor`, `run_note_only_executor`
or `run_mock_remote_executor`. Each may fail only with the failure kinds its code
reports (`http_failures`, `cli_failures`), `RETRYABLE_FAILURE_KINDS` decides about
the binary fallback and `resolve_fallback_chain` is computed once per call, with
cycles cut, as the code does. A detached route that walks its chain inside the
child process is left out (`CardAssumption` keeps the two kinds of routes apart).

### SubtaskFanout

`build_subtask_levels` is modelled with its in-degree counters (`validate_cards`,
`next_level`, `levels_built`). `depends_on[c][d]` is how often card `c` names `d`: a
dependency that is named twice counts twice, as in the code. A level is gathered under the semaphore
(`execute_subtask`, `run_execution`, `run_review_gate`, `subtask_timeout`,
`finish_level`); the synchronous execution of a card occupies the event loop
(`LoopIsFree`), so a timer fires only during reviews. Rejected cards are retried
one after the other (`run_subtask_attempt`, `finish_retries`) and the parent gets
one result (`append_parent_executor_event`, `Outcome`).

### StagedKnowledge

`staged` is the staged file, `registry` the canonical registry by candidate,
`store` the evidence and wiki entries, `relations` the relation table, `derived`
the registry index and the reuse policy, `proposals` the in-memory proposals of the
process, `cmd` the locals of the command in flight, including the registry notices
that the operator confirmed and the staged file as it was read. Promotion is one
action per write, in the order of `promote_stage_candidate_command` and
`_promote_canonical`: rewrite the staged file, register and apply the proposal,
materialise evidence, write the wiki entry, append the record (superseding those
with its key), supersede the targets, relate the evidence, refresh the index and
the reuse policy, create `refines` relations. Submissions of background work may
happen between any two of them; an unresolved target or relation ends the command
with what was written so far.

### KnowledgeObjects and TaskKnowledge

`KnowledgeObjects` holds what the code computes from knowledge objects: how a
capture builds them (untidy texts, artifacts by position; no item is blank, see
section 5), which stage and evidence make them ready, what a decision does, how the review queue, the index and
the partition classify them, the record a promotion writes and its key, the merge
of a store view, and the librarian's batch with its deduplication.

`TaskKnowledge` places them where the program keeps them. `state` and `store` are
the SQLite rows, `files` their mirrors and the derived files, `decisions`,
`registry`, `evaluation` and `events` the logs. Every command (`create_task`,
`update_task_planning_handoff`, `append_task_knowledge_capture`,
`decide_task_knowledge`, `promote_stage_candidate_command`, `run_task`,
`refresh_wiki_evidence_command`, `evaluate_task_canonical_reuse` and the two
migrations) reads, computes and leaves a list of writes in `cmd[p].todo`, each item with
what it writes (`Write(step, of)`); each
write is an action of its own and takes the next item of that list. `Created` is
what a task may be created with, perhaps nothing, and `Requests` what later captures
may bring. Commands of two
processes interleave write by write; a write may fail with the `PermissionError` of
the canonical guard; `apply_atomic_text_updates` may fail after some files and
`RollBack` restores them; `Crash` forgets the rest of the list. In a debate round
the librarian's side effects are applied before the review (`run_review_gate`), and
the round repeats. Reads follow the code: SQLite first, then the files.

The knowledge files that one function writes together are one item of `files`. A
librarian card names the ids that are ready, or none. Matches of an evaluation with
retrieval items, which only add to a report, are left out. The partition and the
counts of events are kept because the code writes them between other writes and,
for events, because reads prefer a store that has some; no property is about them.

### RouteSelection, MetaOptimizer and RouteGovernance

`RouteSelection` is `select_route` with its ranking, mode, bias and capability
steps, and the lookup of a route by executor, lane and requirement.
`MetaOptimizer` computes the statistics of a telemetry window, every kind of
suggestion, and the outcome of a review. Weights and scores are hundredths, rates
are compared by cross-multiplication.

In `RouteGovernance`, `db` are the committed rows, `tx` the one write transaction
SQLite admits (`BEGIN IMMEDIATE`) with its view of the rows, `log` the change logs,
`mem[p]` the registry and policy in the memory of a process, `bundle` and `review`
the optimizer's files. A CLI process starts from the shipped metadata and loads the
database; the web server keeps its memory between requests. `NoticeEmpty` and
`Bootstrap` fill an empty database, `refresh` loads it table by table, then the
body of the command runs (`select_route_command`, `run_meta_optimizer`,
`review_optimization_proposals`, `apply_route_registry_command`,
`apply_route_policy_command`, `route_weights_command`, `route_capabilities_command`,
`set_audit_trigger_policy_command`, `set_mps_policy_command`; weights and profiles of
a review are loaded again by `LoadWeights` and `LoadProfiles`). `route weights apply`
writes the weights the process holds with those of the report in them, `route
capabilities update` the stored profiles with one of them changed. `Stored` are the
rows that bootstraps write, from legacy files or shipped: routes with their weights
and profiles, routing policy, audit policy and round limit. `Bootstrap` writes the
first two when they are missing; the last two are there from the start, since every
access to them writes them first. `Begin` or `Locked`, `Save` for each kind,
`Commit`, `Rollback` and `Crash` end an application. One thread per process: the
web server's threads share one cached SQLite connection, which is not modelled.

### KnowledgeJobs

`jobs` are the job files and `worker` the background tasks of the web server,
`staged` the candidates and `submitted` those ever appended, `decision` the
rewrite of the staged file in flight. `_persist_new_job`, the steps of
`run_wiki_job`, `run_synthesis` with its rounds, arbiter and events,
`stage_synthesis_command`, `_maybe_schedule_consistency_audit`, the steps of an
audit thread and `_wait_for_background_consistency_audits` follow the code write by
write; each model call answers, fails or answers unreadably. `Crash` ends the
server, a synthesis command or a run with its audit: their memory is gone, files
stay. Synthesis commands run one at
a time. Contributions keep which round and run they were shown, so that a file left
by an earlier run is told from one of this run.

## 3. Runs

| Run | Instance | Shows |
|---|---|---|
| `taskrun` | 1 runner, 3 attempts, 1 crash | attempts are distinct; a settled task's records are those of the attempt that settled it and its gates agree with the status; the persisted status implements `TaskTruth`; without a crash, completion is logged as it is saved, a locked grounding is kept, every attempt settles or blocks |
| `taskrun_race` (violation) | 2 overlapping runners | two commands log the same attempt; `docs/design/DATA_MODEL.md` calls the pair unique |
| `taskrun_reuse` (violation) | 1 runner | a rerun from analysis reads the status it has overwritten |
| `debate_loop` | 4 cards, 8 routes | acceptance, breaker, feedback, overrun; the loop returns one of `Outcomes` |
| `fanout` | every graph of 3 cards, 2 workers | exactly the cyclic and dangling plans are refused; order, rounds, log; only rejected cards are retried; it ends in one of `Outcomes` |
| `fanout_costs` (violation) | 2 cards | the cost of cards never reaches the budget of the task |
| `staged_promotion` | 6 candidates, 1 crash | unique active keys, supersession, decisions, evidence, index, notices |
| `staged_unknown_target` (violation) | 6 candidates | a promotion with an unknown target marks the candidate and stores nothing |
| `routes` | 3 routes, a CLI and a web process, 4 commands, failures and crashes | change logs replay to the rows; a process selects with committed metadata; a supported route is found; a review changes what was approved; suggestions settle |
| `task_knowledge` | a new or a legacy task, an operator and a runner, 3 commands, 1 crash | no record without its decision; undisturbed promotions are complete and pass the audit; derived files tell what they derive from; the librarian supersedes nothing active; files stay mirrors |
| `knowledge_erased` (violation) | one process | a capture erases the canonical entry of a staged promotion |
| `jobs` | 1 job, 3 configurations, 1 audit, 1 crash | candidates and jobs agree, an arbitration cites its own run, background work ends |

Every property of a passing run has a mutant that TLC finds. The `TypeOK` of
`DebateLoop`, `SubtaskFanout` and `RouteGovernance`, and `RoutesAreClosed`, are
theorems (`TypeCorrect`, `RoutesStayClosed`) and in no configuration.

### Bounds

- `AttemptBound = 3` is one more than `BASELINE_MAX_ATTEMPTS`, so the retry policy
  is seen open, closed and past its limit; `CrashBound = 1` puts one crash at any
  point of any attempt and leaves runs before and after it. `Refs` has two
  citations, the least that can differ.
- Debate loop: all three rounds and the fourth attempt are reached. Costs 0..2 with
  a limit of 4 and up to 5 spent before reach below, exactly at and above the limit.
  The eight routes hold every kind of executor, a chain, an end and a cycle of two.
- Fan-out: three cards give chains, joins, forks, cycles of one to three and levels
  wider than the two workers; lists name a card at most twice. The run uses a
  budget of one that is either free or spent before; `fanout_costs` uses costs.
- Staged knowledge: the six candidates are two of one source object and task, two
  of one object in different tasks, a draft and a refinement that supersedes by
  object and by id, refines and shares evidence. This is every way in which the
  code relates two records. The targets of the refinement are a record of the
  config, the config itself and a fragment: two that resolve to one record while
  another record of that object goes with it, and one that may be superseded by then.
- Routes: a fallback chain of three routes, two of them in one lane, one file
  that drops a route and lowers another and one with a dangling fallback; stored
  metadata that differ from the shipped ones in a weight, a profile and a policy; a
  report with a zero weight and a route that the file drops; a change that scores a
  family marked unsupported; one change of the audit policy and two requests for a
  round limit, one of which is refused; telemetry with a failing family, a half successful
  route, a retry and a detached run. Four commands are the least for optimize, review, apply
  and another change in between; a decision names one proposal (`SelectionBound`).
- Task knowledge: `CommandBound = 3`, where a command that starts while another is
  in flight counts twice, so either three commands in a row or one that overlaps
  another; `RoundBound = 2` repeats the librarian's side effects. The legacy task
  has three objects that share an artifact and a text; captures have a missing artifact and an object declared canonical.
- Jobs: `SynthesisBound = 4` allows two failed runs, a crashed one and a good one;
  the configurations share participants and differ in rounds, one is refused.

`CHECK_DEADLOCK FALSE` is used because the systems may stop: a settled task waits
for the operator or reaches the attempt bound, the loop and the fan-out return
once, all candidates may be decided, commands are optional and bounded. `routes`
checks deadlock: a selection is always possible.

### Fairness

`TaskRun!FairSpec` assumes weak fairness of the steps of a started command:
`run_task_async` never waits without a timeout (executor calls, reviewers and cards
have one) and a process that does not crash continues. Nothing obliges the operator
to issue a command or to acknowledge a block, so a blocked task may stay blocked.
`DebateLoop` and `SubtaskFanout` assume weak fairness of their one loop, for the
same reason. `KnowledgeJobs` assumes it of each background task, of the audit thread
and the wait for it, and of a started synthesis: the server runs the tasks it was
given and calls to models time out. A crash ends them, and `BackgroundWorkEnds`
says what is left then. `EveryAttemptSettles`, `CompletionLogged` and
`GroundingStable` speak of behaviours without a crash. `StagedKnowledge`,
`TaskKnowledge` and `RouteGovernance` have no liveness property: their commands are
finite lists of writes and nobody is obliged to issue one.

## 4. Proofs

Constants are arbitrary: any runners, cards, plans, routes, candidates, telemetry,
captures, processes and bounds. Every invariant and every action property that a
passing run checks is also a theorem. No theorem assumes more
than the ASSUMEs of the modules and what its statement names:

| Assumption | Where | Why the code justifies it |
|---|---|---|
| `SerialOperator = TRUE` | `TaskRunProofs`, except `TypeCorrect` | one operator works on a task; `taskrun_race` is the counterexample without it |
| `FilesUnscored` | `ReviewsChangeWhatWasApproved` | neither the stored registry nor a registry file scores a family it marks unsupported, as no shipped file does; section 5 |
| `FallbacksAreKnown(Stored.registry)` | `RoutesStayClosed` | the stored registry was read by the same loader that checks it |
| `NonEmptyCaptures` | `MirrorsStaySecondary` | a capture brings something; section 5 |
| `None \notin Lists` | `MirrorsStaySecondary`, `PromotionsComplete`, `IndexTellsTheView` | a null value is no list: a task without a row is told from one with an empty list |

The ASSUMEs give the constants their types and keep names apart: a finite set of
routes in an order without repetition, at least one card, configurations that are no
jobs, names of candidates, objects and evidence that differ, a null value that is
none of the values it stands beside.

`TaskRunProofs`
- `TypeCorrect`: `TypeOK`, with or without overlapping commands.
- `SerialCorrect`: the inductive invariant `SerialInv`.
  No property below is inductive alone. `OneRunner` says that at most one command
  is active; `RunnerInv` ties what an active runner has in memory to the persisted
  state and to the records it has already written, position by position;
  `AttemptCounts` and `LogBounded` say that the log holds no attempt beyond the
  counter, and not yet the current one before `RunStarted`; `SettledByResult` says
  that the records of a settled task are the policies applied to one result.
- From it: `AttemptsAreRuns`, `RecordsAreCurrent`, `GatesAgree`, and
  `TaskRunImplementsTaskTruth`, where each save is a `Begin`, `Block`,
  `Acknowledge`, `Settle` or a stutter.
- `CompletionIsLogged`: `LogCloses` says which event, if any, closes the attempt at
  each position of a runner, as long as nothing crashed.
- `GroundingIsStable`: `GroundingKept` follows the citations from the locked state
  through memory to the evidence file.

`DebateLoopProofs`
- `ChainIsComplete`: what `resolve_fallback_chain` returns starts with its route,
  follows the fallbacks and repeats none, for any registry, cyclic or not. It is the
  lemma the types and the walk of a call rest on.
- `DebateCorrect`: `DebateInv`, which is `TypeOK` with `ResultFits` (what a result
  may be at each step), `ReviewFits` (the verdict is that of the votes), `RoundsFit`
  (rounds, feedback and log agree) and `BudgetFits` (what was spent when the round
  began and how far the calls since have gone).
- From it: `AcceptedIsApproved`, `ExhaustionIsComplete`, `FeedbackStaysCurrent`,
  `OverrunIsBounded`, and `ReturnsExpectedOutcomes`: what the loop returns is in
  `Outcomes`, which is what `TaskRun` assumes of an execution.

`SubtaskFanoutProofs`
- `FanInv`: `TypeOK`; `PlanInv`, in which the in-degree counter of a card is the
  number of entries of its list whose card is in no level yet, and levels come after
  those they depend on; `Phases` and `Recorded`, what the levels before, at and
  after the current one have done. From it `RefusalIsExact` (a stuck set of cards
  has no first one to enter a level; a refused plan leaves one),
  `DependenciesComeFirst` and `FailedIsFinal`.
- `RetryInv`: each card of the queue is untouched, in its rounds or through with
  them, and the log tells which. From it `LogIsFaithful`, `ExhaustionIsEarned` and
  `ReturnsExpectedOutcomes`, the other half of what `TaskRun` assumes.

`StagedKnowledgeProofs`
- `TypeCorrect`: `TypeOK` through `TypeInv`, which adds `CommandOK` (a command in
  flight names a candidate).
- `CanonicalIsAlwaysPromoted`: through `DecisionInv`. A later rewrite of the staged
  file could take a decision back, so the invariant follows the copy in the command:
  before the decision is written (`BeforeDecision`) the copy shows every canonical
  record as promoted and the candidate as pending, after it (`AfterDecision`) the
  file says promoted, and what is in the file or the copy had been submitted, so it
  is not submitted again (`SubmittedOnce`).
- `ActiveKeysAreUnique`: inductive together with the types, since the write that
  adds a record supersedes those of its key.
- `SupersessionAlwaysEnds`: through `ChainInv`. A promotion supersedes only active
  records, and the new record is still active when its targets are marked
  (`AppendedActive`), so a set of superseded records that held one of them leads
  out of the set to the new record and any other set is one the invariant covered
  before (lemma `SupersedeChain`).
- `EvidenceIsLinked`: `StoreInv` says which writes of a promotion are behind it at
  each step, `LinksWritten` that every record but the one in flight has its links.
- `IndexStaysCurrent`: `DerivedFollows` says that index and reuse policy are those
  of the registry, or the command in flight is yet to refresh them.
- `SupersedesSharingNoticed`: `NoticeInv` says that the active records which the
  command may still supersede, by key or as targets, are covered by the confirmed
  notices, though other writes came in between. Each target was announced itself or
  resolves to the record of an earlier one that was (`TargetsAreNoticed`).

`TaskKnowledgeProofs`
- `TypeCorrect`: through `TypeInv`, which types every item of every list of writes
  with what it will write.
- `RecordsHaveDecisions`: `DecisionInv` says that a record, in the registry or on
  its way there in a list of writes, is backed by a decision in the log or by one
  that the same list writes first (`Backed`).
- `MirrorsStaySecondary`: `AloneInv` says that commands do not overlap, `MirrorInv`
  that a list of writes is in one of the forms the commands leave (`Ready`), in which
  the write of a mirror finds the row it mirrors.
- `LibrarianSupersedesNothing`: `FreshInv` says that what the librarian let through
  has keys that no active record and no other member of its batch has, from the
  check until the record is written.
- `PromotionsComplete`, `IndexTellsTheView`: neither property holds in the middle of
  a command, so the inductive invariant `TellInv` says what a command has written
  and what it still has to. While nothing crashed, failed or overlapped (`Calm`), one
  command at most is in flight, and `Told` relates its list of writes to the stores:
  - `Shape` orders the list: what swaps a file is followed by the write of the store
    and by the review, an evaluation by the summary and the baseline, a record comes
    right after its registry was read, a wiki entry before the plan or its mirror;
  - `PromoReady`: the objects promoted so far and those that the list will log are
    canonical in the command's own list and in every store that it has no write left
    for, each is logged once, and has a record or will have one;
  - `IndexReady`: the index tells what the view holds, or is still to be written from
    the list that the store and its mirror hold or will hold. `Planned` says that the
    files to be swapped in are those of this list;
  - `ZeroReady`: the entry of a staged candidate is canonical and not for reuse
    wherever it is, so that writing it leaves the index right;
  - `SummaryReady`: the baseline is the summary of the log, or will be.
  Each command establishes `Told` from a state at rest (`Rested`, `BeginTells`), each
  write keeps it (`WriteTells`, by cases on which store it changes), the librarian's
  round rebuilds it from the batch (`executeTells`, `planTells`, `reviewTells`), and
  a command that ends leaves `Rested`, which implies both properties.

`RouteGovernanceProofs`
- `GovernanceCorrect`: `GovInv`, which is `StateTyped`, `LocalsInv` (what a process
  is about to write) and `TxInv` (the view of a transaction is the committed rows
  with a part of its owner's changes, since there is one writer). `TypeCorrect` and
  `SupportedRouteIsChosen` (lemmas about `select_route` for any registry) follow.
- `LogTellsTheTruth`: `Replays`. An entry of the log overrides the earlier ones of
  its kind; weights and profiles count after the latest registry only.
- `MemoryHoldsCommitted`: `MemoryInv` follows the parts of the memory that a refresh
  has loaded so far, each from the rows committed then.
- `ReviewsChangeWhatWasApproved`, `ApprovedSuggestionsSettle`, `RoutesStayClosed`:
  `AdviceInv` says that what is proposed, approved and written comes from the
  telemetry it names, and that registries keep what the files guaranteed.

`KnowledgeJobsProofs`
- `CandidatesAreTraced`: `OriginInv` says for each step of a worker whether its
  candidate was submitted, and that an origin has one pending candidate at most.
- `ArbitrationIsSound`: `SynthesisInv` says which contributions of this run are
  written at each step of a synthesis, with those of earlier runs still in place.

`DataInduction` replaces an induction rule, which the provers cannot instantiate: a
set of counterexamples has a least member (of naturals) or a smallest one (of finite
sets), and that one is refuted. The fallback chain, replays of the log, folds over
lists of objects and counts of dependencies are proved in this way; recursion in the
modules is written as functions or folds.

Only model-checked: liveness (`EveryAttemptSettles`, `Returns`, `Ends`,
`BackgroundWorkEnds`), which is beyond the prover: it has no rule for fairness and
ENABLED. That the loop and the fan-out return one of `Outcomes` *when* they return is
proved.

## 5. What the checks do not show

- `GroundingStable` is checked without crashes. The lock is saved
  (`orchestrator.py:3011`) long before the evidence file is written; after a crash
  in between the next run rebuilds the citations of a locked grounding.
- The gates agree with a *settled* task. After a blocked attempt they still answer
  from the records of an earlier attempt (`commands/tasks.py:235`), so one more
  retry than `BASELINE_MAX_ATTEMPTS` can be admitted.
- A knowledge-policy review leaves the status `waiting_human` and logs
  `task.failed` (`orchestrator.py:3204`); `CompletionLogged` speaks of completion.
- A candidate that is appended to the staged file between a decision's read and its
  rewrite is lost (`_internal_staged_knowledge.py:128-180`); the model has this
  behaviour, and what is shown is that decisions are not.
- A second target that resolves to a record already noticed adds no notice of its
  own (`application/commands/knowledge.py:386`). When a draft names a record by its
  id and then the source object it shares with a record of another task, the second
  record is superseded although no notice names it. The run has such a draft:
  `SupersededSharesNoticed` says what holds, that a record of its object was named.
- `EvidenceLinked` and `IndexCurrent` hold between commands if none was cut off.
- A write of a file outside `apply_atomic_text_updates` is taken as atomic (`write_text` is not), and promote and reject
  commands do not overlap. `source_ref` aliases of a supersede target are left out.
- Costs are small integers; the code uses floating point.

Task knowledge. The model has these behaviours; the properties of `task_knowledge`
are stated so that they hold beside them (`trouble` names what disturbed a command):
- Once an object of the list is canonical, `promote-reuse`, `reject` and `capture`
  raise `PermissionError` after `save_state`: state and store differ from then on.
- A crash after the view is saved and before the record leaves a canonical object
  without a record. A capture after a failed librarian run takes its promotion back.
- A file update that fails half way is rolled back, but the decisions, records and
  entries written before it stay; no property promises anything after it.
- `refresh-evidence` leaves the index stale and the next capture reverts it; a
  staged promotion leaves the partition stale. The registry is read, changed and
  rewritten, so overlapping commands lose a record.
- A capture without items is accepted. After a staged promotion, between emptying
  the store and writing the mirror, it changes the view that is loaded;
  `MirrorsStaySecondary` is about captures of at least one object.
- A capture on a task that has objects ignores its artifact references
  (`cli.py:1713`); the librarian promotes an object whose reuse was rejected.
- The first SQLite event of a file task hides its file events, and migration then
  skips the task; an interrupted migration is not resumed.
- The canonical audit calls a promoted candidate without a source object an orphan.

Not in the model: items of a capture that are blank. The code skips them and does
not use their number (`knowledge_objects.py:28`), while the next capture counts from
the length of the list (`orchestrator.py:2525`), so that after a blank item an id may
be given twice. A list is a function from numbers to objects here; what the properties
and theorems of `TaskKnowledge` say is about tasks whose texts are not blank.

Routes:
- A review marks a family unsupported and clears its score, unless the family was
  marked before: then a score that a registry file gave it stays
  (`apply_route_metadata.py`). `ReviewsChangeWhatWasApproved` assumes files that do
  not score what they mark.
- An approved weight for a detached route is reported as applied and changes no
  row. A review applied with old values overwrites what was set in between.
- The executor override of an operator may select a route outside its capability
  boundary, against `docs/design/INVARIANTS.md:152`.
- A legacy registry or policy that its reader refuses is left out: nothing can be
  bootstrapped then.
- `route_fallbacks.json`, the clamping of capability manifests and the before
  payloads of the logs are left out. Ties of the cost comparison are arbitrary.

Executions and jobs:
- The synchronous execution of a card holds the event loop, so `asyncio.wait_for`
  cannot fire before it ends (`tests/test_run_task_subtasks.py:387` times a
  cooperative one).
- A crash leaves a wiki job queued or running for ever. The artifacts of wiki jobs
  are named per task, not per job. `wiki draft` without a job is not a separate
  action.
- A crash between the arbitration and its event loses `task.mps_completed`, and the
  command then refuses to run again. Two overlapping stagings of one synthesis
  could both pass the check for a duplicate; the model runs them one at a time.
- Audit reports are named to the second, an audit may read the output of a later
  attempt, and exceptions of a background audit are swallowed. After its wait of 5 s
  the run still waits for the thread when the event loop closes.

Not modelled, with the reason in `PROJECT.json`: retrieval ranking, ingestion,
prompts and dialects (functions of text and scores), subprocess and HTTP I/O,
specialist agents (text analysis), adapters, reports and queries (no state of the
system's own), and the operator's direct edits of relations (single rows).

## 6. Plan

What is left, in order of what a defect would cost:

1. `ArtifactChecks` and `DispatchPolicy`: the conditions behind the free verdicts
   of `TaskRun`, as operators over small records.
2. Promote and reject commands that overlap each other in `StagedKnowledge`.
