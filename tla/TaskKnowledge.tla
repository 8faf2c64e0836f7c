--------------------------- MODULE TaskKnowledge ---------------------------
(***************************************************************************)
(* The knowledge of one task, where the program keeps it: the list in the  *)
(* task's state and the entries of the knowledge store, each in SQLite and *)
(* mirrored to files; the index and partition files; the log of decisions; *)
(* the canonical registry with its index.                                  *)
(*                                                                         *)
(* Every command is a series of writes without a common transaction: what  *)
(* it has left to write is its todo list.  A step is one write; commands   *)
(* of several processes interleave, and a process may stop in between.     *)
(* Entry 0 of the store is the one a staged candidate was promoted to.     *)
(***************************************************************************)
EXTENDS KnowledgeObjects, TLC

CONSTANTS Procs,
          Offered,          \* the commands of a process
          Created,          \* what a task may be created with, perhaps nothing
          Requests,         \* what an operator may capture
          LegacyRequest,    \* what a task of the file store was created with
          StagedText,
          Judgments,        \* what an operator may say of the reuse of a record
          CommandBound, CrashBound, RoundBound   \* bounds on a behaviour

CANONICAL_REUSE_EVAL_JUDGMENTS == {"useful", "noisy", "needs_review"}

ASSUME KnowledgeAssumption ==
  /\ Created \cup Requests \subseteq Captures /\ LegacyRequest \in Captures /\ StagedText \in Texts
  /\ Judgments \subseteq [judgment : CANONICAL_REUSE_EVAL_JUDGMENTS, citation : Nat]
  /\ CommandBound \in Nat /\ CrashBound \in Nat /\ RoundBound \in Nat \ {0}

VARIABLES state,      \* knowledge_objects of the tasks row, None without a row
          store,      \* knowledge_evidence and knowledge_wiki rows
          files,      \* state.json, knowledge files, index and partition, registry index
          decisions,  \* knowledge_decisions.jsonl
          registry,   \* the canonical registry
          evaluation, \* evaluations of canonical reuse, and the regression baseline
          events,     \* numbers of events in SQLite and in events.jsonl
          cmd,        \* the command of a process
          commands, crashes,
          trouble     \* history: whether commands overlapped, one failed, evidence was refreshed

vars == <<state, store, files, decisions, registry, evaluation, events, cmd, commands, crashes, trouble>>
stores == <<state, store, files, decisions, registry, evaluation, events>>

-----------------------------------------------------------------------------
(* Reading: SQLite first, then the files *)

task_exists == state # None
task_has_knowledge == store # Nothing
load_state == IF task_exists THEN state ELSE files.state
load_task_knowledge_view == IF task_has_knowledge THEN store ELSE files.knowledge
Known(list) == IF list # Nothing THEN list ELSE load_state

(* A wiki entry takes the place of what the view has under its id.         *)
_merge_task_knowledge_views(view, i, entry) ==
  [j \in DOMAIN view \cup {i} |-> IF j = i THEN entry ELSE view[j]]

is_canonical_knowledge_write_authorized(authority) ==
  authority \in {"operator-gated", "librarian", "migration"}

HasCanonical(list) == \E i \in DOMAIN list : list[i].stage = "canonical"

Derived(list) == [index |-> build_knowledge_index(list),
                  partition |-> build_knowledge_partition(list)]

(* The canonical audit: active records of one key, and records whose       *)
(* source object is not in the view; a staged candidate names none.        *)
audit_canonical_registry ==
  [duplicate_active_keys |-> {registry[i].key : i \in {i \in Active(registry) :
     \E j \in Active(registry) \ {i} : registry[j].key = registry[i].key}},
   orphan_records |-> {i \in DOMAIN registry :
                         i = 0 \/ i \notin DOMAIN load_task_knowledge_view}]

-----------------------------------------------------------------------------
(* Evaluations of canonical reuse *)

(* A citation is resolved by the records that the policy file shows. *)
resolve_canonical_reuse_citations(citation) == citation \in files.canon

build_canonical_reuse_evaluation_record(j) ==
  [judgment |-> j.judgment, citation |-> j.citation,
   resolved |-> resolve_canonical_reuse_citations(j.citation)]

build_canonical_reuse_evaluation_summary(records) ==
  [judgment_counts |-> [g \in CANONICAL_REUSE_EVAL_JUDGMENTS |->
     Cardinality({k \in DOMAIN records : records[k].judgment = g})],
   resolved |-> Cardinality({k \in DOMAIN records : records[k].resolved}),
   unresolved |-> Cardinality({k \in DOMAIN records : ~records[k].resolved}),
   latest |-> IF records = <<>> THEN None ELSE records[Len(records)].citation]

(* The mismatches between the baseline and what the log says now. *)
compare_canonical_reuse_regression ==
  LET current == build_canonical_reuse_evaluation_summary(evaluation.records)
  IN {f \in DOMAIN current : evaluation.baseline[f] # current[f]}

-----------------------------------------------------------------------------
(* Commands *)

Idle == [todo |-> <<>>, list |-> Nothing, authority |-> "task-state", wanted |-> {},
         seen |-> Nothing, registered |-> {}, round |-> 0, planned |-> None,
         original |-> None, said |-> None]

(* A write, with what it writes unless that is the list of the command.    *)
Write(step, of) == [step |-> step, of |-> of]
Steps(names) == [k \in DOMAIN names |-> Write(names[k], None)]

busy(p) == cmd[p].todo # <<>>
next(p, step) == busy(p) /\ Head(cmd[p].todo).step = step
written(p) == Head(cmd[p].todo).of

(* The command goes on after a step; its locals go with its last one. *)
proceed(p, c) == cmd' = [cmd EXCEPT ![p] = IF Tail(c.todo) = <<>> THEN Idle
                                           ELSE [c EXCEPT !.todo = Tail(@)]]
done(p) == proceed(p, cmd[p])
fail(p) == cmd' = [cmd EXCEPT ![p] = Idle] /\ trouble' = trouble \cup {"error"}

(* A command that overlaps another one counts twice against the bound. *)
begin(p, what, todo, c) ==
  LET overlaps == \E q \in Procs : busy(q) IN
  /\ ~busy(p) /\ what \in Offered[p]
  /\ commands' = commands + IF overlaps THEN 2 ELSE 1
  /\ commands' <= CommandBound
  /\ cmd' = [cmd EXCEPT ![p] = [c EXCEPT !.todo = todo]]
  /\ trouble' = trouble \cup (IF overlaps THEN {"overlap"} ELSE {})
                        \cup ({what} \cap {"refresh"})
  /\ UNCHANGED <<stores, crashes>>

SaveState == Steps(<<"state", "mirror_state">>)
SaveKnowledge == Steps(<<"state", "mirror_state", "store", "mirror_store", "derived">>)
Canon == Steps(<<"canon">>)
Event == Steps(<<"event", "mirror_event">>)
Record(record) == <<Write("read_registry", record), Write("record", record)>>

capture_authority(req) == IF req.stage = "canonical" THEN "operator-gated" ELSE "task-state"

create_task(p) == \E req \in Created :
  /\ load_state = None
  /\ begin(p, "create", SaveKnowledge \o Canon \o Event,
           [Idle EXCEPT !.list = build_knowledge_objects(req, 1),
                        !.authority = capture_authority(req)])

(* Planning handoffs, like every command that changes something else of    *)
(* the task, write the state back as it was read.                          *)
update_task_planning_handoff(p) ==
  /\ load_state # None
  /\ begin(p, "handoff", SaveState \o Event, [Idle EXCEPT !.list = load_state])

Extended(list, new) == [i \in DOMAIN list \cup DOMAIN new |->
                          IF i \in DOMAIN list THEN list[i] ELSE new[i]]

(* The new objects are added to the list in the state, whatever the store  *)
(* holds.                                                                  *)
append_task_knowledge_capture(p) == \E req \in Requests :
  /\ load_state # None
  /\ LET new == build_knowledge_objects(req, Cardinality(DOMAIN load_state) + 1)
     IN begin(p, "capture", SaveKnowledge \o Event,
              [Idle EXCEPT !.list = Extended(load_state, new), !.authority = capture_authority(req)])

decide_task_knowledge(p) == \E i \in 0 .. CommandBound * 2, type \in {"promote", "reject"},
                               target \in {"reuse", "canonical"} :
  LET d == [object |-> i, type |-> type, target |-> target]
      promotes == type = "promote" /\ target = "canonical"
  IN /\ load_state # None
     /\ decision_allowed(Known(load_task_knowledge_view), d)
     /\ LET list == apply_knowledge_decision(Known(load_task_knowledge_view), d)
        IN begin(p, "decide",
                 SaveKnowledge \o <<Write("decision", d)>>
                   \o (IF promotes THEN Record(build_canonical_record(list[i], i)) ELSE <<>>)
                   \o Canon \o Event,
                 [Idle EXCEPT !.list = list,
                    !.authority = IF promotes THEN "operator-gated" ELSE "task-state"])

StagedRecord == [id |-> 0, key |-> <<"staged-candidate", 0>>, text |-> StagedText,
                 artifact |-> None, source |-> None, evidence |-> "unbacked",
                 status |-> "active"]

(* The part of promote_stage_candidate_command that reaches the task: the  *)
(* wiki entry first, then the record and its index.                        *)
promote_stage_candidate_command(p) ==
  /\ load_state # None /\ 0 \notin DOMAIN registry
  /\ begin(p, "stage", <<Write("wiki", StagedRecord)>> \o Steps(<<"mirror_wiki">>)
                         \o Record(StagedRecord) \o Canon,
           [Idle EXCEPT !.authority = "operator-gated"])

(* The entry of the store is rewritten, neither the state nor the index.   *)
(* Canonical entries are refused.                                          *)
refresh_wiki_evidence_command(p) ==
  /\ load_state # None
  /\ \E i \in DOMAIN Known(load_task_knowledge_view), source \in Sources :
       LET view == Known(load_task_knowledge_view)
       IN /\ view[i].stage # "canonical"
          /\ begin(p, "refresh", Steps(<<"store", "mirror_store">>),
                   [Idle EXCEPT !.list = [view EXCEPT ![i] = refresh_evidence(@, source)]])

(* The operator judges a record that the reuse policy offers, or does not. *)
evaluate_task_canonical_reuse(p) == \E j \in Judgments :
  /\ load_state # None
  /\ begin(p, "evaluate",
           <<Write("evaluation", build_canonical_reuse_evaluation_record(j))>>
             \o Steps(<<"summarize", "baseline">>) \o Event, Idle)

(* A task that SQLite does not know: the state, then event by event. *)
migrate_file_tasks_to_sqlite(p) ==
  /\ ~task_exists /\ files.state # None
  /\ begin(p, "migrate", Steps(<<"state">> \o [e \in 1 .. events.file |-> "copy_event"]),
           [Idle EXCEPT !.list = files.state, !.authority = "migration"])

(* Fault: knowledge that SQLite has is migrated again. *)
migrate_file_knowledge_to_sqlite_again(p) ==
  /\ files.knowledge # Nothing
  /\ begin(p, "migrate", Steps(<<"store">>),
           [Idle EXCEPT !.list = files.knowledge, !.authority = "migration"])

migrate_file_knowledge_to_sqlite(p) ==
  /\ ~task_has_knowledge /\ files.knowledge # Nothing
  /\ begin(p, "migrate", Steps(<<"store">>),
           [Idle EXCEPT !.list = files.knowledge, !.authority = "migration"])

(* A run whose card goes to the librarian, because the planner found       *)
(* objects ready or because the task names it as its executor.             *)
run_task(p) ==
  /\ load_state # None
  /\ \E wanted \in {PromotionReady(load_state), {}} :
     begin(p, "run", SaveState \o Steps(<<"execute">>),
           [Idle EXCEPT !.list = load_state, !.wanted = wanted, !.authority = "librarian"])

-----------------------------------------------------------------------------
(* Steps *)

write_state(p) ==
  /\ next(p, "state")
  /\ state' = cmd[p].list
  /\ done(p)
  /\ UNCHANGED <<store, files, decisions, registry, events, evaluation, commands, crashes, trouble>>

mirror_state(p) ==
  /\ next(p, "mirror_state")
  /\ files' = [files EXCEPT !.state = cmd[p].list]
  /\ done(p)
  /\ UNCHANGED <<state, store, decisions, registry, events, evaluation, commands, crashes, trouble>>

(* All rows of the task are replaced, or a PermissionError ends the        *)
(* command when the list has canonical entries it may not write.           *)
replace_task_knowledge(p) ==
  /\ next(p, "store")
  /\ IF /\ HasCanonical(cmd[p].list)
        /\ ~is_canonical_knowledge_write_authorized(cmd[p].authority)
     THEN fail(p) /\ UNCHANGED store
     ELSE store' = cmd[p].list /\ done(p) /\ UNCHANGED trouble
  /\ UNCHANGED <<state, files, decisions, registry, events, evaluation, commands, crashes>>

mirror_store(p) ==
  /\ next(p, "mirror_store") \/ next(p, "mirror_wiki")
  /\ files' = [files EXCEPT !.knowledge = cmd[p].list]
  /\ done(p)
  /\ UNCHANGED <<state, store, decisions, registry, events, evaluation, commands, crashes, trouble>>

save_knowledge_index(p) ==
  /\ next(p, "derived")
  /\ files' = [files EXCEPT !.derived = Derived(cmd[p].list)]
  /\ done(p)
  /\ UNCHANGED <<state, store, decisions, registry, events, evaluation, commands, crashes, trouble>>

append_knowledge_decision(p) ==
  /\ next(p, "decision")
  /\ decisions' = Append(decisions, written(p))
  /\ done(p)
  /\ UNCHANGED <<state, store, files, registry, events, evaluation, commands, crashes, trouble>>

(* The proposal is registered, once in a process, and applied: the file is *)
(* read and then written with the record.                                  *)
register_canonical_proposal(p) ==
  /\ next(p, "read_registry")
  /\ LET id == written(p).id
     IN IF id \in cmd[p].registered THEN fail(p)
        ELSE /\ proceed(p, [cmd[p] EXCEPT !.seen = registry, !.registered = @ \cup {id}])
             /\ UNCHANGED trouble
  /\ UNCHANGED <<stores, commands, crashes>>

write_registry(p) ==
  /\ next(p, "record")
  /\ registry' = append_canonical_record(cmd[p].seen, written(p))
  /\ proceed(p, [cmd[p] EXCEPT !.seen = Nothing])
  /\ UNCHANGED <<state, store, files, decisions, events, evaluation, commands, crashes, trouble>>

persist_wiki_entry_from_record(p) ==
  /\ next(p, "wiki")
  /\ LET view == _merge_task_knowledge_views(load_task_knowledge_view, written(p).id,
                   build_wiki_entry_from_canonical_record(written(p)))
         mirrored == Head(Tail(cmd[p].todo)).step = "mirror_wiki"
     IN /\ store' = view
        /\ proceed(p, [cmd[p] EXCEPT !.list = IF mirrored THEN view ELSE @])
  /\ UNCHANGED <<state, files, decisions, registry, events, evaluation, commands, crashes, trouble>>

_refresh_canonical_derivatives(p) ==
  /\ next(p, "canon")
  /\ files' = [files EXCEPT !.canon = Active(registry)]
  /\ done(p)
  /\ UNCHANGED <<state, store, decisions, registry, events, evaluation, commands, crashes, trouble>>

append_canonical_reuse_evaluation(p) ==
  /\ next(p, "evaluation")
  /\ evaluation' = [evaluation EXCEPT !.records = Append(@, written(p))]
  /\ done(p)
  /\ UNCHANGED <<state, store, files, decisions, registry, events, commands, crashes, trouble>>

(* The log is read again, *)
summarize(p) ==
  /\ next(p, "summarize")
  /\ proceed(p, [cmd[p] EXCEPT
       !.said = build_canonical_reuse_evaluation_summary(evaluation.records)])
  /\ UNCHANGED <<stores, commands, crashes, trouble>>

(* and the baseline written. *)
save_canonical_reuse_regression(p) ==
  /\ next(p, "baseline")
  /\ evaluation' = [evaluation EXCEPT !.baseline = cmd[p].said]
  /\ done(p)
  /\ UNCHANGED <<state, store, files, decisions, registry, events, commands, crashes, trouble>>

append_event(p) ==
  /\ next(p, "event") \/ next(p, "copy_event")
  /\ events' = [events EXCEPT !.sql = @ + 1]
  /\ done(p)
  /\ UNCHANGED <<state, store, files, decisions, registry, evaluation, commands, crashes, trouble>>

mirror_event(p) ==
  /\ next(p, "mirror_event")
  /\ events' = [events EXCEPT !.file = @ + 1]
  /\ done(p)
  /\ UNCHANGED <<state, store, files, decisions, registry, evaluation, commands, crashes, trouble>>

-----------------------------------------------------------------------------
(* The librarian's round *)

(* Fault: the index and the partition are left out. *)
Swaps_without_index == <<"swap_knowledge", "swap_state", "swap_canon">>

Swaps == <<"swap_knowledge", "swap_state", "swap_derived", "swap_canon">>
FileOf == [swap_knowledge |-> "knowledge", swap_state |-> "state",
           swap_derived |-> "derived", swap_canon |-> "canon"]

PromotionDecision(record) == [object |-> record.id, type |-> "promote", target |-> "canonical"]
Decide(records) == [k \in DOMAIN records |-> Write("decision", PromotionDecision(records[k]))]
Apply(records) == [k \in 1 .. 3 * Len(records) |->
  Write(<<"read_registry", "record", "wiki">>[((k - 1) % 3) + 1], records[((k - 1) \div 3) + 1])]

(* Fault: the records are written before the decisions. *)
_apply_librarian_side_effects_records_first(records) ==
  Apply(records) \o Decide(records) \o Steps(<<"plan">>)

(* For every promoted object a decision, then for every one a record and   *)
(* its entry in the store, then the updates.                               *)
_apply_librarian_side_effects(records) ==
  Decide(records) \o Apply(records) \o Steps(<<"plan">>)

execute(p) ==
  /\ next(p, "execute")
  /\ LET batch == LibrarianAgent(Known(load_task_knowledge_view), cmd[p].wanted, registry)
     IN cmd' = [cmd EXCEPT ![p] = [cmd[p] EXCEPT !.list = batch.list, !.round = @ + 1,
                  !.todo = _apply_librarian_side_effects(batch.records)]]
  /\ UNCHANGED <<stores, commands, crashes, trouble>>

(* The new contents are computed and written to temporary files, the old   *)
(* ones are kept for a rollback.                                           *)
build_knowledge_store_write_plan(p) ==
  /\ next(p, "plan")
  /\ LET list == cmd[p].list
     IN cmd' = [cmd EXCEPT ![p] = [@ EXCEPT
          !.original = files,
          !.planned = [knowledge |-> list, state |-> list, derived |-> Derived(list),
                       canon |-> Active(registry)],
          !.todo = Steps(Swaps \o <<"store", "review">>)]]
  /\ UNCHANGED <<stores, commands, crashes, trouble>>

apply_atomic_text_updates(p) ==
  \E swap \in DOMAIN FileOf :
    /\ next(p, swap)
    /\ files' = [files EXCEPT ![FileOf[swap]] = cmd[p].planned[FileOf[swap]]]
    /\ done(p)
    /\ UNCHANGED <<state, store, decisions, registry, events, evaluation, commands, crashes, trouble>>

(* A replacement fails: the ones before it are taken back and the run      *)
(* fails.                                                                  *)
RollBack(p) ==
  /\ \E swap \in DOMAIN FileOf : next(p, swap)
  /\ LET left == {FileOf[s] : s \in {w.step : w \in Range(cmd[p].todo)} \cap DOMAIN FileOf}
     IN files' = [f \in DOMAIN files |-> IF f \in left THEN files[f] ELSE cmd[p].original[f]]
  /\ fail(p)
  /\ UNCHANGED <<state, store, decisions, registry, events, evaluation, commands, crashes>>

(* The review asks for another round, or the run ends and saves its state. *)
run_review_gate(p) ==
  /\ next(p, "review")
  /\ \E todo \in {Steps(<<"execute">>), SaveState \o Event} :
       /\ todo = Steps(<<"execute">>) => cmd[p].round < RoundBound
       /\ cmd' = [cmd EXCEPT ![p] = [@ EXCEPT !.todo = todo, !.planned = None,
                                              !.original = None]]
  /\ UNCHANGED <<stores, commands, crashes, trouble>>

Crash(p) ==
  /\ busy(p) /\ crashes < CrashBound
  /\ crashes' = crashes + 1
  /\ cmd' = [cmd EXCEPT ![p] = Idle]
  /\ UNCHANGED <<stores, commands, trouble>>

-----------------------------------------------------------------------------
(* A new task, or one of the time of the file store. *)
Init ==
  /\ state = None /\ store = Nothing /\ decisions = <<>> /\ registry = Nothing
  /\ \/ /\ files = [state |-> None, knowledge |-> Nothing, derived |-> Derived(Nothing),
                    canon |-> {}]
        /\ events = [sql |-> 0, file |-> 0]
     \/ LET list == build_knowledge_objects(LegacyRequest, 1)
        IN /\ files = [state |-> list, knowledge |-> list, derived |-> Derived(list),
                       canon |-> {}]
           /\ events = [sql |-> 0, file |-> 1]
  /\ evaluation = [records |-> <<>>, baseline |-> build_canonical_reuse_evaluation_summary(<<>>)]
  /\ cmd = [p \in Procs |-> Idle]
  /\ commands = 0 /\ crashes = 0 /\ trouble = {}

Command(p) == \/ create_task(p) \/ update_task_planning_handoff(p)
              \/ append_task_knowledge_capture(p) \/ decide_task_knowledge(p)
              \/ promote_stage_candidate_command(p) \/ run_task(p)
              \/ refresh_wiki_evidence_command(p) \/ evaluate_task_canonical_reuse(p)
              \/ migrate_file_tasks_to_sqlite(p) \/ migrate_file_knowledge_to_sqlite(p)

Step(p) == \/ write_state(p) \/ mirror_state(p) \/ replace_task_knowledge(p)
           \/ mirror_store(p) \/ save_knowledge_index(p) \/ append_knowledge_decision(p)
           \/ register_canonical_proposal(p) \/ write_registry(p)
           \/ persist_wiki_entry_from_record(p) \/ _refresh_canonical_derivatives(p)
           \/ append_canonical_reuse_evaluation(p) \/ summarize(p)
           \/ save_canonical_reuse_regression(p)
           \/ append_event(p) \/ mirror_event(p)
           \/ execute(p) \/ build_knowledge_store_write_plan(p)
           \/ apply_atomic_text_updates(p) \/ RollBack(p) \/ run_review_gate(p)

Next == \E p \in Procs : Command(p) \/ Step(p) \/ Crash(p)

Spec == Init /\ [][Next]_vars

-----------------------------------------------------------------------------
(* Properties *)

Records == [id : Nat, key : {"artifact"} \X Artifacts \cup {"source"} \X Sources
                            \cup {"task-object", "staged-candidate"} \X Nat,
            text : Texts, artifact : Artifacts \cup {None}, source : Sources \cup {None},
            evidence : EvidenceStatuses, status : {"active", "superseded"}]

(* Every place that keeps knowledge holds well-formed objects, whichever   *)
(* commands wrote it, and records are filed under their ids.               *)
TypeOK ==
  /\ state = None \/ IsList(state)
  /\ files.state = None \/ IsList(files.state)
  /\ IsList(store) /\ IsList(files.knowledge)
  /\ \A k \in DOMAIN decisions : decisions[k] \in Decision
  /\ \A i \in DOMAIN registry : registry[i] \in Records /\ registry[i].id = i
  /\ files.canon \subseteq Nat
  /\ evaluation.records \in Seq([judgment : CANONICAL_REUSE_EVAL_JUDGMENTS, citation : Nat,
                                  resolved : BOOLEAN])
  /\ events.sql \in Nat /\ events.file \in Nat
  /\ commands \in 0 .. CommandBound /\ crashes \in 0 .. CrashBound
  /\ trouble \subseteq {"overlap", "error", "refresh"}

Promotions == {k \in DOMAIN decisions :
                 decisions[k].type = "promote" /\ decisions[k].target = "canonical"}
AllIdle == \A p \in Procs : ~busy(p)
Undisturbed == AllIdle /\ crashes = 0 /\ trouble \subseteq {"refresh"}

(* Whatever crashes, fails or overlaps, an object of the task has a        *)
(* canonical record only if the log of decisions says it was promoted: the *)
(* operator's command and the librarian append the decision first.         *)
RecordHasDecision ==
  \A i \in DOMAIN registry \ {0} : \E k \in Promotions : decisions[k].object = i

(* A promotion that nothing disturbed is complete, whatever was captured,  *)
(* decided or run since: it was decided once, its record is in the         *)
(* registry, the store shows the object as canonical, and the review queue *)
(* has nothing left to ask about it.  The canonical audit finds nothing    *)
(* but the record of the staged candidate.                                 *)
PromotionIsComplete ==
  Undisturbed =>
    /\ audit_canonical_registry.duplicate_active_keys = {}
    /\ audit_canonical_registry.orphan_records \subseteq {0}
    /\ \A k \in Promotions :
         LET i == decisions[k].object
         IN /\ i \in DOMAIN registry
            /\ load_task_knowledge_view[i].stage = "canonical"
            /\ build_review_queue(load_task_knowledge_view, decisions)[i] = "none"
            /\ \A l \in Promotions : decisions[l].object = i => l = k

(* Between undisturbed commands, what the knowledge index offers for reuse *)
(* is what the store says is ready for it: a staged promotion, a migration *)
(* and the librarian's own file updates included.  Refreshed evidence is   *)
(* the exception: that command leaves the index as it was.  The baseline   *)
(* of the reuse evaluations matches their log.                             *)
IndexTellsView ==
  Undisturbed =>
    /\ "refresh" \notin trouble =>
         files.derived.index = build_knowledge_index(load_task_knowledge_view)
    /\ compare_canonical_reuse_regression = {}

(* The librarian supersedes no active record: a key or a text that an      *)
(* active record or an earlier object of its batch has is left alone.      *)
LibrarianKeepsActive ==
  [][\A p \in Procs :
       next(p, "record") /\ cmd[p].authority = "librarian" /\ "overlap" \notin trouble =>
         Active(registry) \subseteq Active(registry')]_vars

(* Files are mirrors: writing one, or migrating them to SQLite, changes    *)
(* neither the state nor the view that the program loads, also after a     *)
(* command was cut off between SQLite and the files.                       *)
MirrorsAreSecondary ==
  [][\A p \in Procs :
       /\ "overlap" \notin trouble
       /\ \/ next(p, "mirror_state") \/ next(p, "mirror_store") \/ next(p, "mirror_wiki")
          \/ busy(p) /\ cmd[p].authority = "migration"
       => load_state' = load_state /\ load_task_knowledge_view' = load_task_knowledge_view]_vars

(* Canonical entries leave the knowledge store only when a proposal is     *)
(* applied (docs/design/INVARIANTS.md: the only write path to canonical    *)
(* knowledge is apply_proposal).                                           *)
CanonicalNeverErased ==
  [][\A i \in DOMAIN store :
       store[i].stage = "canonical" =>
         i \in DOMAIN store' /\ store'[i].stage = "canonical"]_vars

=============================================================================
