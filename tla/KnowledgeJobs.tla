--------------------------- MODULE KnowledgeJobs ---------------------------
(***************************************************************************)
(* The work that produces staged knowledge and audits around one task:     *)
(* wiki jobs that the web server runs after it has answered, synthesis     *)
(* from the command line, and consistency audits that a run of the task    *)
(* starts in the background.  All of them call models, which may fail, and *)
(* the server or the command may die between two writes.                   *)
(***************************************************************************)
EXTENDS Integers, Sequences, FiniteSets, SequencesExt

CONSTANTS Jobs,
          Configs,           \* synthesis configurations an operator may run
          RoundLimit, ParticipantLimit,   \* the mps policy, or its defaults
          Audits,            \* runs of the task whose output may be audited
          Policy,            \* audit trigger policy
          Outputs,           \* what the executor event of a run may say
          SynthesisBound, CrashBound,     \* bounds on a behaviour
          None

ASSUME JobsAssumption ==
  /\ None \notin Jobs /\ None \notin Configs
  /\ None \notin [origin : Jobs, nr : {0}]
  /\ RoundLimit \in Nat /\ ParticipantLimit \in Nat
  /\ SynthesisBound \in Nat /\ CrashBound \in Nat
  /\ \A c \in Configs : c.rounds \in Int /\ c.participants \in Seq(DOMAIN c.hint)
  /\ \A c \in Configs : c.id \notin Jobs     \* candidates carry the kind of their source

VARIABLES jobs,         \* artifacts/wiki_jobs/<job>.json
          worker,       \* the background task of a job
          staged,       \* the staged candidates
          submitted,    \* history: the candidates that were appended
          decision,     \* the decision of a candidate in flight
          syn,          \* the synthesis command in flight
          contributions,\* synthesis_round_<n>_participant_<id>.json
          arbitration,  \* synthesis_arbitration.json
          syntheses,    \* synthesis commands so far
          audit,        \* the audit of a run
          log,          \* how many events of a type the task has
          crashes

vars == <<jobs, worker, staged, submitted, decision, syn, contributions, arbitration,
          syntheses, audit, log, crashes>>
wiki == <<jobs, worker>>
synthesis == <<syn, contributions, arbitration, syntheses>>
candidates == <<staged, submitted, decision>>

-----------------------------------------------------------------------------
(* Staged candidates *)

(* nr tells the candidates of one origin apart. *)
submit_staged_knowledge(origin, nr) ==
  /\ staged' = staged \cup {[origin |-> origin, nr |-> nr, status |-> "pending"]}
  /\ submitted' = submitted \cup {[origin |-> origin, nr |-> nr]}
  /\ UNCHANGED decision

From(origin) == {c \in submitted : c.origin = origin}

(* The operator decides a candidate: the file is read,                     *)
load_staged_candidates(c) ==
  /\ decision = None /\ c.status = "pending"
  /\ decision' = [candidate |-> c, seen |-> staged]
  /\ UNCHANGED <<wiki, staged, submitted, synthesis, audit, log, crashes>>

(* and written as it was read, with the decision; what was appended in the *)
(* meantime is lost.                                                       *)
update_staged_candidate ==
  /\ decision # None
  /\ staged' = (decision.seen \ {decision.candidate})
               \cup {[decision.candidate EXCEPT !.status = "decided"]}
  /\ decision' = None
  /\ UNCHANGED <<wiki, submitted, synthesis, audit, log, crashes>>

-----------------------------------------------------------------------------
(* Wiki jobs *)

(* "none": there is no such record yet. *)
WikiJobRecord ==
  [status : {"none", "queued", "running", "completed", "failed"},
   candidate : {None} \cup [origin : Jobs, nr : {0}]]

step(j, from, to) == worker[j] = from /\ worker' = [worker EXCEPT ![j] = to]

(* The request is checked and the job recorded; the server runs it once    *)
(* the answer is out.                                                      *)
_persist_new_job(j) ==
  /\ jobs[j].status = "none"
  /\ jobs' = [jobs EXCEPT ![j].status = "queued"]
  /\ step(j, "none", "waiting")
  /\ UNCHANGED <<candidates, synthesis, audit, log, crashes>>

run_wiki_job(j) ==
  /\ step(j, "waiting", IF jobs[j].status = "queued" THEN "sources" ELSE "gone")
  /\ jobs' = IF jobs[j].status = "queued" THEN [jobs EXCEPT ![j].status = "running"] ELSE jobs
  /\ UNCHANGED <<candidates, synthesis, audit, log, crashes>>

(* Fault: what is raised ends the worker, and the record is left alone. *)
compile_raises_unrecorded(j) ==
  /\ step(j, worker[j], "gone") /\ worker[j] \in {"sources", "model"}
  /\ UNCHANGED <<jobs, candidates, synthesis, audit, log, crashes>>

(* A source that cannot be resolved, no answer of the model, or a draft    *)
(* without text: whatever is raised before the candidate is submitted      *)
(* fails the job.                                                          *)
compile_raises(j) ==
  /\ step(j, worker[j], "gone") /\ worker[j] \in {"sources", "model"}
  /\ jobs' = [jobs EXCEPT ![j].status = "failed"]
  /\ UNCHANGED <<candidates, synthesis, audit, log, crashes>>

(* Fault: the candidate is submitted before the draft is looked at. *)
compile_submitting_first(j) ==
  /\ step(j, "sources", "model")
  /\ submit_staged_knowledge(j, 0)
  /\ UNCHANGED <<jobs, synthesis, audit, log, crashes>>

(* The sources are packed and the prompt artifact is written. *)
build_wiki_compiler_source_pack(j) ==
  /\ step(j, "sources", "model")
  /\ UNCHANGED <<jobs, candidates, synthesis, audit, log, crashes>>

(* The draft is accepted and the result artifact written. *)
_draft_from_payload(j) ==
  /\ step(j, "model", "submit")
  /\ UNCHANGED <<jobs, candidates, synthesis, audit, log, crashes>>

compile(j) ==
  /\ step(j, "submit", "record")
  /\ submit_staged_knowledge(j, 0)
  /\ UNCHANGED <<jobs, synthesis, audit, log, crashes>>

_write_job_record(j) ==
  /\ step(j, "record", "gone")
  /\ jobs' = [jobs EXCEPT ![j] = [status |-> "completed",
                                   candidate |-> CHOOSE c \in From(j) : TRUE]]
  /\ UNCHANGED <<candidates, synthesis, audit, log, crashes>>

JobStep(j) == \/ run_wiki_job(j) \/ compile_raises(j) \/ build_wiki_compiler_source_pack(j)
              \/ _draft_from_payload(j) \/ compile(j) \/ _write_job_record(j)

-----------------------------------------------------------------------------
(* Synthesis *)

NoRun == [config |-> None, round |-> 0, all |-> <<>>, prior |-> {}, current |-> {}, at |-> "idle"]

Participants(c) == Range(c.participants)

_validate_participant_ids(c) ==
  IsInjective(c.participants) /\ c.arbiter \notin Participants(c)

_validate_config(c) ==
  /\ c.participants # <<>> /\ _validate_participant_ids(c)
  /\ c.rounds \in 1 .. RoundLimit
  /\ Len(c.participants) <= ParticipantLimit

(* A participant without a hint gets an HTTP route in any case; a hint     *)
(* must name one.                                                          *)
_resolve_participant_route(c, who) == c.hint[who] \in {"none", "http"}

(* Fault: a finished synthesis may be run again. *)
run_synthesis_again(c) ==
  /\ syn.at = "idle" /\ syntheses < SynthesisBound
  /\ _validate_config(c)
  /\ syntheses' = syntheses + 1
  /\ syn' = [NoRun EXCEPT !.config = c, !.round = 1, !.at = "round"]
  /\ UNCHANGED <<wiki, candidates, contributions, arbitration, audit, log, crashes>>

run_synthesis(c) ==
  /\ syn.at = "idle" /\ syntheses < SynthesisBound
  /\ arbitration = None
  /\ _validate_config(c)
  /\ syntheses' = syntheses + 1
  /\ syn' = [NoRun EXCEPT !.config = c, !.round = 1, !.at = "round"]
  /\ UNCHANGED <<wiki, candidates, contributions, arbitration, audit, log, crashes>>

Speaker == IF Cardinality(syn.current) < Len(syn.config.participants)
           THEN syn.config.participants[Cardinality(syn.current) + 1] ELSE syn.config.arbiter

(* What a participant writes: the command and the round it belongs to, and *)
(* the contributions it was shown.                                         *)
Contribution(who) == [run |-> syntheses, round |-> syn.round, who |-> who,
                      saw |-> {<<a.run, a.round, a.who>> : a \in syn.prior}]

persist_participant_artifact ==
  /\ syn.at = "round" /\ Speaker # syn.config.arbiter
  /\ _resolve_participant_route(syn.config, Speaker)
  /\ LET a == Contribution(Speaker)
         name == <<syn.round, Speaker>>
     IN /\ contributions' = [x \in DOMAIN contributions \cup {name} |->
                                IF x = name THEN a ELSE contributions[x]]
        /\ syn' = [syn EXCEPT !.current = @ \cup {a}, !.all = Append(@, a)]
  /\ UNCHANGED <<wiki, candidates, arbitration, syntheses, audit, log, crashes>>

(* A round is complete: the next one is shown what it said. *)
run_synthesis_round ==
  /\ syn.at = "round" /\ Speaker = syn.config.arbiter
  /\ syn' = IF syn.round < syn.config.rounds
            THEN [syn EXCEPT !.round = @ + 1, !.prior = syn.current, !.current = {}]
            ELSE [syn EXCEPT !.at = "arbiter"]
  /\ UNCHANGED <<wiki, candidates, contributions, arbitration, syntheses, audit, log, crashes>>

Arbitrate ==
  /\ syn.at = "arbiter" /\ _resolve_participant_route(syn.config, syn.config.arbiter)
  /\ arbitration' = [config |-> syn.config, cites |-> syn.all]
  /\ syn' = [syn EXCEPT !.at = "event"]
  /\ UNCHANGED <<wiki, candidates, contributions, syntheses, audit, log, crashes>>

(* A call that does not complete, an unusable hint or an empty summary     *)
(* ends the command; what was written stays.                               *)
_require_completed_executor_result ==
  /\ syn.at = "arbiter" \/ (syn.at = "round" /\ Speaker # syn.config.arbiter)
  /\ syn' = NoRun
  /\ UNCHANGED <<wiki, candidates, contributions, arbitration, syntheses, audit, log, crashes>>

LogSynthesis ==
  /\ syn.at = "event"
  /\ log' = [log EXCEPT !.mps_completed = @ + 1]
  /\ syn' = NoRun
  /\ UNCHANGED <<wiki, candidates, contributions, arbitration, syntheses, audit, crashes>>

(* Nothing happens when a candidate of the synthesis is pending. *)
stage_synthesis_command ==
  /\ syn.at = "idle" /\ syntheses < SynthesisBound /\ arbitration # None
  /\ \A c \in staged : ~(c.origin = arbitration.config.id /\ c.status = "pending")
  /\ submit_staged_knowledge(arbitration.config.id, syntheses)
  /\ syntheses' = syntheses + 1
  /\ syn' = [NoRun EXCEPT !.at = "staged"]
  /\ UNCHANGED <<wiki, contributions, arbitration, audit, log, crashes>>

LogStaged ==
  /\ syn.at = "staged"
  /\ log' = [log EXCEPT !.synthesis_staged = @ + 1]
  /\ syn' = NoRun
  /\ UNCHANGED <<wiki, candidates, contributions, arbitration, syntheses, audit, crashes>>

SynthesisStep == \/ persist_participant_artifact \/ run_synthesis_round \/ Arbitrate
                 \/ _require_completed_executor_result \/ LogSynthesis \/ LogStaged

-----------------------------------------------------------------------------
(* Consistency audits *)

(* output is None when the log has no executor event. *)
evaluate_audit_trigger(output) ==
  IF ~Policy.enabled \/ output = None THEN {}
  ELSE (IF Policy.on_degraded /\ output.degraded THEN {"degraded"} ELSE {})
       \cup (IF Policy.threshold # None /\ output.cost >= Policy.threshold THEN {"cost"} ELSE {})

at(a, from, to) == audit[a].at = from /\ audit' = [audit EXCEPT ![a].at = to]

(* Near the end of a run; the task is created before the event is logged. *)
_maybe_schedule_consistency_audit(a) == \E output \in Outputs :
  /\ audit[a].at = "none"
  /\ IF evaluate_audit_trigger(output) = {}
     THEN audit' = [audit EXCEPT ![a].at = "not wanted", ![a].run = "returned"] /\ log' = log
     ELSE /\ audit' = [audit EXCEPT ![a].at = "scheduled", ![a].run = "waiting"]
          /\ log' = [log EXCEPT !.audit_scheduled = @ + 1]
  /\ UNCHANGED <<wiki, candidates, synthesis, crashes>>

(* A state that cannot be loaded ends the audit without a report. *)
LoadAuditedState(a) ==
  /\ \/ at(a, "scheduled", "reading")
     \/ at(a, "scheduled", "unreported")
  /\ UNCHANGED <<wiki, candidates, synthesis, log, crashes>>

(* What the auditor wrote, as far as it can be read. *)
parse_consistency_audit_verdict == {"pass", "fail", "inconclusive"}

(* The sample is missing, the auditor's route unknown or the call fails:   *)
(* there is a report that says so,                                         *)
AuditFails(a) ==
  /\ audit[a].at = "reading"
  /\ audit' = [audit EXCEPT ![a].at = "reported", ![a].verdict = "inconclusive"]
  /\ UNCHANGED <<wiki, candidates, synthesis, log, crashes>>

(* and there is one with the answer of the auditor. *)
run_consistency_audit(a) ==
  /\ audit[a].at = "reading"
  /\ \E verdict \in parse_consistency_audit_verdict :
       audit' = [audit EXCEPT ![a].at = "reported", ![a].verdict = verdict,
                              ![a].status = "completed"]
  /\ UNCHANGED <<wiki, candidates, synthesis, log, crashes>>

(* The run waits until its audit is done or five seconds have passed. *)
_wait_for_background_consistency_audits(a) ==
  /\ audit[a].run = "waiting"
  /\ audit' = [audit EXCEPT ![a].run = "returned"]
  /\ UNCHANGED <<wiki, candidates, synthesis, log, crashes>>

AuditStep(a) == LoadAuditedState(a) \/ AuditFails(a) \/ run_consistency_audit(a)

-----------------------------------------------------------------------------
(* The processes die *)

(* The web server, with every job and decision it works on. *)
ServerDies ==
  /\ worker' = [j \in Jobs |-> IF worker[j] = "none" THEN "none" ELSE "gone"]
  /\ decision' = None
  /\ UNCHANGED <<jobs, staged, submitted, synthesis, audit, log>>

SynthesisDies ==
  /\ syn # NoRun /\ syn' = NoRun
  /\ UNCHANGED <<wiki, candidates, contributions, arbitration, syntheses, audit, log>>

(* A run dies with the audit it started. *)
RunDies(a) ==
  /\ audit[a].run = "waiting"
  /\ audit' = [audit EXCEPT ![a].run = "died",
                            ![a].at = IF @ = "reported" THEN @ ELSE "unreported"]
  /\ UNCHANGED <<wiki, candidates, synthesis, log>>

Crash == /\ crashes < CrashBound /\ crashes' = crashes + 1
         /\ ServerDies \/ SynthesisDies \/ \E a \in Audits : RunDies(a)

-----------------------------------------------------------------------------
(* The specification *)

Init ==
  /\ jobs = [j \in Jobs |-> [status |-> "none", candidate |-> None]]
  /\ worker = [j \in Jobs |-> "none"]
  /\ staged = {} /\ submitted = {} /\ decision = None
  /\ syn = NoRun /\ contributions = <<>> /\ arbitration = None /\ syntheses = 0
  /\ audit = [a \in Audits |-> [at |-> "none", run |-> "none", verdict |-> "none",
                                status |-> "failed"]]
  /\ log = [mps_completed |-> 0, synthesis_staged |-> 0, audit_scheduled |-> 0]
  /\ crashes = 0

Next == \/ \E j \in Jobs : _persist_new_job(j) \/ JobStep(j)
        \/ \E c \in staged : load_staged_candidates(c)
        \/ update_staged_candidate
        \/ \E c \in Configs : run_synthesis(c)
        \/ stage_synthesis_command \/ SynthesisStep
        \/ \E a \in Audits : \/ _maybe_schedule_consistency_audit(a) \/ AuditStep(a)
                            \/ _wait_for_background_consistency_audits(a)
        \/ Crash

Spec == Init /\ [][Next]_vars

(* The server runs the tasks it was given, and calls to models time out.   *)
Fairness == /\ \A j \in Jobs : WF_vars(JobStep(j))
            /\ \A a \in Audits : /\ WF_vars(AuditStep(a))
                                 /\ WF_vars(_wait_for_background_consistency_audits(a))
            /\ WF_vars(SynthesisStep)

FairSpec == Spec /\ Fairness

-----------------------------------------------------------------------------
(* Properties *)

(* A completed job names the one candidate it submitted, a failed one has  *)
(* submitted none, and none submits two, though workers die between the    *)
(* submission and the record and the operator decides candidates in the    *)
(* meantime; a synthesis never has two candidates pending, however often   *)
(* it is staged (run_wiki_job, compile, stage_synthesis_command).          *)
CandidatesTellTheirOrigin ==
  /\ \A j \in Jobs :
       /\ jobs[j] \in WikiJobRecord
       /\ jobs[j].candidate # None <=> jobs[j].status = "completed"
       /\ jobs[j].status = "completed" => From(j) = {jobs[j].candidate}
       /\ jobs[j].status = "failed" => From(j) = {}
       /\ Cardinality(From(j)) <= 1
  /\ \A c, d \in staged : c.origin = d.origin /\ c.status = "pending" /\ d.status = "pending"
                         => c = d

(* The arbitration on disk cites exactly one contribution of every         *)
(* participant and round of its configuration, in order; what it cites is  *)
(* what the files hold, and every contribution was shown just the previous *)
(* round of the same run, although earlier runs with other configurations  *)
(* failed half way or died and left files of the same names                *)
(* (run_synthesis, run_synthesis_round, persist_participant_artifact).     *)
ArbitrationIsGrounded ==
  arbitration # None =>
    LET c == arbitration.config
        n == Len(c.participants)
        cited == arbitration.cites
        key(a) == <<a.run, a.round, a.who>>
    IN /\ Len(cited) = c.rounds * n
       /\ \A r \in 1 .. c.rounds, m \in 1 .. n :
            LET a == cited[(r - 1) * n + m]
            IN /\ a.round = r /\ a.who = c.participants[m]
               /\ contributions[<<r, a.who>>] = a
               /\ a.saw = {key(cited[k]) : k \in {k \in DOMAIN cited : cited[k].round = r - 1}}

(* Background work ends where a reader can see it: a queued job is         *)
(* completed or failed, a scheduled audit has a report or could not load   *)
(* the task, the run that waits for it returns, and a synthesis command    *)
(* ends, unless a process died (run_wiki_job, run_consistency_audit,       *)
(* _wait_for_background_consistency_audits, run_synthesis).                *)
BackgroundWorkEnds ==
  /\ \A j \in Jobs : jobs[j].status = "queued" ~> \/ jobs[j].status \in {"completed", "failed"}
                                                 \/ crashes > 0
  /\ \A a \in Audits : audit[a].run = "waiting" ~>
       \/ audit[a].run = "returned" /\ audit[a].at \in {"reported", "unreported"}
       \/ crashes > 0
  /\ syn # NoRun ~> syn = NoRun
=============================================================================
