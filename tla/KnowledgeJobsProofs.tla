------------------------ MODULE KnowledgeJobsProofs ------------------------
(***************************************************************************)
(* Theorems about KnowledgeJobs: what the records of wiki jobs and the     *)
(* arbitration of a synthesis say of the work they stand for.              *)
(***************************************************************************)
EXTENDS KnowledgeJobs, DataInduction

-----------------------------------------------------------------------------
(* Jobs and their candidates *)

(* The one candidate a job may submit. *)
Draft(j) == [origin |-> j, nr |-> 0]

(* Until the worker submits, there is no candidate; while it records, there *)
(* is one; a worker that is gone may have died anywhere.                    *)
JobInv(j) ==
  /\ jobs[j].candidate = IF jobs[j].status = "completed" THEN Draft(j) ELSE None
  /\ From(j) \subseteq {Draft(j)}
  /\ worker[j] \in {"none", "waiting", "sources", "model", "submit"} => From(j) = {}
  /\ worker[j] = "record" => From(j) = {Draft(j)}
  /\ jobs[j].status = "completed" => From(j) = {Draft(j)}
  /\ jobs[j].status = "failed" => From(j) = {}
  /\ worker[j] # "gone" => jobs[j].status \in {"none", "queued", "running"}

(* At most one candidate of an origin is pending, and each was appended. *)
OnePending(S) ==
  \A c, d \in S : c.origin = d.origin /\ c.status = "pending" /\ d.status = "pending" => c = d
Appended(S) == \A c \in S : [origin |-> c.origin, nr |-> c.nr] \in submitted

(* The same of the candidates as the decision in flight has read them. *)
StagedInv ==
  /\ OnePending(staged) /\ Appended(staged)
  /\ decision # None => /\ OnePending(decision.seen) /\ Appended(decision.seen)
                        /\ decision.candidate \in decision.seen
                        /\ decision.candidate.status = "pending"

Drafts == {None} \cup [origin : Jobs, nr : {0}]
JobStatuses == {"none", "queued", "running", "completed", "failed"}
WorkerSteps == {"none", "waiting", "sources", "model", "submit", "record", "gone"}
JobFiles == [Jobs -> [status : JobStatuses, candidate : Drafts]]
JobsTyped == /\ jobs \in JobFiles
             /\ worker \in [Jobs -> WorkerSteps]
ArbitrationTyped == arbitration # None => arbitration.config \in Configs
RunTyped == syn.at \in {"round", "arbiter", "event"} => syn.config \in Configs

OriginInv == JobsTyped /\ ArbitrationTyped /\ RunTyped /\ StagedInv /\ \A j \in Jobs : JobInv(j)

(* Setting the status of a record leaves the rest as it was. *)
LEMMA SetStatus ==
  ASSUME jobs \in JobFiles, NEW j \in Jobs, NEW status \in JobStatuses,
         jobs' = [jobs EXCEPT ![j].status = status]
  PROVE  /\ jobs' \in JobFiles
         /\ jobs'[j].status = status /\ jobs'[j].candidate = jobs[j].candidate
         /\ \A k \in Jobs \ {j} : jobs'[k] = jobs[k]
  BY DEF JobFiles

(* A job other than the one that moves keeps what is said of it. *)
LEMMA JobKeeps ==
  ASSUME NEW j \in Jobs, JobInv(j), jobs'[j] = jobs[j], worker'[j] = worker[j],
         From(j)' = From(j)
  PROVE  JobInv(j)'
  BY DEF JobInv

(* What is said of the candidates is not affected by other writes. *)
LEMMA StagedKeeps ==
  ASSUME StagedInv, UNCHANGED candidates
  PROVE  StagedInv' /\ \A j : From(j)' = From(j)
  BY DEF StagedInv, OnePending, Appended, From, candidates

(* Submitting adds one candidate, and it is pending. *)
LEMMA SubmitKeeps ==
  ASSUME StagedInv, NEW origin, NEW nr, submit_staged_knowledge(origin, nr),
         \A c \in staged : ~(c.origin = origin /\ c.status = "pending")
  PROVE  /\ StagedInv'
         /\ From(origin)' = From(origin) \cup {[origin |-> origin, nr |-> nr]}
         /\ \A j : j # origin => From(j)' = From(j)
  <1>1. OnePending(staged)'
    BY DEF StagedInv, OnePending, submit_staged_knowledge
  <1>2. Appended(staged)'
    <2>. SUFFICES ASSUME NEW c \in staged' PROVE [origin |-> c.origin, nr |-> c.nr] \in submitted'
      BY DEF Appended
    <2>1. CASE c \in staged
      BY <2>1 DEF StagedInv, Appended, submit_staged_knowledge
    <2>2. CASE c = [origin |-> origin, nr |-> nr, status |-> "pending"]
      BY <2>2 DEF submit_staged_knowledge
    <2>. QED BY <2>1, <2>2 DEF submit_staged_knowledge
  <1>3. decision' # None => /\ OnePending(decision.seen)' /\ Appended(decision.seen)'
                            /\ decision'.candidate \in decision'.seen
                            /\ decision'.candidate.status = "pending"
    BY DEF StagedInv, OnePending, Appended, submit_staged_knowledge
  <1>4. /\ From(origin)' = From(origin) \cup {[origin |-> origin, nr |-> nr]}
        /\ \A j : j # origin => From(j)' = From(j)
    BY DEF From, submit_staged_knowledge
  <1>. QED BY <1>1, <1>2, <1>3, <1>4 DEF StagedInv

(* The steps of a job. *)
LEMMA JobSteps ==
  ASSUME OriginInv, NEW j \in Jobs, _persist_new_job(j) \/ JobStep(j)
  PROVE  OriginInv'
  <1>t. /\ jobs \in JobFiles
        /\ worker \in [Jobs -> WorkerSteps]
    BY DEF OriginInv, JobsTyped
  <1>j. JobInv(j) /\ \A k \in Jobs : JobInv(k)
    BY DEF OriginInv
  <1>s. StagedInv
    BY DEF OriginInv
  <1>r. ArbitrationTyped' /\ RunTyped'
    BY DEF OriginInv, ArbitrationTyped, RunTyped, JobStep, synthesis, _persist_new_job,
       run_wiki_job, compile_raises, build_wiki_compiler_source_pack, _draft_from_payload,
       compile, _write_job_record
  <1>1. ASSUME UNCHANGED candidates, JobInv(j)', worker' \in [Jobs -> WorkerSteps],
               jobs' \in JobFiles,
               \A k \in Jobs \ {j} : jobs'[k] = jobs[k] /\ worker'[k] = worker[k]
        PROVE  OriginInv'
    <2>1. StagedInv' /\ \A k : From(k)' = From(k)
      BY <1>1, <1>s, StagedKeeps
    <2>2. ASSUME NEW k \in Jobs PROVE JobInv(k)'
      BY <1>1, <1>j, <2>1, JobKeeps
    <2>. QED BY <1>1, <1>r, <2>1, <2>2 DEF OriginInv, JobsTyped
  <1>2. CASE _persist_new_job(j)
    <2>1. /\ UNCHANGED candidates /\ worker[j] = "none" /\ worker'[j] = "waiting"
          /\ jobs'[j].status = "queued" /\ jobs'[j].candidate = jobs[j].candidate
          /\ jobs' \in JobFiles /\ \A k \in Jobs \ {j} : jobs'[k] = jobs[k]
      BY <1>2, <1>t, SetStatus DEF step, WorkerSteps, JobStatuses, _persist_new_job
    <2>2. From(j)' = From(j)
      BY <1>s, <2>1, StagedKeeps
    <2>3. JobInv(j)'
      BY <1>j, <2>1, <2>2 DEF JobInv, Draft
    <2>4. worker' \in [Jobs -> WorkerSteps] /\ \A k \in Jobs \ {j} : worker'[k] = worker[k]
      BY <1>2, <1>t DEF step, WorkerSteps, _persist_new_job
    <2>. QED BY <1>1, <2>1, <2>3, <2>4
  <1>3. CASE run_wiki_job(j)
    <2>1. /\ UNCHANGED candidates /\ worker[j] = "waiting" /\ worker'[j] \in {"sources", "gone"}
          /\ jobs'[j].status \in {"running", jobs[j].status}
          /\ jobs'[j].candidate = jobs[j].candidate
      BY <1>3, <1>t, SetStatus DEF step, WorkerSteps, JobStatuses, run_wiki_job
    <2>2. From(j)' = From(j)
      BY <1>s, <2>1, StagedKeeps
    <2>3. JobInv(j)'
      BY <1>j, <2>1, <2>2 DEF JobInv, Draft
    <2>4. /\ jobs' \in JobFiles
          /\ \A k \in Jobs \ {j} : jobs'[k] = jobs[k]
      BY <1>3, <1>t, SetStatus DEF run_wiki_job, JobStatuses
    <2>5. worker' \in [Jobs -> WorkerSteps] /\ \A k \in Jobs \ {j} : worker'[k] = worker[k]
      BY <1>3, <1>t DEF step, WorkerSteps, run_wiki_job
    <2>. QED BY <1>1, <2>1, <2>3, <2>4, <2>5
  <1>4. CASE compile_raises(j)
    <2>1. /\ UNCHANGED candidates /\ worker[j] \in {"sources", "model"} /\ worker'[j] = "gone"
          /\ jobs' \in JobFiles /\ \A k \in Jobs \ {j} : jobs'[k] = jobs[k]
          /\ jobs'[j].status = "failed" /\ jobs'[j].candidate = jobs[j].candidate
      BY <1>4, <1>t, SetStatus DEF step, WorkerSteps, JobStatuses, compile_raises
    <2>2. From(j)' = From(j)
      BY <1>s, <2>1, StagedKeeps
    <2>3. JobInv(j)'
      BY <1>j, <2>1, <2>2 DEF JobInv, Draft
    <2>4. worker' \in [Jobs -> WorkerSteps] /\ \A k \in Jobs \ {j} : worker'[k] = worker[k]
      BY <1>4, <1>t DEF step, WorkerSteps, compile_raises
    <2>. QED BY <1>1, <2>1, <2>3, <2>4
  <1>5. CASE build_wiki_compiler_source_pack(j) \/ _draft_from_payload(j)
    <2>1. /\ UNCHANGED candidates /\ jobs' = jobs
          /\ worker[j] \in {"sources", "model"} /\ worker'[j] \in {"model", "submit"}
      BY <1>5, <1>t DEF step, WorkerSteps, build_wiki_compiler_source_pack, _draft_from_payload
    <2>2. From(j)' = From(j)
      BY <1>s, <2>1, StagedKeeps
    <2>3. JobInv(j)'
      BY <1>j, <2>1, <2>2 DEF JobInv, Draft
    <2>4. worker' \in [Jobs -> WorkerSteps] /\ \A k \in Jobs \ {j} : worker'[k] = worker[k]
      BY <1>5, <1>t DEF step, WorkerSteps, build_wiki_compiler_source_pack, _draft_from_payload
    <2>. QED BY <1>1, <1>t, <2>1, <2>3, <2>4
  <1>6. CASE compile(j)
    <2>1. /\ jobs' = jobs /\ submit_staged_knowledge(j, 0)
          /\ worker[j] = "submit" /\ worker'[j] = "record" /\ worker' \in [Jobs -> WorkerSteps]
          /\ \A k \in Jobs \ {j} : worker'[k] = worker[k]
      BY <1>6, <1>t DEF step, WorkerSteps, compile
    <2>2. From(j) = {}
      BY <1>j, <2>1 DEF JobInv
    <2>3. ASSUME NEW c \in staged PROVE c.origin # j
      <3>1. [origin |-> c.origin, nr |-> c.nr] \in submitted
        BY <1>s DEF StagedInv, Appended
      <3>. QED BY <2>2, <3>1 DEF From
    <2>4. /\ StagedInv' /\ From(j)' = {Draft(j)}
          /\ \A k : k # j => From(k)' = From(k)
      BY <1>s, <2>1, <2>2, <2>3, SubmitKeeps DEF Draft
    <2>5. JobInv(j)'
      BY <1>j, <2>1, <2>2, <2>4 DEF JobInv, Draft
    <2>6. ASSUME NEW k \in Jobs, k # j PROVE JobInv(k)'
      BY <1>j, <2>1, <2>4, <2>6, JobKeeps
    <2>. QED BY <1>t, <1>r, <2>1, <2>4, <2>5, <2>6 DEF OriginInv, JobsTyped
  <1>7. CASE _write_job_record(j)
    <2>1. /\ UNCHANGED candidates /\ worker[j] = "record" /\ worker'[j] = "gone"
      BY <1>7, <1>t DEF step, WorkerSteps, _write_job_record
    <2>2. From(j) = {Draft(j)} /\ From(j)' = From(j)
      BY <1>j, <1>s, <2>1, StagedKeeps DEF JobInv
    <2>3. (CHOOSE c \in From(j) : TRUE) = Draft(j)
      BY <2>2
    <2>4. jobs' = [jobs EXCEPT ![j] = [status |-> "completed", candidate |-> Draft(j)]]
      BY <1>7, <2>3 DEF _write_job_record
    <2>5. /\ jobs' \in JobFiles
          /\ \A k \in Jobs \ {j} : jobs'[k] = jobs[k]
          /\ jobs'[j].status = "completed" /\ jobs'[j].candidate = Draft(j)
      BY <1>t, <2>4 DEF Draft, JobFiles, Drafts, JobStatuses
    <2>6. JobInv(j)'
      BY <2>1, <2>2, <2>5 DEF JobInv, Draft
    <2>7. worker' \in [Jobs -> WorkerSteps] /\ \A k \in Jobs \ {j} : worker'[k] = worker[k]
      BY <1>7, <1>t DEF step, WorkerSteps, _write_job_record
    <2>. QED BY <1>1, <2>1, <2>5, <2>6, <2>7
  <1>. QED BY <1>2, <1>3, <1>4, <1>5, <1>6, <1>7 DEF JobStep

(* What does not touch jobs or candidates needs to keep the types only. *)
LEMMA OriginKeeps ==
  ASSUME OriginInv, UNCHANGED <<wiki, candidates>>, ArbitrationTyped', RunTyped'
  PROVE  OriginInv'
  <1>1. StagedInv' /\ \A j : From(j)' = From(j)
    BY StagedKeeps DEF OriginInv
  <1>2. ASSUME NEW j \in Jobs PROVE JobInv(j)'
    BY <1>1, JobKeeps DEF OriginInv, wiki
  <1>. QED BY <1>1, <1>2 DEF OriginInv, JobsTyped, wiki

(* The steps of a synthesis command. *)
LEMMA SynthesisTypes ==
  ASSUME OriginInv, (\E c \in Configs : run_synthesis(c)) \/ SynthesisStep
  PROVE  OriginInv'
  <1>t. (syn.at \in {"round", "arbiter", "event"} => syn.config \in Configs) /\ ArbitrationTyped
    BY DEF OriginInv, RunTyped
  <1>1. CASE \E c \in Configs : run_synthesis(c)
    <2>1. PICK c \in Configs : run_synthesis(c)
      BY <1>1
    <2>2. syn'.config = c /\ arbitration' = arbitration /\ UNCHANGED <<wiki, candidates>>
      BY <2>1 DEF run_synthesis, NoRun
    <2>. QED BY <1>t, <2>2, OriginKeeps DEF ArbitrationTyped, RunTyped
  <1>2. CASE persist_participant_artifact
    <2>1. /\ arbitration' = arbitration /\ UNCHANGED <<wiki, candidates>> /\ syn.at = "round"
          /\ syn' = [syn EXCEPT !.current = @ \cup {Contribution(Speaker)},
                                !.all = Append(@, Contribution(Speaker))]
      BY <1>2 DEF persist_participant_artifact
    <2>2. syn'.config = syn.config
      BY <2>1
    <2>. QED BY <1>t, <2>1, <2>2, OriginKeeps DEF ArbitrationTyped, RunTyped
  <1>3. CASE run_synthesis_round
    <2>1. arbitration' = arbitration /\ UNCHANGED <<wiki, candidates>> /\ syn.at = "round"
      BY <1>3 DEF run_synthesis_round
    <2>2. syn'.config = syn.config
      BY <1>3 DEF run_synthesis_round
    <2>. QED BY <1>t, <2>1, <2>2, OriginKeeps DEF ArbitrationTyped, RunTyped
  <1>4. CASE Arbitrate
    <2>1. /\ UNCHANGED <<wiki, candidates>> /\ syn.at = "arbiter" /\ syn'.config = syn.config
          /\ arbitration'.config = syn.config
      BY <1>4 DEF Arbitrate
    <2>. QED BY <1>t, <2>1, OriginKeeps DEF ArbitrationTyped, RunTyped
  <1>5. CASE _require_completed_executor_result \/ LogSynthesis \/ LogStaged
    <2>1. UNCHANGED <<wiki, candidates>> /\ syn'.at = "idle" /\ arbitration' = arbitration
      BY <1>5 DEF _require_completed_executor_result, LogSynthesis, LogStaged, NoRun
    <2>. QED BY <1>t, <2>1, OriginKeeps DEF ArbitrationTyped, RunTyped
  <1>. QED BY <1>1, <1>2, <1>3, <1>4, <1>5 DEF SynthesisStep

(* A synthesis is staged when none of its candidates is pending; its id is  *)
(* no job's.                                                                *)
LEMMA StageKeeps ==
  ASSUME OriginInv, stage_synthesis_command
  PROVE  OriginInv'
  <1>1. /\ submit_staged_knowledge(arbitration.config.id, syntheses)
        /\ \A c \in staged : ~(c.origin = arbitration.config.id /\ c.status = "pending")
        /\ arbitration # None /\ UNCHANGED <<wiki, arbitration>> /\ syn'.at = "staged"
    BY DEF stage_synthesis_command, NoRun
  <1>2. arbitration.config \in Configs
    BY <1>1 DEF OriginInv, ArbitrationTyped
  <1>3. arbitration.config.id \notin Jobs
    BY <1>2, JobsAssumption
  <1>4. StagedInv' /\ \A j \in Jobs : From(j)' = From(j)
    BY <1>1, <1>3, SubmitKeeps DEF OriginInv
  <1>5. ASSUME NEW j \in Jobs PROVE JobInv(j)'
    BY <1>1, <1>4, JobKeeps DEF OriginInv, wiki
  <1>. QED BY <1>1, <1>4, <1>5 DEF OriginInv, JobsTyped, wiki, ArbitrationTyped, RunTyped

(* The operator's decision rewrites what it has read; the candidates that   *)
(* were appended stay on record.                                            *)
LEMMA DecisionKeeps ==
  ASSUME OriginInv, (\E c \in staged : load_staged_candidates(c)) \/ update_staged_candidate
  PROVE  OriginInv'
  <1>1. UNCHANGED <<wiki, submitted, synthesis>>
    BY DEF load_staged_candidates, update_staged_candidate
  <1>2. StagedInv'
    <2>s. StagedInv
      BY DEF OriginInv
    <2>1. CASE \E c \in staged : load_staged_candidates(c)
      <3>1. PICK c \in staged : load_staged_candidates(c)
        BY <2>1
      <3>2. /\ staged' = staged /\ submitted' = submitted /\ c.status = "pending"
            /\ decision'.seen = staged /\ decision'.candidate = c
        BY <3>1 DEF load_staged_candidates
      <3>3. OnePending(staged)' /\ Appended(staged)'
        BY <2>s, <3>2 DEF StagedInv, OnePending, Appended
      <3>4. OnePending(decision.seen)' /\ Appended(decision.seen)'
        BY <2>s, <3>2 DEF StagedInv, OnePending, Appended
      <3>. QED BY <3>2, <3>3, <3>4 DEF StagedInv
    <2>2. CASE update_staged_candidate
      <3> DEFINE decided == [decision.candidate EXCEPT !.status = "decided"]
      <3>1. /\ decision # None /\ decision' = None /\ submitted' = submitted
            /\ staged' = (decision.seen \ {decision.candidate}) \cup {decided}
        BY <2>2 DEF update_staged_candidate
      <3>2. OnePending(decision.seen) /\ Appended(decision.seen)
            /\ decision.candidate \in decision.seen /\ decision.candidate.status = "pending"
        BY <2>s, <3>1 DEF StagedInv
      <3>3. decided.status # "pending" /\ [origin |-> decided.origin, nr |-> decided.nr] \in submitted
        <4>1. [origin |-> decision.candidate.origin, nr |-> decision.candidate.nr] \in submitted
          BY <3>2 DEF Appended
        <4>. QED BY <4>1
      <3> HIDE DEF decided
      <3>4. OnePending(staged)'
        BY <3>1, <3>2, <3>3 DEF OnePending
      <3>5. Appended(staged)'
        BY <3>1, <3>2, <3>3 DEF Appended
      <3>. QED BY <3>1, <3>4, <3>5 DEF StagedInv
    <2>. QED BY <2>1, <2>2
  <1>3. ASSUME NEW j \in Jobs PROVE JobInv(j)'
    BY <1>1, JobKeeps DEF OriginInv, wiki, From
  <1>. QED BY <1>1, <1>2, <1>3 DEF OriginInv, JobsTyped, wiki, synthesis, ArbitrationTyped, RunTyped

(* A server that dies takes its workers along; the files stay. *)
LEMMA ServerDiesKeeps ==
  ASSUME OriginInv, ServerDies
  PROVE  OriginInv'
  <1>1. /\ UNCHANGED <<jobs, staged, submitted, synthesis>> /\ decision' = None
        /\ worker' = [j \in Jobs |-> IF worker[j] = "none" THEN "none" ELSE "gone"]
    BY DEF ServerDies
  <1>2. StagedInv'
    BY <1>1 DEF OriginInv, StagedInv, OnePending, Appended
  <1>3. ASSUME NEW j \in Jobs PROVE JobInv(j)'
    <2>1. JobInv(j) /\ From(j)' = From(j) /\ worker'[j] = IF worker[j] = "none" THEN "none" ELSE "gone"
      BY <1>1 DEF OriginInv, From
    <2>. QED BY <1>1, <2>1 DEF JobInv, Draft
  <1>4. worker' \in [Jobs -> WorkerSteps]
    BY <1>1 DEF WorkerSteps
  <1>. QED BY <1>1, <1>2, <1>3, <1>4 DEF OriginInv, JobsTyped, synthesis, ArbitrationTyped, RunTyped

(* The audits write elsewhere. *)
LEMMA OriginNext ==
  ASSUME OriginInv, [Next]_vars
  PROVE  OriginInv'
  <1>1. CASE UNCHANGED vars
    BY <1>1, OriginKeeps DEF OriginInv, vars, wiki, candidates, ArbitrationTyped, RunTyped
  <1>2. ASSUME NEW j \in Jobs, _persist_new_job(j) \/ JobStep(j) PROVE OriginInv'
    BY <1>2, JobSteps
  <1>3. ASSUME NEW a \in Audits, \/ _maybe_schedule_consistency_audit(a) \/ AuditStep(a)
                                 \/ _wait_for_background_consistency_audits(a) \/ RunDies(a)
        PROVE  OriginInv'
    <2>1. UNCHANGED <<wiki, candidates, synthesis>>
      BY <1>3 DEF _maybe_schedule_consistency_audit, AuditStep, LoadAuditedState, AuditFails,
         run_consistency_audit, _wait_for_background_consistency_audits, RunDies
    <2>. QED BY <2>1, OriginKeeps DEF OriginInv, synthesis, ArbitrationTyped, RunTyped
  <1>4. CASE SynthesisDies
    <2>1. UNCHANGED <<wiki, candidates, arbitration>> /\ syn'.at = "idle"
      BY <1>4 DEF SynthesisDies, NoRun
    <2>. QED BY <2>1, OriginKeeps DEF OriginInv, ArbitrationTyped, RunTyped
  <1>. QED BY <1>1, <1>2, <1>3, <1>4, SynthesisTypes, StageKeeps, DecisionKeeps, ServerDiesKeeps
       DEF Next, Crash

(* A completed wiki job names the one candidate it submitted, a failed one  *)
(* has submitted none and none submits two, for any number of jobs,         *)
(* configurations and crashes; a synthesis never has two candidates pending *)
(* (run_wiki_job, compile, stage_synthesis_command).                        *)
THEOREM CandidatesAreTraced == Spec => []CandidatesTellTheirOrigin
  <1>1. Init => OriginInv
    BY DEF Init, OriginInv, JobsTyped, JobFiles, JobStatuses, Drafts, WorkerSteps, StagedInv,
       OnePending, Appended, ArbitrationTyped, RunTyped, NoRun, JobInv, From, Draft
  <1>2. OriginInv /\ [Next]_vars => OriginInv'
    BY OriginNext
  <1>3. OriginInv => CandidatesTellTheirOrigin
    <2>. SUFFICES ASSUME OriginInv PROVE CandidatesTellTheirOrigin
      OBVIOUS
    <2>1. ASSUME NEW j \in Jobs
          PROVE  /\ jobs[j] \in WikiJobRecord
                 /\ jobs[j].candidate # None <=> jobs[j].status = "completed"
                 /\ jobs[j].status = "completed" => From(j) = {jobs[j].candidate}
                 /\ jobs[j].status = "failed" => From(j) = {}
                 /\ Cardinality(From(j)) <= 1
      <3>1. JobInv(j) /\ jobs \in JobFiles
        BY DEF OriginInv, JobsTyped
      <3>2. Draft(j) # None
        BY JobsAssumption DEF Draft
      <3>3. jobs[j] \in WikiJobRecord
        BY <3>1 DEF WikiJobRecord, JobFiles, JobStatuses, Drafts
      <3>4. Cardinality(From(j)) <= 1
        <4>1. From(j) = {} \/ From(j) = {Draft(j)}
          BY <3>1 DEF JobInv
        <4>. QED BY <4>1, FS_EmptySet, FS_Singleton
      <3>. QED BY <3>1, <3>2, <3>3, <3>4 DEF JobInv
    <2>2. OnePending(staged)
      BY DEF OriginInv, StagedInv
    <2>. QED BY <2>1, <2>2 DEF CandidatesTellTheirOrigin, OnePending
  <1>. QED BY <1>1, <1>2, <1>3, PTL DEF Spec

-----------------------------------------------------------------------------
(* Synthesis and its arbitration *)

People == UNION {DOMAIN c.hint : c \in Configs}
NoteKeys == Nat \X Nat \X People
Notes == [run : Nat, round : Nat, who : People, saw : SUBSET NoteKeys]

NoteKey(a) == <<a.run, a.round, a.who>>
(* What the notes of a round show to the next one. *)
Shown(all, r) == {NoteKey(all[k]) : k \in {k \in DOMAIN all : all[k].round = r}}

Seats == Len(syn.config.participants)
Spoken == Cardinality(syn.current)

SynTyped ==
  /\ syn = [config |-> syn.config, round |-> syn.round, all |-> syn.all, prior |-> syn.prior,
            current |-> syn.current, at |-> syn.at]
  /\ syntheses \in Nat

(* The note of a seat in a round is in its place and on disk. *)
Noted(r, m) ==
  /\ (r - 1) * Seats + m \in DOMAIN syn.all
  /\ LET a == syn.all[(r - 1) * Seats + m]
     IN /\ a.round = r /\ a.who = syn.config.participants[m]
        /\ <<r, a.who>> \in DOMAIN contributions /\ contributions[<<r, a.who>>] = a
        /\ a.saw = Shown(syn.all, r - 1)

(* A run in its rounds or before its arbiter: the rounds before the current *)
(* one are complete, and of the current one the seats that have spoken.     *)
ValidRun == /\ syn.config \in Configs /\ _validate_config(syn.config)
            /\ syn.round \in 1 .. syn.config.rounds
AllNotes == /\ syn.all \in Seq(Notes) /\ Len(syn.all) = (syn.round - 1) * Seats + Spoken
            /\ \A i \in DOMAIN syn.all : syn.all[i].round <= syn.round
CurrentRound ==
  /\ IsFiniteSet(syn.current) /\ Spoken <= Seats
  /\ syn.current = {syn.all[i] : i \in {i \in DOMAIN syn.all : syn.all[i].round = syn.round}}
  /\ syn.prior = {syn.all[i] : i \in {i \in DOMAIN syn.all : syn.all[i].round = syn.round - 1}}
  /\ \A a \in syn.current : \E m \in 1 .. Spoken : a.who = syn.config.participants[m]
Written ==
  \A r \in 1 .. syn.config.rounds, m \in 1 .. Seats :
    r < syn.round \/ (r = syn.round /\ m <= Spoken) => Noted(r, m)
Arbiting == syn.at = "arbiter" => syn.round = syn.config.rounds /\ Spoken = Seats

(* ArbitrationIsGrounded of any arbitration and files. *)
Grounded(arb, files) ==
  arb # None =>
    /\ Len(arb.cites) = arb.config.rounds * Len(arb.config.participants)
    /\ \A r \in 1 .. arb.config.rounds, m \in 1 .. Len(arb.config.participants) :
         LET a == arb.cites[(r - 1) * Len(arb.config.participants) + m]
         IN /\ a.round = r /\ a.who = arb.config.participants[m]
            /\ files[<<r, a.who>>] = a
            /\ a.saw = Shown(arb.cites, r - 1)

SynthesisInv ==
  /\ SynTyped /\ ArbitrationIsGrounded
  /\ syn.at \in {"round", "arbiter"} =>
       arbitration = None /\ ValidRun /\ AllNotes /\ CurrentRound /\ Written /\ Arbiting

LEMMA GroundedForm ==
  /\ ArbitrationIsGrounded <=> Grounded(arbitration, contributions)
  /\ ArbitrationIsGrounded' <=> Grounded(arbitration', contributions')
  <1>1. ArbitrationIsGrounded <=> Grounded(arbitration, contributions)
    BY DEF ArbitrationIsGrounded, Grounded, Shown, NoteKey
  <1>2. ArbitrationIsGrounded' <=> Grounded(arbitration', contributions')
    BY DEF ArbitrationIsGrounded, Grounded, Shown, NoteKey
  <1>. QED BY <1>1, <1>2

(* A valid configuration names its participants apart, none of them the     *)
(* arbiter.                                                                 *)
LEMMA ConfigFacts ==
  ASSUME ValidRun
  PROVE  /\ Seats \in Nat \ {0} /\ syn.config.rounds \in Nat /\ syn.round \in Nat \ {0}
         /\ syn.round <= syn.config.rounds
         /\ DOMAIN syn.config.participants = 1 .. Seats
         /\ \A m \in 1 .. Seats : syn.config.participants[m] \in People
         /\ \A m \in 1 .. Seats : syn.config.participants[m] # syn.config.arbiter
         /\ \A l, m \in 1 .. Seats :
              syn.config.participants[l] = syn.config.participants[m] => l = m
  <1>1. syn.config \in Configs /\ syn.config.rounds \in 1 .. RoundLimit /\ syn.config.participants # <<>>
    BY DEF ValidRun, _validate_config
  <1>2. syn.config.participants \in Seq(DOMAIN syn.config.hint) /\ syn.config.rounds \in Int
    BY <1>1, JobsAssumption
  <1>3. /\ Seats \in Nat \ {0} /\ DOMAIN syn.config.participants = 1 .. Seats
        /\ \A m \in 1 .. Seats : syn.config.participants[m] \in DOMAIN syn.config.hint
    BY <1>1, <1>2 DEF Seats
  <1>4. \A m \in 1 .. Seats : syn.config.participants[m] \in People
    BY <1>1, <1>3 DEF People
  <1>5. IsInjective(syn.config.participants) /\ syn.config.arbiter \notin Range(syn.config.participants)
    BY DEF ValidRun, _validate_config, _validate_participant_ids, Participants
  <1>6. \A l, m \in 1 .. Seats :
          syn.config.participants[l] = syn.config.participants[m] => l = m
    BY <1>3, <1>5 DEF IsInjective
  <1>7. \A m \in 1 .. Seats : syn.config.participants[m] # syn.config.arbiter
    BY <1>3, <1>5 DEF Range
  <1>8. syn.round \in 1 .. syn.config.rounds
    BY DEF ValidRun
  <1>. QED BY <1>1, <1>2, <1>3, <1>4, <1>6, <1>7, <1>8, JobsAssumption

(* The next to speak. *)
LEMMA SpeakerFacts ==
  ASSUME ValidRun, CurrentRound
  PROVE  /\ Spoken \in Nat /\ Spoken <= Seats
         /\ Speaker # syn.config.arbiter <=> Spoken < Seats
         /\ Spoken < Seats => Speaker = syn.config.participants[Spoken + 1]
  <1>1. Spoken \in Nat /\ Spoken <= Seats
    BY FS_CardinalityType DEF CurrentRound, Spoken
  <1>2. Speaker = IF Spoken < Seats THEN syn.config.participants[Spoken + 1] ELSE syn.config.arbiter
    BY DEF Speaker, Spoken, Seats
  <1>. QED BY <1>1, <1>2, ConfigFacts

(* A participant's note goes to its place, and to a file of its own. *)
LEMMA PersistKeeps ==
  ASSUME SynthesisInv, persist_participant_artifact
  PROVE  SynthesisInv'
  <1> DEFINE a == Contribution(Speaker)
             n == Seats
             k == Spoken
             c == syn.config
  <1>i. arbitration = None /\ ValidRun /\ AllNotes /\ CurrentRound /\ Written
    BY DEF SynthesisInv, persist_participant_artifact
  <1>c. /\ n \in Nat \ {0} /\ c.rounds \in Nat /\ syn.round \in Nat \ {0} /\ syn.round <= c.rounds
        /\ \A m \in 1 .. n : c.participants[m] \in People
        /\ \A l, m \in 1 .. n : c.participants[l] = c.participants[m] => l = m
    BY <1>i, ConfigFacts
  <1>k. k \in Nat /\ k < n /\ Speaker = c.participants[k + 1]
    BY <1>i, SpeakerFacts DEF persist_participant_artifact
  <1>1. /\ syn'.config = c /\ syn'.round = syn.round /\ syn'.prior = syn.prior
        /\ syn'.current = syn.current \cup {a} /\ syn'.all = Append(syn.all, a)
        /\ syn'.at = "round" /\ syn.at = "round"
        /\ syn' = [config |-> syn'.config, round |-> syn'.round, all |-> syn'.all,
                   prior |-> syn'.prior, current |-> syn'.current, at |-> syn'.at]
    <2>1. syn = [config |-> syn.config, round |-> syn.round, all |-> syn.all, prior |-> syn.prior,
                 current |-> syn.current, at |-> syn.at]
      BY DEF SynthesisInv, SynTyped
    <2>2. syn' = [syn EXCEPT !.current = @ \cup {a}, !.all = Append(@, a)] /\ syn.at = "round"
      BY DEF persist_participant_artifact
    <2> HIDE DEF a
    <2>. QED BY <2>1, <2>2
  <1>2. /\ arbitration' = None /\ syntheses' = syntheses
        /\ contributions' = [x \in DOMAIN contributions \cup {<<syn.round, Speaker>>} |->
                               IF x = <<syn.round, Speaker>> THEN a ELSE contributions[x]]
    BY <1>i DEF persist_participant_artifact
  <1>3. SynTyped'
    BY <1>1, <1>2 DEF SynTyped, SynthesisInv
  <1>4. /\ a.round = syn.round /\ a.who = Speaker
        /\ a.saw = {<<b.run, b.round, b.who>> : b \in syn.prior}
    BY DEF Contribution
  <1>5. a.saw = Shown(syn.all, syn.round - 1)
    BY <1>i, <1>4 DEF CurrentRound, Shown, NoteKey
  <1>6. /\ syn.all \in Seq(Notes) /\ Len(syn.all) = (syn.round - 1) * n + k
        /\ \A i \in DOMAIN syn.all : syn.all[i].round <= syn.round
    BY <1>i DEF AllNotes
  <1>7. a \in Notes
    <2>1. a.saw \subseteq NoteKeys
      <3>1. syn.prior \subseteq Notes
        BY <1>i, <1>6 DEF CurrentRound
      <3>. QED BY <1>4, <3>1 DEF Notes, NoteKeys
    <2>2. a = [run |-> syntheses, round |-> syn.round, who |-> Speaker, saw |-> a.saw]
      BY DEF Contribution
    <2>3. syntheses \in Nat /\ Speaker \in People
      BY <1>c, <1>k DEF SynthesisInv, SynTyped
    <2> HIDE DEF a
    <2>. QED BY <1>c, <2>1, <2>2, <2>3 DEF Notes
  <1> HIDE DEF a
  <1>8. a \notin syn.current
    <2>. SUFFICES ASSUME a \in syn.current PROVE FALSE
      OBVIOUS
    <2>1. PICK m \in 1 .. k : a.who = c.participants[m]
      BY <1>i DEF CurrentRound
    <2>. QED BY <1>4, <1>k, <1>c, <2>1
  <1>9. IsFiniteSet(syn'.current) /\ Spoken' = k + 1
    <2>1. IsFiniteSet(syn.current)
      BY <1>i DEF CurrentRound
    <2>. QED BY <1>1, <1>8, <2>1, FS_AddElement DEF Spoken
  <1>10. Seats' = n
    BY <1>1 DEF Seats
  <1>11. /\ syn'.all \in Seq(Notes) /\ Len(syn'.all) = Len(syn.all) + 1
         /\ DOMAIN syn'.all = DOMAIN syn.all \cup {Len(syn.all) + 1}
         /\ Len(syn.all) + 1 \notin DOMAIN syn.all
         /\ syn'.all[Len(syn.all) + 1] = a
         /\ \A i \in DOMAIN syn.all : syn'.all[i] = syn.all[i]
    BY <1>1, <1>6, <1>7
  <1>12. AllNotes'
    <2>1. Len(syn'.all) = (syn'.round - 1) * Seats' + Spoken'
      BY <1>1, <1>c, <1>k, <1>6, <1>9, <1>10, <1>11
    <2>2. \A i \in DOMAIN syn'.all : syn'.all[i].round <= syn'.round
      BY <1>1, <1>4, <1>c, <1>6, <1>11
    <2>. QED BY <1>11, <2>1, <2>2 DEF AllNotes
  <1>13. CurrentRound'
    <2>1. syn'.current = {syn'.all[i] : i \in {i \in DOMAIN syn'.all : syn'.all[i].round = syn'.round}}
      <3>1. syn.current = {syn.all[i] : i \in {i \in DOMAIN syn.all : syn.all[i].round = syn.round}}
        BY <1>i DEF CurrentRound
      <3>. QED BY <1>1, <1>4, <1>11, <3>1
    <2>2. syn'.prior = {syn'.all[i] : i \in {i \in DOMAIN syn'.all : syn'.all[i].round = syn'.round - 1}}
      <3>1. syn.prior = {syn.all[i] : i \in {i \in DOMAIN syn.all : syn.all[i].round = syn.round - 1}}
        BY <1>i DEF CurrentRound
      <3>2. a.round # syn.round - 1
        BY <1>4, <1>c
      <3>. QED BY <1>1, <1>11, <3>1, <3>2
    <2>3. \A b \in syn'.current : \E m \in 1 .. Spoken' : b.who = syn'.config.participants[m]
      <3>. SUFFICES ASSUME NEW b \in syn'.current
                    PROVE  \E m \in 1 .. k + 1 : b.who = c.participants[m]
        BY <1>1, <1>9
      <3>1. CASE b = a
        BY <1>4, <1>k, <3>1
      <3>2. CASE b \in syn.current
        <4>1. PICK m \in 1 .. k : b.who = c.participants[m]
          BY <1>i, <3>2 DEF CurrentRound
        <4>. QED BY <1>k, <4>1
      <3>. QED BY <1>1, <3>1, <3>2
    <2>. QED BY <1>9, <1>10, <1>k, <1>c, <2>1, <2>2, <2>3 DEF CurrentRound
  <1>14. Written'
    <2>. SUFFICES ASSUME NEW r \in 1 .. c.rounds, NEW m \in 1 .. n,
                         r < syn.round \/ (r = syn.round /\ m <= k + 1)
                  PROVE  Noted(r, m)'
      BY <1>1, <1>9, <1>10 DEF Written
    <2>s. Shown(syn'.all, r - 1) = Shown(syn.all, r - 1)
      <3>1. a.round # r - 1
        BY <1>4, <1>c
      <3>. QED BY <1>11, <3>1 DEF Shown
    <2>d. /\ DOMAIN contributions' = DOMAIN contributions \cup {<<syn.round, Speaker>>}
          /\ contributions'[<<syn.round, Speaker>>] = a
          /\ \A x \in DOMAIN contributions : x # <<syn.round, Speaker>> =>
               contributions'[x] = contributions[x]
      BY <1>2
    <2>1. CASE r = syn.round /\ m = k + 1
      <3>1. (r - 1) * n + m = Len(syn.all) + 1
        BY <1>6, <1>c, <1>k, <2>1
      <3>2. syn'.all[(r - 1) * n + m] = a /\ (r - 1) * n + m \in DOMAIN syn'.all
        BY <1>11, <3>1
      <3>3. a.round = r /\ a.who = c.participants[m]
        BY <1>4, <1>k, <2>1
      <3>4. <<r, a.who>> \in DOMAIN contributions' /\ contributions'[<<r, a.who>>] = a
        BY <1>4, <2>1, <2>d
      <3>5. a.saw = Shown(syn'.all, r - 1)
        BY <1>5, <2>1, <2>s
      <3>. QED BY <1>1, <1>10, <3>2, <3>3, <3>4, <3>5 DEF Noted
    <2>2. CASE r < syn.round \/ (r = syn.round /\ m <= k)
      <3> DEFINE b == syn.all[(r - 1) * n + m]
      <3>1. /\ (r - 1) * n + m \in DOMAIN syn.all
            /\ b.round = r /\ b.who = c.participants[m]
            /\ <<r, b.who>> \in DOMAIN contributions /\ contributions[<<r, b.who>>] = b
            /\ b.saw = Shown(syn.all, r - 1)
        BY <1>i, <2>2 DEF Written, Noted
      <3>2. (r - 1) * n + m \in DOMAIN syn'.all /\ syn'.all[(r - 1) * n + m] = b
        BY <1>11, <3>1
      <3> HIDE DEF b
      <3>3. <<r, b.who>> # <<syn.round, Speaker>>
        BY <1>c, <1>k, <2>2, <3>1
      <3>4. <<r, b.who>> \in DOMAIN contributions' /\ contributions'[<<r, b.who>>] = b
        BY <2>d, <3>1, <3>3
      <3>. QED BY <1>1, <1>10, <2>s, <3>1, <3>2, <3>4 DEF Noted
    <2>. QED BY <1>k, <2>1, <2>2
  <1>15. ValidRun'
    BY <1>1, <1>i DEF ValidRun, _validate_config, _validate_participant_ids, Participants
  <1>16. ArbitrationIsGrounded' /\ Arbiting'
    BY <1>1, <1>2 DEF ArbitrationIsGrounded, Arbiting
  <1>. QED BY <1>2, <1>3, <1>12, <1>13, <1>14, <1>15, <1>16 DEF SynthesisInv

(* A complete round is what the next one is shown. *)
LEMMA RoundKeeps ==
  ASSUME SynthesisInv, run_synthesis_round
  PROVE  SynthesisInv'
  <1> DEFINE n == Seats
             c == syn.config
  <1>i. arbitration = None /\ ValidRun /\ AllNotes /\ CurrentRound /\ Written
    BY DEF SynthesisInv, run_synthesis_round
  <1>c. /\ n \in Nat \ {0} /\ c.rounds \in Nat /\ syn.round \in Nat \ {0} /\ syn.round <= c.rounds
    BY <1>i, ConfigFacts
  <1>k. Spoken = n
    BY <1>c, <1>i, SpeakerFacts DEF run_synthesis_round
  <1>t. syn = [config |-> syn.config, round |-> syn.round, all |-> syn.all, prior |-> syn.prior,
               current |-> syn.current, at |-> syn.at]
    BY DEF SynthesisInv, SynTyped
  <1>1. arbitration' = None /\ UNCHANGED <<contributions, syntheses>>
    BY <1>i DEF run_synthesis_round
  <1>2. ArbitrationIsGrounded'
    BY <1>1 DEF ArbitrationIsGrounded
  <1>3. CASE syn.round < c.rounds
    <2>1. /\ syn'.config = c /\ syn'.round = syn.round + 1 /\ syn'.all = syn.all
          /\ syn'.prior = syn.current /\ syn'.current = {} /\ syn'.at = "round"
          /\ syn' = [config |-> syn'.config, round |-> syn'.round, all |-> syn'.all,
                     prior |-> syn'.prior, current |-> syn'.current, at |-> syn'.at]
      <3>1. /\ syn' = [syn EXCEPT !.round = @ + 1, !.prior = syn.current, !.current = {}]
            /\ syn.at = "round"
        BY <1>3 DEF run_synthesis_round
      <3>. QED BY <1>t, <3>1
    <2>2. Seats' = n /\ Spoken' = 0 /\ IsFiniteSet(syn'.current)
      BY <2>1, FS_EmptySet DEF Seats, Spoken
    <2>3. SynTyped' /\ ValidRun' /\ Arbiting'
      <3>1. SynTyped'
        BY <1>1, <2>1 DEF SynTyped, SynthesisInv
      <3>2. ValidRun'
        BY <1>3, <1>c, <1>i, <2>1 DEF ValidRun, _validate_config, _validate_participant_ids, Participants
      <3>. QED BY <2>1, <3>1, <3>2 DEF Arbiting
    <2>4. AllNotes'
      <3>1. /\ syn.all \in Seq(Notes) /\ Len(syn.all) = (syn.round - 1) * n + n
            /\ \A i \in DOMAIN syn.all : syn.all[i].round <= syn.round
        BY <1>i, <1>k DEF AllNotes
      <3>2. Len(syn.all) = (syn.round + 1 - 1) * n + 0
        BY <1>c, <3>1
      <3>3. \A i \in DOMAIN syn.all : syn.all[i].round <= syn.round + 1
        <4>1. \A i \in DOMAIN syn.all : syn.all[i].round \in Nat
          <5>1. \A i \in DOMAIN syn.all : syn.all[i] \in Notes
            BY <3>1
          <5>. QED BY <5>1 DEF Notes
        <4>. QED BY <1>c, <3>1, <4>1
      <3>4. Len(syn'.all) = (syn'.round - 1) * Seats' + Spoken'
        <4>1. syn'.round - 1 = syn.round /\ (syn.round + 1 - 1) * n + 0 = syn.round * n
          BY <1>c, <2>1
        <4>2. (syn'.round - 1) * Seats' + Spoken' = syn.round * n
          BY <1>c, <2>2, <4>1
        <4>. QED BY <2>1, <3>2, <4>1, <4>2
      <3>. QED BY <2>1, <3>1, <3>3, <3>4 DEF AllNotes
    <2>5. CurrentRound'
      <3>1. \A i \in DOMAIN syn.all : syn.all[i].round # syn.round + 1
        <4>1. /\ syn.all \in Seq(Notes)
              /\ \A i \in DOMAIN syn.all : syn.all[i].round <= syn.round
          BY <1>i DEF AllNotes
        <4>2. \A i \in DOMAIN syn.all : syn.all[i].round \in Nat
          <5>1. \A i \in DOMAIN syn.all : syn.all[i] \in Notes
            BY <4>1
          <5>. QED BY <5>1 DEF Notes
        <4>. QED BY <1>c, <4>1, <4>2
      <3>2. syn'.current = {syn'.all[i] : i \in {i \in DOMAIN syn'.all : syn'.all[i].round = syn'.round}}
        BY <2>1, <3>1
      <3>3. syn'.prior = {syn'.all[i] : i \in {i \in DOMAIN syn'.all : syn'.all[i].round = syn'.round - 1}}
        <4>1. syn.current = {syn.all[i] : i \in {i \in DOMAIN syn.all : syn.all[i].round = syn.round}}
          BY <1>i DEF CurrentRound
        <4>2. syn'.round - 1 = syn.round
          BY <1>c, <2>1
        <4>. QED BY <2>1, <4>1, <4>2
      <3>. QED BY <1>c, <2>1, <2>2, <3>2, <3>3 DEF CurrentRound
    <2>6. Written'
      <3>. SUFFICES ASSUME NEW r \in 1 .. c.rounds, NEW m \in 1 .. n,
                           r < syn.round + 1 \/ (r = syn.round + 1 /\ m <= 0)
                    PROVE  Noted(r, m)'
        BY <2>1, <2>2 DEF Written
      <3>1. Noted(r, m)
        BY <1>c, <1>i, <1>k DEF Written
      <3>. QED BY <1>1, <2>1, <2>2, <3>1 DEF Noted
    <2>. QED BY <1>1, <1>2, <2>3, <2>4, <2>5, <2>6 DEF SynthesisInv
  <1>4. CASE ~(syn.round < c.rounds)
    <2>1. /\ syn'.config = c /\ syn'.round = syn.round /\ syn'.all = syn.all
          /\ syn'.prior = syn.prior /\ syn'.current = syn.current
          /\ syn' = [config |-> syn'.config, round |-> syn'.round, all |-> syn'.all,
                     prior |-> syn'.prior, current |-> syn'.current, at |-> syn'.at]
      <3>1. syn' = [syn EXCEPT !.at = "arbiter"]
        BY <1>4 DEF run_synthesis_round
      <3>. QED BY <1>t, <3>1
    <2>2. Seats' = n /\ Spoken' = Spoken
      BY <2>1 DEF Seats, Spoken
    <2>3. SynTyped' /\ ValidRun' /\ Arbiting'
      <3>1. SynTyped'
        BY <1>1, <2>1 DEF SynTyped, SynthesisInv
      <3>2. ValidRun'
        BY <1>i, <2>1 DEF ValidRun, _validate_config, _validate_participant_ids, Participants
      <3>. QED BY <1>4, <1>c, <1>k, <2>1, <2>2, <3>1, <3>2 DEF Arbiting
    <2>4. AllNotes' /\ CurrentRound'
      BY <1>i, <2>1, <2>2 DEF AllNotes, CurrentRound
    <2>5. Written'
      <3>. SUFFICES ASSUME NEW r \in 1 .. c.rounds, NEW m \in 1 .. n,
                           r < syn.round \/ (r = syn.round /\ m <= Spoken)
                    PROVE  Noted(r, m)'
        BY <2>1, <2>2 DEF Written
      <3>1. Noted(r, m)
        BY <1>i DEF Written
      <3>. QED BY <1>1, <2>1, <2>2, <3>1 DEF Noted
    <2>. QED BY <1>1, <1>2, <2>3, <2>4, <2>5 DEF SynthesisInv
  <1>. QED BY <1>3, <1>4

(* The arbiter cites every note of the run. *)
LEMMA ArbitrateKeeps ==
  ASSUME SynthesisInv, Arbitrate
  PROVE  SynthesisInv'
  <1> DEFINE n == Seats
             c == syn.config
  <1>i. /\ ValidRun /\ AllNotes /\ CurrentRound /\ Written
        /\ syn.round = c.rounds /\ Spoken = n
    BY DEF SynthesisInv, Arbitrate, Arbiting
  <1>c. n \in Nat \ {0} /\ c.rounds \in Nat
    BY <1>i, ConfigFacts
  <1>1. /\ arbitration'.config = c /\ arbitration'.cites = syn.all
        /\ UNCHANGED <<contributions, syntheses>>
    BY DEF Arbitrate
  <1>2. /\ syn'.at = "event"
        /\ syn' = [config |-> syn'.config, round |-> syn'.round, all |-> syn'.all,
                   prior |-> syn'.prior, current |-> syn'.current, at |-> syn'.at]
    <2>1. syn = [config |-> syn.config, round |-> syn.round, all |-> syn.all, prior |-> syn.prior,
                 current |-> syn.current, at |-> syn.at]
      BY DEF SynthesisInv, SynTyped
    <2>2. syn' = [syn EXCEPT !.at = "event"]
      BY DEF Arbitrate
    <2>. QED BY <2>1, <2>2
  <1>3. Len(syn.all) = c.rounds * n
    <2>1. Len(syn.all) = (c.rounds - 1) * n + n
      BY <1>i DEF AllNotes
    <2>. QED BY <1>c, <2>1
  <1>4. ASSUME NEW r \in 1 .. c.rounds, NEW m \in 1 .. n
        PROVE  LET a == syn.all[(r - 1) * n + m]
               IN /\ a.round = r /\ a.who = c.participants[m]
                  /\ contributions[<<r, a.who>>] = a /\ a.saw = Shown(syn.all, r - 1)
    <2>1. Noted(r, m)
      BY <1>c, <1>i DEF Written
    <2>. QED BY <2>1 DEF Noted
  <1>5. ArbitrationIsGrounded'
    <2>1. Grounded(arbitration', contributions')
      <3>1. Len(arbitration'.config.participants) = n
        BY <1>1 DEF Seats
      <3>. QED BY <1>1, <1>3, <1>4, <3>1 DEF Grounded
    <2>. QED BY <2>1, GroundedForm
  <1>. QED BY <1>1, <1>2, <1>5 DEF SynthesisInv, SynTyped

(* The other steps do not touch what a run has written. *)
LEMMA SynthesisNext ==
  ASSUME SynthesisInv, [Next]_vars
  PROVE  SynthesisInv'
  <1>1. ASSUME UNCHANGED <<contributions, arbitration>>, SynTyped',
               syn'.at \notin {"round", "arbiter"}
        PROVE  SynthesisInv'
    BY <1>1, GroundedForm DEF SynthesisInv
  <1>n. ASSUME syn' = NoRun, UNCHANGED <<contributions, arbitration, syntheses>>
        PROVE  SynthesisInv'
    <2>1. SynTyped' /\ syn'.at = "idle"
      BY <1>n DEF SynTyped, SynthesisInv, NoRun
    <2>. QED BY <1>1, <1>n, <2>1
  <1>2. CASE UNCHANGED synthesis
    <2>1. UNCHANGED <<syn, contributions, arbitration, syntheses>>
      BY <1>2 DEF synthesis
    <2>2. SynTyped' /\ ArbitrationIsGrounded'
      BY <2>1, GroundedForm DEF SynthesisInv, SynTyped
    <2>3. Seats' = Seats /\ Spoken' = Spoken
      BY <2>1 DEF Seats, Spoken
    <2>4. ValidRun' = ValidRun /\ Arbiting' = Arbiting
      BY <2>1, <2>3 DEF ValidRun, Arbiting
    <2>5. AllNotes' = AllNotes /\ CurrentRound' = CurrentRound
      BY <2>1, <2>3 DEF AllNotes, CurrentRound
    <2>6. ASSUME NEW r, NEW m, Noted(r, m) PROVE Noted(r, m)'
      BY <2>1, <2>3, <2>6 DEF Noted
    <2>7. Written => Written'
      BY <2>1, <2>3, <2>6 DEF Written
    <2>. QED BY <2>1, <2>2, <2>4, <2>5, <2>7 DEF SynthesisInv
  <1>3. ASSUME NEW c \in Configs, run_synthesis(c) PROVE SynthesisInv'
    <2>1. /\ arbitration = None /\ UNCHANGED <<arbitration, contributions>> /\ _validate_config(c)
          /\ syntheses' = syntheses + 1
          /\ syn' = [config |-> c, round |-> 1, all |-> <<>>, prior |-> {}, current |-> {},
                     at |-> "round"]
      BY <1>3 DEF run_synthesis, NoRun
    <2>2. SynTyped'
      BY <2>1 DEF SynthesisInv, SynTyped
    <2>3. ValidRun'
      <3>1. c.rounds \in 1 .. RoundLimit
        BY <2>1 DEF _validate_config
      <3>. QED BY <2>1, <3>1, JobsAssumption DEF ValidRun, _validate_config, _validate_participant_ids, Participants
    <2>4. Spoken' = 0 /\ IsFiniteSet(syn'.current) /\ Seats' \in Nat
      <3>1. Len(c.participants) \in Nat
        BY JobsAssumption
      <3>. QED BY <2>1, <3>1, FS_EmptySet DEF Spoken, Seats
    <2>5. AllNotes'
      <3>1. syn'.all \in Seq(Notes) /\ Len(syn'.all) = 0 /\ DOMAIN syn'.all = {}
        BY <2>1
      <3>2. syn'.round - 1 = 0
        BY <2>1
      <3>3. (syn'.round - 1) * Seats' + Spoken' = 0
        BY <2>4, <3>2
      <3>. QED BY <3>1, <3>2, <3>3 DEF AllNotes
    <2>6. CurrentRound'
      BY <2>1, <2>4 DEF CurrentRound
    <2>7. Written'
      BY <2>1, <2>4 DEF Written
    <2>8. ArbitrationIsGrounded' /\ Arbiting'
      BY <2>1 DEF ArbitrationIsGrounded, Arbiting
    <2>. QED BY <2>1, <2>2, <2>3, <2>5, <2>6, <2>7, <2>8 DEF SynthesisInv
  <1>4. CASE stage_synthesis_command
    <2>1. /\ UNCHANGED <<contributions, arbitration>> /\ syntheses' = syntheses + 1
          /\ syn' = [NoRun EXCEPT !.at = "staged"]
      BY <1>4 DEF stage_synthesis_command
    <2>2. syn' = [config |-> None, round |-> 0, all |-> <<>>, prior |-> {}, current |-> {},
                  at |-> "staged"]
      BY <2>1 DEF NoRun
    <2>3. SynTyped' /\ syn'.at = "staged"
      <3>1. syntheses' \in Nat
        BY <2>1 DEF SynthesisInv, SynTyped
      <3>. QED BY <2>2, <3>1 DEF SynTyped
    <2>. QED BY <1>1, <2>1, <2>3
  <1>5. CASE SynthesisStep
    <2>1. CASE _require_completed_executor_result \/ LogSynthesis \/ LogStaged
      BY <1>n, <2>1 DEF _require_completed_executor_result, LogSynthesis, LogStaged
    <2>. QED BY <1>5, <2>1, PersistKeeps, RoundKeeps, ArbitrateKeeps DEF SynthesisStep
  <1>6. CASE SynthesisDies
    BY <1>n, <1>6 DEF SynthesisDies
  <1>7. ASSUME NEW j \in Jobs, _persist_new_job(j) \/ JobStep(j) PROVE UNCHANGED synthesis
    BY <1>7 DEF _persist_new_job, JobStep, run_wiki_job, compile_raises,
       build_wiki_compiler_source_pack, _draft_from_payload, compile, _write_job_record
  <1>8. ASSUME NEW a \in Audits, \/ _maybe_schedule_consistency_audit(a) \/ AuditStep(a)
                                 \/ _wait_for_background_consistency_audits(a) \/ RunDies(a)
        PROVE  UNCHANGED synthesis
    BY <1>8 DEF _maybe_schedule_consistency_audit, AuditStep, LoadAuditedState, AuditFails,
       run_consistency_audit, _wait_for_background_consistency_audits, RunDies
  <1>9. CASE (\E c \in staged : load_staged_candidates(c)) \/ update_staged_candidate \/ ServerDies
    BY <1>2, <1>9 DEF load_staged_candidates, update_staged_candidate, ServerDies
  <1>10. CASE UNCHANGED vars
    BY <1>2, <1>10 DEF vars, synthesis
  <1>. QED BY <1>2, <1>3, <1>4, <1>5, <1>6, <1>7, <1>8, <1>9, <1>10 DEF Next, Crash

(* The arbitration on disk cites every participant of every round of its    *)
(* configuration exactly once and in order, what it cites is what the files *)
(* hold, and each contribution was shown just the round before it in the    *)
(* same run: for any configurations, and whatever earlier runs left behind  *)
(* (run_synthesis, persist_participant_artifact, run_synthesis_round).      *)
THEOREM ArbitrationIsSound == Spec => []ArbitrationIsGrounded
  <1>1. Init => SynthesisInv
    BY DEF Init, SynthesisInv, SynTyped, NoRun, ArbitrationIsGrounded
  <1>2. SynthesisInv /\ [Next]_vars => SynthesisInv'
    BY SynthesisNext
  <1>3. SynthesisInv => ArbitrationIsGrounded
    BY DEF SynthesisInv
  <1>. QED BY <1>1, <1>2, <1>3, PTL DEF Spec

=============================================================================
