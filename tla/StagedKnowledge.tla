-------------------------- MODULE StagedKnowledge --------------------------
(***************************************************************************)
(* From staged candidates to canonical knowledge: the operator promotes or *)
(* rejects candidates one command at a time, while wiki jobs, ingestion    *)
(* and synthesis append new ones to the same file in the background.       *)
(*                                                                         *)
(* A promotion is a series of writes without a transaction.  A step is     *)
(* what happens between two of them; the process may stop in between.      *)
(* The canonical record of a candidate, and the wiki entry of a candidate  *)
(* without a source object, are named by the candidate ("canonical-<id>"). *)
(***************************************************************************)
EXTENDS Naturals, Sequences, FiniteSets

CONSTANTS Candidates,      \* the candidates submitted in a behaviour
          Objects,         \* source objects: synthesis configs, fragments, notes
          NoObject,        \* a candidate of the wiki compiler has none
          Evidence,        \* evidence ids of the sources in source packs
          NoCandidate,
          ObjectOf,        \* source_object_id of a candidate
          TaskOf,          \* source_task_id of a candidate
          Supersedes,      \* targets of its "supersedes" relations, in order
          Refines,         \* targets of its "refines" relations
          EvidenceOf,      \* evidence ids of its resolved source pack
          CrashBound       \* bound: crashes in a behaviour

Ids == Candidates \cup Objects \cup Evidence

(* Only the wiki compiler attaches relations and a source pack, and it     *)
(* leaves the source object empty; synthesis and ingestion name an object. *)
ASSUME CandidateAssumption ==
  /\ NoObject \notin Ids /\ NoCandidate \notin Ids
  /\ Candidates \cap Objects = {} /\ Candidates \cap Evidence = {}
  /\ Objects \cap Evidence = {}
  /\ ObjectOf \in [Candidates -> Objects \cup {NoObject}]
  /\ Supersedes \in [Candidates -> Seq(Ids)]
  /\ Refines \in [Candidates -> SUBSET Ids]
  /\ EvidenceOf \in [Candidates -> SUBSET Evidence]
  /\ \A c \in Candidates :
       ObjectOf[c] # NoObject =>
         Supersedes[c] = <<>> /\ Refines[c] = {} /\ EvidenceOf[c] = {}
ASSUME CrashAssumption == CrashBound \in Nat

VARIABLES staged,      \* .swl/staged_knowledge/registry.jsonl
          submitted,   \* history: the candidates that were appended to it
          registry,    \* the canonical registry, by candidate
          store,       \* evidence and wiki entries of the knowledge store
          relations,   \* knowledge_relations
          derived,     \* the registry index and the reuse policy
          proposals,   \* _PENDING_PROPOSALS of the process
          pc,          \* the step of the command in flight
          cmd,         \* its locals
          crashes      \* crashes so far

vars == <<staged, submitted, registry, store, relations, derived, proposals,
          pc, cmd, crashes>>

-----------------------------------------------------------------------------
(* Types *)

Decisions == {"promoted", "rejected"}
StagedFile == [Candidates -> Decisions \cup {"absent", "pending"}]
Records == [status : {"none", "active", "superseded"},
            by     : Candidates \cup {NoCandidate}]
Registry == [Candidates -> Records]
Relations == [type : {"derived_from", "refines"}, source : Ids, target : Ids]
Steps == {"idle", "rewrite", "apply", "evidence", "wiki", "append", "supersede",
          "relate", "index", "reuse", "refine"}
Command == [cand     : Candidates \cup {NoCandidate},
            decision : Decisions,
            seen     : StagedFile,               \* the file as it was read
            notices  : SUBSET Ids,               \* ids the supersede notices name
            evidence : SUBSET Evidence]          \* source_evidence_ids

TypeOK == /\ staged \in StagedFile
          /\ submitted \subseteq Candidates
          /\ registry \in Registry
          /\ store \in [Ids -> {"none", "evidence", "wiki"}]
          /\ relations \subseteq Relations
          /\ derived \in [known : SUBSET Candidates, visible : SUBSET Candidates]
          /\ proposals \subseteq Candidates
          /\ pc \in Steps
          /\ cmd \in Command
          /\ crashes \in Nat

-----------------------------------------------------------------------------
(* The canonical registry *)

Known(r) == {c \in Candidates : r[c].status # "none"}
Active(r) == {c \in Candidates : r[c].status = "active"}

(* build_staged_canonical_key: the pair of task and source object, or the  *)
(* candidate itself when there is no object.                               *)
SameKey(c, d) ==
  c = d \/ (ObjectOf[c] # NoObject /\ ObjectOf[d] = ObjectOf[c] /\ TaskOf[d] = TaskOf[c])

Names(c) == {c, ObjectOf[c]} \ {NoObject}
Targets(c) == {Supersedes[c][i] : i \in DOMAIN Supersedes[c]}

(* The id of the wiki entry a candidate is promoted to. *)
WikiId(c) == IF ObjectOf[c] # NoObject THEN ObjectOf[c] ELSE c

(* Fault: superseded_by names the wiki entry, not the canonical record. *)
SupersedeByEntry(r, victims, c) ==
  [d \in Candidates |-> IF d \in victims
                        THEN [status |-> "superseded", by |-> WikiId(c)] ELSE r[d]]

Supersede(r, victims, c) ==
  [d \in Candidates |-> IF d \in victims
                        THEN [status |-> "superseded", by |-> c] ELSE r[d]]

(* Fault: records of the same key stay active. *)
append_canonical_record_only(r, c) ==
  [r EXCEPT ![c] = [status |-> "active", by |-> NoCandidate]]

append_canonical_record(r, c) ==
  [Supersede(r, {d \in Active(r) : d # c /\ SameKey(c, d)}, c)
     EXCEPT ![c] = [status |-> "active", by |-> NoCandidate]]

unresolved_targets(r, c) == {t \in Targets(c) : \A d \in Known(r) : t \notin Names(d)}

mark_canonical_records_superseded_by_targets(r, c) ==
  Supersede(r, {d \in Active(r) : d # c /\ Targets(c) \cap Names(d) # {}}, c)

(* The first active record a target names, or the target when none is. *)
find_canonical_supersede_target(r, t) ==
  LET found == {d \in Active(r) : t \in Names(d)}
  IN IF found = {} THEN t ELSE CHOOSE d \in found : TRUE

(* Fault: only the targets the candidate names are announced. *)
build_stage_promote_preflight_notices_of_targets(r, c) == Targets(c)

(* The ids that the supersede notices of a promotion ask to confirm: the   *)
(* active record of the same key, and every target whose record has not    *)
(* been noticed before.                                                    *)
build_stage_promote_preflight_notices(r, c) ==
  LET sameKey == {d \in Active(r) : d # c /\ SameKey(c, d)}
      match == IF sameKey = {} THEN {} ELSE {CHOOSE d \in sameKey : TRUE}
      noticed(i) == find_canonical_supersede_target(r, Supersedes[c][i])
  IN match \cup
     {Supersedes[c][i] : i \in {i \in DOMAIN Supersedes[c] :
        /\ noticed(i) \notin match
        /\ \A j \in DOMAIN Supersedes[c] : j < i => noticed(j) # noticed(i)}}

-----------------------------------------------------------------------------
(* The knowledge store *)

(* resolve_knowledge_object_id: an entry of the store, or the source       *)
(* object of the canonical record an id names (aliases by source reference *)
(* are left out).                                                          *)
resolves(id) ==
  \/ store[id] # "none"
  \/ /\ id \in Known(registry)
     /\ ObjectOf[id] # NoObject
     /\ store[ObjectOf[id]] # "none"

resolve_knowledge_object_id(id) == IF store[id] # "none" THEN id ELSE ObjectOf[id]

-----------------------------------------------------------------------------
(* Submitting *)

(* Wiki jobs, ingestion and synthesis append; the same file ingested twice *)
(* yields two pending candidates of one source object.                     *)
submit_staged_candidate(c) ==
  /\ c \notin submitted
  /\ submitted' = submitted \cup {c}
  /\ staged' = [staged EXCEPT ![c] = "pending"]
  /\ UNCHANGED <<registry, store, relations, derived, proposals, pc, cmd, crashes>>

-----------------------------------------------------------------------------
(* Deciding *)

goto(from, to) == pc = from /\ pc' = to
cand == cmd.cand

NoCommand == [cand |-> NoCandidate, decision |-> "rejected",
              seen |-> [c \in Candidates |-> "absent"],
              notices |-> {}, evidence |-> {}]

(* The locals of a command go with it. *)
keep_locals == cmd' = IF pc' = "idle" THEN NoCommand ELSE cmd

(* resolve_stage_candidate finds the candidate pending and                 *)
(* update_staged_candidate loads the file; a supersede or conflict notice  *)
(* must be confirmed or forced, otherwise nothing happens.                 *)
decide_staged_knowledge(c, decision, notices) ==
  /\ goto("idle", "rewrite")
  /\ cmd' = [cand |-> c, decision |-> decision, seen |-> staged,
             notices |-> notices, evidence |-> {}]
  /\ UNCHANGED <<staged, submitted, registry, store, relations, derived,
                 proposals, crashes>>

promote_stage_candidate_command(c) ==
  /\ staged[c] = "pending"
  /\ decide_staged_knowledge(c, "promoted",
                             build_stage_promote_preflight_notices(registry, c))

(* Fault: a decided candidate may be rejected. *)
reject_stage_candidate_command_decided(c) ==
  /\ staged[c] # "absent"
  /\ decide_staged_knowledge(c, "rejected", {})

reject_stage_candidate_command(c) ==
  /\ staged[c] = "pending"
  /\ decide_staged_knowledge(c, "rejected", {})

(* The whole file is written back as it was read, with the decision. *)
update_staged_candidate ==
  /\ goto("rewrite", IF cmd.decision = "promoted" THEN "apply" ELSE "idle")
  /\ staged' = [cmd.seen EXCEPT ![cand] = cmd.decision]
  /\ keep_locals
  /\ UNCHANGED <<submitted, registry, store, relations, derived, proposals,
                 crashes>>

(* DuplicateProposalError, or a target the registry does not know, ends    *)
(* the promotion after the candidate has been marked promoted.             *)
register_canonical_proposal ==
  /\ goto("apply", IF /\ cand \notin proposals
                     /\ unresolved_targets(registry, cand) = {}
                   THEN "evidence" ELSE "idle")
  /\ proposals' = proposals \cup {cand}

(* Fault: the check marks the targets already. *)
apply_proposal_marking ==
  /\ register_canonical_proposal
  /\ registry' = mark_canonical_records_superseded_by_targets(registry, cand)
  /\ keep_locals
  /\ UNCHANGED <<staged, submitted, store, relations, derived, crashes>>

(* The proposal is loaded and its targets are looked up, in a dry run. *)
apply_proposal ==
  /\ register_canonical_proposal
  /\ keep_locals
  /\ UNCHANGED <<staged, submitted, registry, store, relations, derived, crashes>>

(* Fault: only the evidence that is new is reported back. *)
materialize_source_evidence_new ==
  /\ goto("evidence", "wiki")
  /\ cmd' = [cmd EXCEPT !.evidence = {e \in EvidenceOf[cand] : store[e] = "none"}]
  /\ store' = [id \in Ids |-> IF id \in EvidenceOf[cand] /\ store[id] = "none"
                              THEN "evidence" ELSE store[id]]
  /\ UNCHANGED <<staged, submitted, registry, relations, derived, proposals, crashes>>

(* Evidence that some task already has is kept, not written again. *)
materialize_source_evidence ==
  /\ goto("evidence", "wiki")
  /\ cmd' = [cmd EXCEPT !.evidence = EvidenceOf[cand]]
  /\ store' = [id \in Ids |-> IF id \in EvidenceOf[cand] /\ store[id] = "none"
                              THEN "evidence" ELSE store[id]]
  /\ UNCHANGED <<staged, submitted, registry, relations, derived, proposals, crashes>>

persist_wiki_entry ==
  /\ goto("wiki", "append")
  /\ store' = [store EXCEPT ![WikiId(cand)] = "wiki"]
  /\ UNCHANGED <<staged, submitted, registry, relations, derived, proposals,
                 cmd, crashes>>

AppendRecord ==
  /\ goto("append", "supersede")
  /\ registry' = append_canonical_record(registry, cand)
  /\ UNCHANGED <<staged, submitted, store, relations, derived, proposals,
                 cmd, crashes>>

SupersedeTargets ==
  /\ goto("supersede", "relate")
  /\ registry' = mark_canonical_records_superseded_by_targets(registry, cand)
  /\ UNCHANGED <<staged, submitted, store, relations, derived, proposals,
                 cmd, crashes>>

(* upsert_knowledge_relation takes a wiki entry and an evidence entry and  *)
(* raises for anything else.                                               *)
persist_source_evidence_relations ==
  /\ LET valid == {e \in cmd.evidence :
                    store[e] = "evidence" /\ store[WikiId(cand)] = "wiki"}
     IN /\ goto("relate", IF valid = cmd.evidence THEN "index" ELSE "idle")
        /\ relations' = relations \cup
             {[type |-> "derived_from", source |-> WikiId(cand), target |-> e] : e \in valid}
  /\ keep_locals
  /\ UNCHANGED <<staged, submitted, registry, store, derived, proposals, crashes>>

save_canonical_registry_index ==
  /\ goto("index", "reuse")
  /\ derived' = [derived EXCEPT !.known = Known(registry)]
  /\ UNCHANGED <<staged, submitted, registry, store, relations, proposals,
                 cmd, crashes>>

(* Fault: superseded records are handed out as well. *)
build_canonical_reuse_summary_all(r) == Known(r)

build_canonical_reuse_summary(r) == Active(r)

save_canonical_reuse_policy ==
  /\ goto("reuse", "refine")
  /\ derived' = [derived EXCEPT !.visible = build_canonical_reuse_summary(registry)]
  /\ UNCHANGED <<staged, submitted, registry, store, relations, proposals,
                 cmd, crashes>>

(* One relation after the other, until a target cannot be resolved. *)
create_promoted_relation_records ==
  /\ goto("refine", "idle")
  /\ \E created \in SUBSET {t \in Refines[cand] : resolves(t)} :
       /\ (\A t \in Refines[cand] : resolves(t)) => created = Refines[cand]
       /\ relations' = relations \cup
            {[type |-> "refines", source |-> WikiId(cand),
              target |-> resolve_knowledge_object_id(t)] : t \in created}
  /\ keep_locals
  /\ UNCHANGED <<staged, submitted, registry, store, derived, proposals, crashes>>

(* The process stops, between commands or within one. *)
Crash ==
  /\ crashes < CrashBound
  /\ crashes' = crashes + 1
  /\ pc' = "idle"
  /\ proposals' = {}
  /\ cmd' = NoCommand
  /\ UNCHANGED <<staged, submitted, registry, store, relations, derived>>

-----------------------------------------------------------------------------
Init == /\ staged = [c \in Candidates |-> "absent"]
        /\ submitted = {}
        /\ registry = [c \in Candidates |-> [status |-> "none", by |-> NoCandidate]]
        /\ store = [id \in Ids |-> "none"]
        /\ relations = {}
        /\ derived = [known |-> {}, visible |-> {}]
        /\ proposals = {}
        /\ pc = "idle"
        /\ cmd = NoCommand
        /\ crashes = 0

Step == \/ update_staged_candidate
        \/ apply_proposal
        \/ materialize_source_evidence
        \/ persist_wiki_entry
        \/ AppendRecord
        \/ SupersedeTargets
        \/ persist_source_evidence_relations
        \/ save_canonical_registry_index
        \/ save_canonical_reuse_policy
        \/ create_promoted_relation_records

Next == \/ \E c \in Candidates : \/ submit_staged_candidate(c)
                                 \/ promote_stage_candidate_command(c)
                                 \/ reject_stage_candidate_command(c)
        \/ Step
        \/ Crash

Spec == Init /\ [][Next]_vars

-----------------------------------------------------------------------------
(* Properties *)

(* No two active records of the registry have the same canonical key, at   *)
(* any point of a promotion (append_canonical_record supersedes the older  *)
(* ones in the write that adds the new one).                               *)
ActiveKeyUnique ==
  \A c, d \in Active(registry) : SameKey(c, d) => c = d

(* Following superseded_by from a superseded record always ends at an      *)
(* active one: it names a record that exists, and no superseded records    *)
(* refer to each other in a circle.  Promotions cut off by a crash and     *)
(* targets that were superseded before do not break the chain.             *)
SupersessionEndsActive ==
  LET superseded == Known(registry) \ Active(registry)
  IN \A S \in SUBSET superseded :
       S # {} => \E c \in S : registry[c].by \in Known(registry) \ S

(* A record is canonical only if its candidate says promoted: decisions    *)
(* are written before the registry and a later command or submission does  *)
(* not take them back.                                                     *)
CanonicalIsPromoted ==
  \A c \in Known(registry) : staged[c] = "promoted"

(* The notices name the record, by its id or its source object, or they    *)
(* name a record of the registry that shares one of these with it.         *)
Noticed(d, notices) == Names(d) \cap notices # {}
SharesNoticed(r, d, notices) ==
  \E e \in Known(r) : Names(e) \cap Names(d) # {} /\ Noticed(e, notices)

(* A promotion supersedes only records that its notices asked the operator *)
(* about, or that share the source object of a record they asked about,    *)
(* although the registry is read for the notices long before it is         *)
(* written.  (Of two targets that resolve to one record only the first is  *)
(* announced, so a second record of the object goes without its own name.) *)
SupersededSharesNoticed ==
  [][\A d \in Active(registry) :
       registry'[d].status = "superseded" =>
         SharesNoticed(registry, d, cmd.notices)]_vars

(* Between commands, and if none was cut off, every canonical record is    *)
(* linked to all the evidence of its source pack, shared evidence that an  *)
(* earlier promotion wrote included, and that evidence is in the store.    *)
EvidenceLinked ==
  pc = "idle" /\ crashes = 0 =>
    \A c \in Known(registry) : \A e \in EvidenceOf[c] :
      /\ store[e] = "evidence"
      /\ [type |-> "derived_from", source |-> WikiId(c), target |-> e] \in relations

(* Between commands, and if none was cut off, what retrieval may reuse is  *)
(* exactly what is active: promotions that end in an error before or after *)
(* the refresh leave no superseded record visible.                         *)
IndexCurrent ==
  pc = "idle" /\ crashes = 0 =>
    derived = [known |-> Known(registry), visible |-> Active(registry)]

(* A candidate that is marked promoted is in the registry once the command *)
(* is over (docs/design/SELF_EVOLUTION.md: apply_proposal writes the       *)
(* promoted knowledge).                                                    *)
PromotedIsCanonical ==
  pc = "idle" /\ crashes = 0 =>
    \A c \in Candidates : staged[c] = "promoted" => c \in Known(registry)

=============================================================================
