----------------------- MODULE StagedKnowledgeProofs -----------------------
(***************************************************************************)
(* Proofs about StagedKnowledge, for any candidates, relations and number  *)
(* of crashes.                                                             *)
(***************************************************************************)
EXTENDS StagedKnowledge, DataInduction, TLAPS

(* The type invariant, with a candidate for a command in flight to work on. *)
CommandOK == pc # "idle" => cand \in Candidates
TypeInv == TypeOK /\ CommandOK

(* After the decision is written the candidate says promoted; before, the  *)
(* file that was read shows every canonical record as promoted.            *)
AfterDecision == pc \notin {"idle", "rewrite"} => staged[cand] = "promoted"
BeforeDecision ==
  pc = "rewrite" => /\ cmd.seen[cand] = "pending"
                    /\ cand \notin Known(registry)
                    /\ \A d \in Known(registry) : cmd.seen[d] = "promoted"

(* What is in the file, or was when it was read, had been submitted. *)
SubmittedOnce == /\ \A c \in Candidates : staged[c] # "absent" => c \in submitted
                 /\ \A c \in Candidates : cmd.seen[c] # "absent" => c \in submitted

DecisionInv == TypeInv /\ AfterDecision /\ BeforeDecision /\ SubmittedOnce
               /\ CanonicalIsPromoted

-----------------------------------------------------------------------------
(* NoCommand has the type of a command. *)
LEMMA NoCommandType == NoCommand \in Command
  BY DEF NoCommand, Command, Decisions, StagedFile

(* Superseding some records yields a registry. *)
LEMMA SupersedeType ==
  ASSUME NEW r \in Registry, NEW c \in Candidates, NEW victims
  PROVE  /\ Supersede(r, victims, c) \in Registry
         /\ mark_canonical_records_superseded_by_targets(r, c) \in Registry
         /\ append_canonical_record(r, c) \in Registry
  BY DEF Registry, Records, Supersede, append_canonical_record,
         mark_canonical_records_superseded_by_targets

(* The wiki entry of a candidate is an id of the store. *)
LEMMA WikiIdType == \A c \in Candidates : WikiId(c) \in Ids
  BY CandidateAssumption DEF WikiId, Ids

(* The notices of a promotion name ids. *)
LEMMA NoticesType ==
  ASSUME NEW c \in Candidates
  PROVE  build_stage_promote_preflight_notices(registry, c) \subseteq Ids
<1> DEFINE sameKey == {d \in Active(registry) : d # c /\ SameKey(c, d)}
           match == IF sameKey = {} THEN {} ELSE {CHOOSE d \in sameKey : TRUE}
<1>1. sameKey \subseteq Candidates
  BY DEF Active
<1>2. match \subseteq Ids
  <2>1. CASE sameKey = {}
    BY <2>1
  <2>2. CASE sameKey # {}
    <3>1. (CHOOSE d \in sameKey : TRUE) \in sameKey
      BY <2>2
    <3> QED BY <3>1, <1>1, <2>2 DEF Ids
  <2> QED BY <2>1, <2>2
<1>3. \A i \in DOMAIN Supersedes[c] : Supersedes[c][i] \in Ids
  BY CandidateAssumption
<1> QED BY <1>2, <1>3 DEF build_stage_promote_preflight_notices

(* Every step keeps the types: one case per action, and in it the          *)
(* variables the action writes.                                            *)
LEMMA TypeStep == TypeInv /\ [Next]_vars => TypeInv'
<1> SUFFICES ASSUME TypeInv, [Next]_vars
             PROVE  TypeInv'
  OBVIOUS
<1> USE DEF TypeInv, TypeOK, CommandOK, goto, cand
<1>1. ASSUME NEW c \in Candidates, submit_staged_candidate(c)
      PROVE  TypeInv'
  BY <1>1 DEF submit_staged_candidate, StagedFile
<1>2. ASSUME NEW c \in Candidates, promote_stage_candidate_command(c)
      PROVE  TypeInv'
  <2>1. cmd' \in Command
    BY <1>2, NoticesType DEF promote_stage_candidate_command,
       decide_staged_knowledge, Command, Decisions
  <2> QED BY <2>1, <1>2 DEF promote_stage_candidate_command,
          decide_staged_knowledge, Steps
<1>3. ASSUME NEW c \in Candidates, reject_stage_candidate_command(c)
      PROVE  TypeInv'
  BY <1>3 DEF reject_stage_candidate_command, decide_staged_knowledge, Steps,
     Command, Decisions
<1>4. CASE update_staged_candidate
  BY <1>4, NoCommandType DEF update_staged_candidate, keep_locals, Steps,
     Command, StagedFile
<1>5. CASE apply_proposal
  BY <1>5, NoCommandType DEF apply_proposal, register_canonical_proposal,
     keep_locals, Steps
<1>6. CASE materialize_source_evidence
  BY <1>6, CandidateAssumption DEF materialize_source_evidence, Steps, Command
<1>7. CASE persist_wiki_entry
  BY <1>7, WikiIdType DEF persist_wiki_entry, Steps
<1>8. CASE AppendRecord
  BY <1>8, SupersedeType DEF AppendRecord, Steps
<1>9. CASE SupersedeTargets
  BY <1>9, SupersedeType DEF SupersedeTargets, Steps
<1>10. CASE persist_source_evidence_relations
  <2>1. relations' \subseteq Relations
    BY <1>10, WikiIdType DEF persist_source_evidence_relations, Relations, Ids,
       Steps, Command
  <2> QED BY <2>1, <1>10, NoCommandType DEF persist_source_evidence_relations,
          keep_locals, Steps
<1>11. CASE save_canonical_registry_index
  BY <1>11 DEF save_canonical_registry_index, Steps, Known
<1>12. CASE save_canonical_reuse_policy
  BY <1>12 DEF save_canonical_reuse_policy, build_canonical_reuse_summary,
     Steps, Active
<1>13. CASE create_promoted_relation_records
  <2>1. cand \in Candidates
    BY <1>13 DEF create_promoted_relation_records
  <2>2. \A t \in Refines[cand] : t \in Ids
    BY <2>1, CandidateAssumption
  <2>3. \A t \in Refines[cand] : resolves(t) => resolve_knowledge_object_id(t) \in Ids
    BY <2>2, CandidateAssumption DEF resolves, resolve_knowledge_object_id, Known, Ids
  <2>4. relations' \subseteq Relations
    BY <1>13, <2>1, <2>3, WikiIdType DEF create_promoted_relation_records, Relations
  <2> QED BY <2>4, <1>13, NoCommandType DEF create_promoted_relation_records,
          keep_locals, Steps
<1>14. CASE Crash
  BY <1>14, NoCommandType DEF Crash, Steps
<1>15. CASE UNCHANGED vars
  BY <1>15 DEF vars
<1> QED BY <1>1, <1>2, <1>3, <1>4, <1>5, <1>6, <1>7, <1>8, <1>9, <1>10, <1>11,
           <1>12, <1>13, <1>14, <1>15 DEF Next, Step

(* Init establishes the invariants. *)
LEMMA InitInv == Init => TypeInv /\ DecisionInv /\ ActiveKeyUnique
  BY NoCommandType DEF Init, TypeInv, TypeOK, CommandOK, DecisionInv, AfterDecision,
     BeforeDecision, SubmittedOnce, CanonicalIsPromoted, ActiveKeyUnique, StagedFile,
     Registry, Records, Steps, Known, Active, NoCommand

(* The persisted files and the command in flight keep their types, for any *)
(* candidates and whatever crashes.                                        *)
THEOREM TypeCorrect == Spec => []TypeOK
<1>1. Init => TypeInv
  BY InitInv
<1>2. TypeInv => TypeOK
  BY DEF TypeInv
<1> QED BY <1>1, <1>2, TypeStep, PTL DEF Spec

-----------------------------------------------------------------------------
(* Superseding records changes which are active, not which are known. *)
LEMMA KnownAfterSupersede ==
  ASSUME NEW r \in Registry, NEW c \in Candidates
  PROVE  /\ Known(mark_canonical_records_superseded_by_targets(r, c)) = Known(r)
         /\ Known(append_canonical_record(r, c)) = Known(r) \cup {c}
  BY DEF Registry, Records, Known, Active, Supersede, append_canonical_record,
         mark_canonical_records_superseded_by_targets

(* A step that leaves the staged file, the registry and the locals alone,  *)
(* or ends the command, keeps the decision invariant.                      *)
LEMMA DecisionFrame ==
  ASSUME DecisionInv, TypeInv', UNCHANGED <<staged, submitted, registry>>,
         pc' # "rewrite",
         \/ pc' = "idle" /\ cmd' = NoCommand
         \/ pc \notin {"idle", "rewrite"} /\ cmd'.cand = cmd.cand /\ cmd'.seen = cmd.seen
  PROVE  DecisionInv'
<1> USE DEF DecisionInv, AfterDecision, BeforeDecision, SubmittedOnce,
            CanonicalIsPromoted, Known, cand
<1>1. SubmittedOnce'
  BY DEF NoCommand
<1> QED BY <1>1

(* Every step keeps the decision invariant. *)
LEMMA DecisionStep == DecisionInv /\ [Next]_vars => DecisionInv'
<1> SUFFICES ASSUME DecisionInv, [Next]_vars
             PROVE  DecisionInv'
  OBVIOUS
<1>t. TypeInv /\ TypeInv'
  BY TypeStep DEF DecisionInv
<1> USE <1>t DEF goto
<1>1. ASSUME NEW c \in Candidates, submit_staged_candidate(c)
      PROVE  DecisionInv'
  <2>1. c \notin Known(registry) /\ staged[c] = "absent"
    BY <1>1 DEF submit_staged_candidate, DecisionInv, SubmittedOnce,
       CanonicalIsPromoted, Known
  <2>2. pc # "idle" => cand # c \/ pc = "rewrite"
    BY <2>1 DEF DecisionInv, AfterDecision
  <2> QED BY <1>1, <2>1, <2>2 DEF submit_staged_candidate, DecisionInv,
          AfterDecision, BeforeDecision, SubmittedOnce, CanonicalIsPromoted,
          Known, TypeInv, TypeOK, CommandOK, StagedFile, cand
<1>2. ASSUME NEW c \in Candidates, NEW decision, NEW notices,
             staged[c] = "pending", decide_staged_knowledge(c, decision, notices)
      PROVE  DecisionInv'
  BY <1>2 DEF decide_staged_knowledge, DecisionInv, AfterDecision, BeforeDecision,
     SubmittedOnce, CanonicalIsPromoted, Known, cand
<1>3. CASE update_staged_candidate
  <2>1. cand \in Candidates /\ cmd.seen \in StagedFile
    BY <1>3 DEF update_staged_candidate, TypeInv, TypeOK, CommandOK, Command
  <2>2. CanonicalIsPromoted'
    BY <1>3, <2>1 DEF update_staged_candidate, DecisionInv, BeforeDecision,
       CanonicalIsPromoted, Known, StagedFile
  <2>3. SubmittedOnce'
    BY <1>3, <2>1 DEF update_staged_candidate, DecisionInv, BeforeDecision,
       SubmittedOnce, StagedFile, keep_locals, NoCommand
  <2>4. AfterDecision' /\ BeforeDecision'
    BY <1>3, <2>1 DEF update_staged_candidate, AfterDecision, BeforeDecision,
       StagedFile, keep_locals, cand
  <2> QED BY <2>2, <2>3, <2>4 DEF DecisionInv
<1>4. CASE apply_proposal
  BY <1>4, DecisionFrame DEF apply_proposal, register_canonical_proposal, keep_locals
<1>5. CASE materialize_source_evidence
  BY <1>5, DecisionFrame DEF materialize_source_evidence, TypeInv, TypeOK, Command
<1>6. CASE persist_wiki_entry
  BY <1>6, DecisionFrame DEF persist_wiki_entry
<1>7. CASE AppendRecord
  <2>1. cand \in Candidates /\ registry \in Registry
    BY <1>7 DEF AppendRecord, TypeInv, TypeOK, CommandOK
  <2>2. Known(registry') = Known(registry) \cup {cand}
    BY <1>7, <2>1, KnownAfterSupersede DEF AppendRecord
  <2> QED BY <1>7, <2>1, <2>2 DEF AppendRecord, DecisionInv, AfterDecision,
          BeforeDecision, SubmittedOnce, CanonicalIsPromoted, Known, cand
<1>8. CASE SupersedeTargets
  <2>1. cand \in Candidates /\ registry \in Registry
    BY <1>8 DEF SupersedeTargets, TypeInv, TypeOK, CommandOK
  <2>2. Known(registry') = Known(registry)
    BY <1>8, <2>1, KnownAfterSupersede DEF SupersedeTargets
  <2> QED BY <1>8, <2>1, <2>2 DEF SupersedeTargets, DecisionInv, AfterDecision,
          BeforeDecision, SubmittedOnce, CanonicalIsPromoted, Known, cand
<1>9. CASE persist_source_evidence_relations
  BY <1>9, DecisionFrame DEF persist_source_evidence_relations, keep_locals
<1>10. CASE save_canonical_registry_index
  BY <1>10, DecisionFrame DEF save_canonical_registry_index
<1>11. CASE save_canonical_reuse_policy
  BY <1>11, DecisionFrame DEF save_canonical_reuse_policy
<1>12. CASE create_promoted_relation_records
  BY <1>12, DecisionFrame DEF create_promoted_relation_records, keep_locals
<1>13. CASE Crash
  BY <1>13, DecisionFrame DEF Crash
<1>14. CASE UNCHANGED vars
  BY <1>14 DEF vars, DecisionInv, AfterDecision, BeforeDecision, SubmittedOnce,
     CanonicalIsPromoted, Known, cand
<1> QED BY <1>1, <1>2, <1>3, <1>4, <1>5, <1>6, <1>7, <1>8, <1>9, <1>10, <1>11,
           <1>12, <1>13, <1>14 DEF Next, Step, promote_stage_candidate_command,
           reject_stage_candidate_command

(* A canonical record belongs to a candidate that says promoted, however   *)
(* submissions, decisions and crashes interleave: a decision is never      *)
(* taken back by the rewrite of the staged file.                           *)
THEOREM CanonicalIsAlwaysPromoted == Spec => []CanonicalIsPromoted
<1>1. Init => DecisionInv
  BY InitInv
<1>2. DecisionInv => CanonicalIsPromoted
  BY DEF DecisionInv
<1> QED BY <1>1, <1>2, DecisionStep, PTL DEF Spec

-----------------------------------------------------------------------------
(* The two writes of the registry keep the active keys unique. *)
LEMMA KeyUniqueWrites ==
  ASSUME NEW r \in Registry, NEW c \in Candidates,
         \A a, b \in Active(r) : SameKey(a, b) => a = b
  PROVE  /\ \A a, b \in Active(append_canonical_record(r, c)) : SameKey(a, b) => a = b
         /\ \A a, b \in Active(mark_canonical_records_superseded_by_targets(r, c)) :
              SameKey(a, b) => a = b
<1>1. Active(append_canonical_record(r, c)) =
        {d \in Active(r) : ~SameKey(c, d)} \cup {c}
  BY DEF Active, append_canonical_record, Supersede, Registry, Records, SameKey
<1>2. Active(mark_canonical_records_superseded_by_targets(r, c)) \subseteq Active(r)
  BY DEF Active, mark_canonical_records_superseded_by_targets, Supersede,
     Registry, Records
<1>3. \A a, b : SameKey(a, b) => SameKey(b, a)
  BY DEF SameKey
<1> QED BY <1>1, <1>2, <1>3

(* No two active records share a canonical key, in every state of every    *)
(* promotion, for any candidates and whatever crashes.                     *)
THEOREM ActiveKeysAreUnique == Spec => []ActiveKeyUnique
<1>1. Init => TypeInv /\ ActiveKeyUnique
  BY InitInv
<1>2. TypeInv /\ ActiveKeyUnique /\ [Next]_vars => ActiveKeyUnique'
  <2> SUFFICES ASSUME TypeInv, ActiveKeyUnique, [Next]_vars
               PROVE  ActiveKeyUnique'
    OBVIOUS
  <2>1. \/ registry' = registry
        \/ /\ cand \in Candidates
           /\ \/ registry' = append_canonical_record(registry, cand)
              \/ registry' = mark_canonical_records_superseded_by_targets(registry, cand)
    BY DEF Next, Step, vars, TypeInv, CommandOK, goto, submit_staged_candidate,
       promote_stage_candidate_command, reject_stage_candidate_command,
       decide_staged_knowledge, update_staged_candidate, apply_proposal,
       materialize_source_evidence, persist_wiki_entry, AppendRecord,
       SupersedeTargets, persist_source_evidence_relations,
       save_canonical_registry_index, save_canonical_reuse_policy,
       create_promoted_relation_records, Crash
  <2>2. registry \in Registry
    BY DEF TypeInv, TypeOK
  <2> QED BY <2>1, <2>2, KeyUniqueWrites DEF ActiveKeyUnique, Active
<1> QED BY <1>1, <1>2, TypeStep, PTL DEF Spec

-----------------------------------------------------------------------------
Superseded(r) == Known(r) \ Active(r)

(* SupersessionEndsActive, of any registry. *)
EndsActive(r) ==
  \A S \in SUBSET Superseded(r) : S # {} => \E d \in S : r[d].by \in Known(r) \ S

(* When the targets are marked, the record they will refer to is active. *)
AppendedActive == pc = "supersede" => cand \in Active(registry)
ChainInv == TypeInv /\ AppendedActive /\ EndsActive(registry)

(* Superseding active records in favour of an active one keeps the chains: *)
(* a set with one of them refers to the active record, any other set is a  *)
(* set of records that were superseded before.                             *)
LEMMA SupersedeChain ==
  ASSUME NEW r \in Registry, NEW q \in Registry, NEW c \in Active(q),
         NEW victims \in SUBSET Active(r), EndsActive(r),
         Known(r) \subseteq Known(q),
         Superseded(q) \subseteq Superseded(r) \cup victims,
         \A d \in victims \ {c} : q[d].by = c,
         \A d \in Superseded(r) \ {c} : q[d].by = r[d].by
  PROVE  EndsActive(q)
<1> SUFFICES ASSUME NEW S \in SUBSET Superseded(q), S # {}
             PROVE  \E d \in S : q[d].by \in Known(q) \ S
  BY DEF EndsActive
<1>1. c \notin S /\ c \in Known(q)
  BY DEF Superseded, Active, Known
<1>2. CASE S \cap victims # {}
  <2>1. PICK d \in S : d \in victims
    BY <1>2
  <2> QED BY <2>1, <1>1
<1>3. CASE S \cap victims = {}
  <2>1. S \in SUBSET Superseded(r)
    BY <1>3
  <2>2. PICK d \in S : r[d].by \in Known(r) \ S
    BY <2>1 DEF EndsActive
  <2> QED BY <2>1, <2>2, <1>1
<1> QED BY <1>2, <1>3

(* The two writes of the registry keep the chains of supersession. *)
LEMMA ChainWrites ==
  ASSUME NEW r \in Registry, NEW c \in Candidates, EndsActive(r)
  PROVE  /\ EndsActive(append_canonical_record(r, c))
         /\ c \in Active(append_canonical_record(r, c))
         /\ c \in Active(r) =>
              EndsActive(mark_canonical_records_superseded_by_targets(r, c))
<1> DEFINE sameKey == {d \in Active(r) : d # c /\ SameKey(c, d)}
           named == {d \in Active(r) : d # c /\ Targets(c) \cap Names(d) # {}}
           appended == append_canonical_record(r, c)
           marked == mark_canonical_records_superseded_by_targets(r, c)
<1>1. appended \in Registry /\ marked \in Registry
  BY SupersedeType
<1>2. /\ appended[c] = [status |-> "active", by |-> NoCandidate]
      /\ \A d \in sameKey : appended[d] = [status |-> "superseded", by |-> c]
      /\ \A d \in Candidates \ (sameKey \cup {c}) : appended[d] = r[d]
  BY DEF append_canonical_record, Supersede, Active
<1>3. /\ \A d \in named : marked[d] = [status |-> "superseded", by |-> c]
      /\ \A d \in Candidates \ named : marked[d] = r[d]
  BY DEF mark_canonical_records_superseded_by_targets, Supersede, Active
<1> HIDE DEF appended, marked, sameKey, named
<1>4. sameKey \subseteq Active(r) /\ named \subseteq Active(r) /\ c \notin named
  BY DEF sameKey, named
<1>5. c \in Active(appended)
  BY <1>2 DEF Active
<1>6. EndsActive(appended)
  <2>1. Known(r) \subseteq Known(appended)
    BY <1>2, <1>4 DEF Known, Active
  <2>2. Superseded(appended) \subseteq Superseded(r) \cup sameKey
    BY <1>2, <1>4 DEF Superseded, Known, Active
  <2>3. \A d \in Superseded(r) \ {c} : appended[d].by = r[d].by
    BY <1>2, <1>4 DEF Superseded, Known, Active
  <2> QED BY <2>1, <2>2, <2>3, <1>1, <1>2, <1>4, <1>5, SupersedeChain
<1>7. ASSUME c \in Active(r) PROVE EndsActive(marked)
  <2>1. Known(r) \subseteq Known(marked) /\ c \in Active(marked)
    BY <1>3, <1>4, <1>7 DEF Known, Active
  <2>2. Superseded(marked) \subseteq Superseded(r) \cup named
    BY <1>3, <1>4 DEF Superseded, Known, Active
  <2>3. \A d \in Superseded(r) \ {c} : marked[d].by = r[d].by
    BY <1>3, <1>4 DEF Superseded, Known, Active
  <2> QED BY <2>1, <2>2, <2>3, <1>1, <1>3, <1>4, SupersedeChain
<1> QED BY <1>5, <1>6, <1>7 DEF appended, marked

(* Every superseded record leads to an active one, in every state of every *)
(* promotion, for any candidates and targets and whatever crashes.         *)
THEOREM SupersessionAlwaysEnds == Spec => []SupersessionEndsActive
<1>1. Init => ChainInv
  BY InitInv DEF Init, ChainInv, AppendedActive, EndsActive, Superseded, Known, Active
<1>2. ChainInv /\ [Next]_vars => ChainInv'
  <2> SUFFICES ASSUME ChainInv, [Next]_vars
               PROVE  ChainInv'
    OBVIOUS
  <2>1. TypeInv /\ TypeInv' /\ registry \in Registry
    BY TypeStep DEF ChainInv, TypeInv, TypeOK
  <2>2. CASE AppendRecord
    <3>1. cand \in Candidates
      BY <2>1, <2>2 DEF AppendRecord, goto, TypeInv, CommandOK
    <3> QED BY <2>1, <2>2, <3>1, ChainWrites DEF AppendRecord, goto, ChainInv,
            AppendedActive, cand
  <2>3. CASE SupersedeTargets
    <3>1. cand \in Candidates /\ cand \in Active(registry)
      BY <2>1, <2>3 DEF SupersedeTargets, goto, TypeInv, CommandOK, ChainInv,
         AppendedActive
    <3> QED BY <2>1, <2>3, <3>1, ChainWrites DEF SupersedeTargets, goto, ChainInv,
            AppendedActive
  <2>4. CASE ~AppendRecord /\ ~SupersedeTargets
    <3>1. registry' = registry /\ (pc' = "supersede" => pc = "supersede" /\ cmd' = cmd)
      BY <2>4 DEF Next, Step, vars, goto, submit_staged_candidate,
         promote_stage_candidate_command, reject_stage_candidate_command,
         decide_staged_knowledge, update_staged_candidate, apply_proposal,
         register_canonical_proposal, materialize_source_evidence,
         persist_wiki_entry, persist_source_evidence_relations,
         save_canonical_registry_index, save_canonical_reuse_policy,
         create_promoted_relation_records, Crash
    <3> QED BY <2>1, <3>1 DEF ChainInv, AppendedActive, EndsActive, Superseded,
            Known, Active, cand
  <2> QED BY <2>2, <2>3, <2>4
<1>3. ChainInv => SupersessionEndsActive
  BY DEF ChainInv, EndsActive, Superseded, SupersessionEndsActive
<1> QED BY <1>1, <1>2, <1>3, PTL DEF Spec

-----------------------------------------------------------------------------
(* What the steps of a promotion rely on: evidence ids and wiki ids do not *)
(* mix in the store, the evidence is there once it has been materialized,  *)
(* and so is the wiki entry once it has been written.                      *)
StoreKinds == /\ \A e \in Evidence : store[e] \in {"none", "evidence"}
              /\ \A id \in Candidates \cup Objects : store[id] \in {"none", "wiki"}
Materialized ==
  pc \in {"wiki", "append", "supersede", "relate"} =>
    /\ cmd.evidence = EvidenceOf[cand]
    /\ \A e \in EvidenceOf[cand] : store[e] = "evidence"
EntryWritten ==
  pc \in {"append", "supersede", "relate"} => store[WikiId(cand)] = "wiki"

StoreInv == TypeInv /\ StoreKinds /\ Materialized /\ EntryWritten

Link(c, e) == [type |-> "derived_from", source |-> WikiId(c), target |-> e]
Linked(c) == \A e \in EvidenceOf[c] : store[e] = "evidence" /\ Link(c, e) \in relations

(* The records of the registry are linked, but for the one whose promotion *)
(* has appended it and not yet written its relations.                      *)
LinksWritten ==
  crashes = 0 => \A c \in Known(registry) :
                   Linked(c) \/ (c = cand /\ pc \in {"supersede", "relate"})

(* The index and the reuse policy lag behind the registry only from the    *)
(* first write of the registry to their own.                               *)
DerivedFollows ==
  crashes = 0 =>
    /\ pc \notin {"supersede", "relate", "index", "reuse"} =>
         derived = [known |-> Known(registry), visible |-> Active(registry)]
    /\ pc = "reuse" => derived.known = Known(registry)

(* An entry id is one of the wiki ids. *)
LEMMA WikiIdKind == \A c \in Candidates : WikiId(c) \in Candidates \cup Objects
  BY CandidateAssumption DEF WikiId

(* Init establishes the facts about the store, the links and the index. *)
LEMMA StoreInit == Init => StoreInv /\ LinksWritten /\ DerivedFollows
<1> SUFFICES ASSUME Init PROVE StoreInv /\ LinksWritten /\ DerivedFollows
  OBVIOUS
<1>1. Known(registry) = {} /\ Active(registry) = {}
  BY DEF Init, Known, Active
<1>2. TypeInv
  BY InitInv
<1> QED BY <1>1, <1>2 DEF Init, StoreInv, StoreKinds, Materialized, EntryWritten,
        LinksWritten, DerivedFollows, Ids

(* Every step keeps what the store holds for the command in flight. *)
LEMMA StoreStep == StoreInv /\ [Next]_vars => StoreInv'
<1> SUFFICES ASSUME StoreInv, [Next]_vars
             PROVE  StoreInv'
  OBVIOUS
<1>t. TypeInv /\ TypeInv'
  BY TypeStep DEF StoreInv
<1> USE DEF goto
<1>1. CASE materialize_source_evidence
  <2>1. cand \in Candidates /\ cmd \in Command
    BY <1>t, <1>1 DEF materialize_source_evidence, TypeInv, TypeOK, CommandOK
  <2>2. EvidenceOf[cand] \subseteq Evidence
    BY <2>1, CandidateAssumption
  <2>3. StoreKinds'
    BY <1>1, <2>2, CandidateAssumption DEF materialize_source_evidence, StoreInv,
       StoreKinds, Ids
  <2>4. Materialized'
    BY <1>1, <2>1, <2>2 DEF materialize_source_evidence, StoreInv, StoreKinds,
       Materialized, Ids, cand, Command
  <2> QED BY <1>1, <1>t, <2>3, <2>4 DEF materialize_source_evidence, StoreInv,
          EntryWritten
<1>2. CASE persist_wiki_entry
  <2>1. cand \in Candidates /\ store \in [Ids -> {"none", "evidence", "wiki"}]
    BY <1>t, <1>2 DEF persist_wiki_entry, TypeInv, TypeOK, CommandOK
  <2>2. WikiId(cand) \in Candidates \cup Objects
    BY <2>1, WikiIdKind
  <2>3. WikiId(cand) \in Ids /\ WikiId(cand) \notin Evidence
    BY <2>2, CandidateAssumption DEF Ids
  <2>4. StoreKinds'
    BY <1>2, <2>1, <2>3 DEF persist_wiki_entry, StoreInv, StoreKinds, Ids
  <2>5. EvidenceOf[cand] \subseteq Evidence
    BY <2>1, CandidateAssumption
  <2>6. Materialized' /\ EntryWritten'
    BY <1>2, <2>1, <2>3, <2>5 DEF persist_wiki_entry, StoreInv, Materialized,
       EntryWritten, Ids, cand
  <2> QED BY <1>t, <2>4, <2>6 DEF StoreInv
<1>3. CASE ~materialize_source_evidence /\ ~persist_wiki_entry
  <2>1. /\ store' = store
        /\ pc' \in {"append", "wiki"} => pc' = pc /\ cmd' = cmd
        /\ pc' \in {"supersede", "relate"} =>
             pc \in {"append", "supersede", "relate"} /\ cmd' = cmd
    BY <1>3 DEF Next, Step, vars, submit_staged_candidate,
       promote_stage_candidate_command, reject_stage_candidate_command,
       decide_staged_knowledge, update_staged_candidate, apply_proposal,
       register_canonical_proposal, AppendRecord, SupersedeTargets,
       persist_source_evidence_relations, save_canonical_registry_index,
       save_canonical_reuse_policy, create_promoted_relation_records, Crash
  <2> QED BY <1>t, <2>1 DEF StoreInv, StoreKinds, Materialized, EntryWritten, cand
<1> QED BY <1>1, <1>2, <1>3

(* The relations of a promotion are all valid, so its command goes on to   *)
(* refresh the index and never ends half way.                              *)
LEMMA RelateSucceeds ==
  ASSUME StoreInv, persist_source_evidence_relations
  PROVE  /\ pc' = "index" /\ cmd' = cmd
         /\ relations' = relations \cup {Link(cand, e) : e \in EvidenceOf[cand]}
  BY DEF StoreInv, Materialized, EntryWritten, persist_source_evidence_relations,
     goto, keep_locals, Link

(* A step keeps what is linked: the store loses no evidence and no         *)
(* relation is taken back.                                                 *)
LEMMA LinksStay ==
  ASSUME StoreInv, [Next]_vars, NEW c \in Candidates, Linked(c)
  PROVE  Linked(c)'
<1>1. relations \subseteq relations'
  BY DEF Next, Step, vars, submit_staged_candidate, promote_stage_candidate_command,
     reject_stage_candidate_command, decide_staged_knowledge, update_staged_candidate,
     apply_proposal, materialize_source_evidence, persist_wiki_entry, AppendRecord,
     SupersedeTargets, persist_source_evidence_relations, save_canonical_registry_index,
     save_canonical_reuse_policy, create_promoted_relation_records, Crash
<1>2. \A e \in Evidence : store[e] = "evidence" => store'[e] = "evidence"
  <2>1. CASE materialize_source_evidence
    BY <2>1 DEF materialize_source_evidence, Ids
  <2>2. CASE persist_wiki_entry
    <3>1. cand \in Candidates /\ store \in [Ids -> {"none", "evidence", "wiki"}]
      BY <2>2 DEF persist_wiki_entry, StoreInv, TypeInv, TypeOK, CommandOK, goto
    <3>2. WikiId(cand) \notin Evidence
      BY <3>1, WikiIdKind, CandidateAssumption
    <3> QED BY <2>2, <3>1, <3>2 DEF persist_wiki_entry, Ids
  <2>3. CASE ~materialize_source_evidence /\ ~persist_wiki_entry
    BY <2>3 DEF Next, Step, vars, submit_staged_candidate,
       promote_stage_candidate_command, reject_stage_candidate_command,
       decide_staged_knowledge, update_staged_candidate, apply_proposal,
       AppendRecord, SupersedeTargets, persist_source_evidence_relations,
       save_canonical_registry_index, save_canonical_reuse_policy,
       create_promoted_relation_records, Crash
  <2> QED BY <2>1, <2>2, <2>3
<1>3. EvidenceOf[c] \subseteq Evidence
  BY CandidateAssumption
<1> QED BY <1>1, <1>2, <1>3 DEF Linked, Link

(* Every step keeps the links complete. *)
LEMMA LinksStep == StoreInv /\ LinksWritten /\ [Next]_vars => LinksWritten'
<1> SUFFICES ASSUME StoreInv, LinksWritten, [Next]_vars, crashes' = 0,
                    NEW c \in Known(registry')
             PROVE  Linked(c)' \/ (c = cand' /\ pc' \in {"supersede", "relate"})
  BY DEF LinksWritten, Known
<1>t. TypeInv /\ c \in Candidates /\ registry \in Registry
  BY DEF StoreInv, TypeInv, TypeOK, Known
<1>0. crashes = 0 /\ ~Crash
  BY <1>t DEF Next, Step, vars, TypeInv, TypeOK, submit_staged_candidate,
     promote_stage_candidate_command, reject_stage_candidate_command,
     decide_staged_knowledge, update_staged_candidate, apply_proposal,
     materialize_source_evidence, persist_wiki_entry, AppendRecord,
     SupersedeTargets, persist_source_evidence_relations,
     save_canonical_registry_index, save_canonical_reuse_policy,
     create_promoted_relation_records, Crash
<1>1. CASE AppendRecord
  <2>1. cand \in Candidates /\ cand' = cand /\ pc' = "supersede"
    BY <1>1, <1>t DEF AppendRecord, TypeInv, CommandOK, goto, cand
  <2>2. Known(registry') = Known(registry) \cup {cand}
    BY <1>1, <1>t, <2>1, KnownAfterSupersede DEF AppendRecord
  <2> QED BY <1>0, <1>1, <1>t, <2>1, <2>2, LinksStay DEF LinksWritten, AppendRecord, goto
<1>2. CASE SupersedeTargets
  <2>1. cand \in Candidates /\ cand' = cand /\ pc' = "relate"
    BY <1>2, <1>t DEF SupersedeTargets, TypeInv, CommandOK, goto, cand
  <2>2. Known(registry') = Known(registry)
    BY <1>2, <1>t, <2>1, KnownAfterSupersede DEF SupersedeTargets
  <2> QED BY <1>0, <1>2, <1>t, <2>1, <2>2, LinksStay DEF LinksWritten, SupersedeTargets
<1>3. CASE persist_source_evidence_relations
  <2>1. c \in Known(registry)
    BY <1>3 DEF persist_source_evidence_relations, Known
  <2>2. CASE c = cand
    <3>1. \A e \in EvidenceOf[c] : store'[e] = "evidence" /\ Link(c, e) \in relations'
      BY <1>3, <2>2, RelateSucceeds DEF StoreInv, Materialized,
         persist_source_evidence_relations, goto
    <3> QED BY <3>1 DEF Linked, Link
  <2> QED BY <1>0, <1>t, <2>1, <2>2, LinksStay DEF LinksWritten
<1>4. CASE ~AppendRecord /\ ~SupersedeTargets /\ ~persist_source_evidence_relations
  <2>1. /\ registry' = registry
        /\ pc \in {"supersede", "relate"} => pc' = pc /\ cmd' = cmd
    BY <1>0, <1>4 DEF Next, Step, vars, goto, submit_staged_candidate,
       promote_stage_candidate_command, reject_stage_candidate_command,
       decide_staged_knowledge, update_staged_candidate, apply_proposal,
       register_canonical_proposal, materialize_source_evidence, persist_wiki_entry,
       save_canonical_registry_index, save_canonical_reuse_policy,
       create_promoted_relation_records
  <2> QED BY <1>0, <1>t, <2>1, LinksStay DEF LinksWritten, Known, cand
<1> QED BY <1>1, <1>2, <1>3, <1>4

(* Between commands, and if none was cut off, every canonical record is    *)
(* linked to all its evidence, for any source packs, shared evidence       *)
(* included.                                                               *)
THEOREM EvidenceIsLinked == Spec => []EvidenceLinked
<1>1. StoreInv /\ LinksWritten => EvidenceLinked
  BY DEF LinksWritten, EvidenceLinked, Linked, Link
<1> QED BY <1>1, StoreInit, StoreStep, LinksStep, PTL DEF Spec

(* Every step keeps the index and the reuse policy in step. *)
LEMMA DerivedStep == StoreInv /\ DerivedFollows /\ [Next]_vars => DerivedFollows'
<1> SUFFICES ASSUME StoreInv, DerivedFollows, [Next]_vars, crashes' = 0
             PROVE  DerivedFollows'
  BY DEF DerivedFollows
<1>t. TypeInv
  BY DEF StoreInv
<1>0. crashes = 0 /\ ~Crash
  BY <1>t DEF Next, Step, vars, TypeInv, TypeOK, submit_staged_candidate,
     promote_stage_candidate_command, reject_stage_candidate_command,
     decide_staged_knowledge, update_staged_candidate, apply_proposal,
     materialize_source_evidence, persist_wiki_entry, AppendRecord,
     SupersedeTargets, persist_source_evidence_relations,
     save_canonical_registry_index, save_canonical_reuse_policy,
     create_promoted_relation_records, Crash
<1>1. CASE AppendRecord
  BY <1>1 DEF AppendRecord, goto, DerivedFollows
<1>2. CASE SupersedeTargets
  BY <1>2 DEF SupersedeTargets, goto, DerivedFollows
<1>3. CASE persist_source_evidence_relations
  BY <1>3, RelateSucceeds DEF DerivedFollows
<1>4. CASE save_canonical_registry_index
  BY <1>4, <1>t DEF save_canonical_registry_index, goto, DerivedFollows, TypeInv,
     TypeOK, Known
<1>5. CASE save_canonical_reuse_policy
  <2>1. derived' = [known |-> Known(registry), visible |-> Active(registry)]
    BY <1>0, <1>5, <1>t DEF save_canonical_reuse_policy, goto, DerivedFollows,
       TypeInv, TypeOK, build_canonical_reuse_summary
  <2>2. registry' = registry /\ pc' = "refine"
    BY <1>5 DEF save_canonical_reuse_policy, goto
  <2> QED BY <2>1, <2>2 DEF DerivedFollows, Known, Active
<1>6. CASE /\ ~AppendRecord /\ ~SupersedeTargets /\ ~persist_source_evidence_relations
           /\ ~save_canonical_registry_index /\ ~save_canonical_reuse_policy
  <2>1. /\ registry' = registry /\ derived' = derived
        /\ \/ pc' = pc
           \/ /\ pc \notin {"supersede", "relate", "index", "reuse"}
              /\ pc' \notin {"supersede", "relate", "index", "reuse"}
    BY <1>0, <1>6 DEF Next, Step, vars, goto, submit_staged_candidate,
       promote_stage_candidate_command, reject_stage_candidate_command,
       decide_staged_knowledge, update_staged_candidate, apply_proposal,
       register_canonical_proposal, materialize_source_evidence, persist_wiki_entry,
       create_promoted_relation_records
  <2> QED BY <1>0, <2>1 DEF DerivedFollows, Known, Active
<1> QED BY <1>1, <1>2, <1>3, <1>4, <1>5, <1>6

(* Between commands, and if none was cut off, what retrieval may reuse is  *)
(* what is active: no promotion ends, by an error or otherwise, between    *)
(* writing the registry and refreshing what is derived from it.            *)
THEOREM IndexStaysCurrent == Spec => []IndexCurrent
<1>1. DerivedFollows => IndexCurrent
  BY DEF DerivedFollows, IndexCurrent
<1> QED BY <1>1, StoreInit, StoreStep, DerivedStep, PTL DEF Spec

-----------------------------------------------------------------------------
(* What the promotion of c would supersede in a registry, and that the     *)
(* notices cover it.                                                       *)
Victims(r, c) ==
  {d \in Active(r) : d # c /\ (SameKey(c, d) \/ Targets(c) \cap Names(d) # {})}
Covers(r, c, notices) ==
  \A d \in Victims(r, c) : SharesNoticed(r, d, notices)

(* Until the registry has been written for the last time, the notices the  *)
(* operator confirmed cover what is still to be superseded.                *)
Promoting == \/ pc = "rewrite" /\ cmd.decision = "promoted"
             \/ pc \in {"apply", "evidence", "wiki", "append", "supersede"}
NoticeInv == TypeInv /\ (Promoting => Covers(registry, cand, cmd.notices))

(* The targets of a candidate are noticed, each by itself or by an earlier *)
(* one that resolves to the same record.                                   *)
LEMMA TargetsAreNoticed ==
  ASSUME NEW r \in Registry, NEW c \in Candidates,
         NEW i \in DOMAIN Supersedes[c],
         NEW d \in Active(r), Supersedes[c][i] \in Names(d)
  PROVE  SharesNoticed(r, d, build_stage_promote_preflight_notices(r, c))
<1> DEFINE t(j) == Supersedes[c][j]
           noticed(j) == find_canonical_supersede_target(r, t(j))
           same == {j \in DOMAIN Supersedes[c] : noticed(j) = noticed(i)}
           notices == build_stage_promote_preflight_notices(r, c)
<1>1. Supersedes[c] \in Seq(Ids) /\ ObjectOf[c] = NoObject
  BY CandidateAssumption
<1>2. same \subseteq Nat /\ i \in same
  BY <1>1
<1>3. PICK j \in same : \A k \in same : j <= k
  BY <1>2, LeastNatural
<1>4. {e \in Active(r) : e # c /\ SameKey(c, e)} = {}
  BY <1>1 DEF SameKey
<1>5. t(j) \in notices
  <2>1. \A k \in DOMAIN Supersedes[c] : k < j => noticed(k) # noticed(j)
    BY <1>1, <1>2, <1>3
  <2> QED BY <1>3, <1>4, <2>1 DEF build_stage_promote_preflight_notices
<1>6. noticed(i) \in Active(r) /\ t(i) \in Names(noticed(i))
  BY DEF find_canonical_supersede_target
<1>7. t(j) \in Names(noticed(i))
  <2>1. noticed(j) = noticed(i)
    BY <1>3
  <2>2. CASE {e \in Active(r) : t(j) \in Names(e)} = {}
    <3>1. t(j) = noticed(i)
      BY <2>1, <2>2 DEF find_canonical_supersede_target
    <3>2. noticed(i) \in Names(noticed(i))
      BY <1>6, CandidateAssumption DEF Names, Active, Ids
    <3> QED BY <1>6, <2>2, <3>1, <3>2
  <2>3. CASE {e \in Active(r) : t(j) \in Names(e)} # {}
    BY <2>1, <2>3 DEF find_canonical_supersede_target
  <2> QED BY <2>2, <2>3
<1> HIDE DEF noticed, same, notices
<1>8. Active(r) \subseteq Known(r)
  BY DEF Active, Known
<1>9. SharesNoticed(r, d, notices)
  BY <1>5, <1>6, <1>7, <1>8 DEF SharesNoticed, Noticed
<1> QED BY <1>9 DEF notices

(* The notices computed from a registry with unique keys cover what a      *)
(* promotion would supersede in it.                                        *)
LEMMA NoticesCover ==
  ASSUME NEW r \in Registry, NEW c \in Candidates,
         \A a, b \in Active(r) : SameKey(a, b) => a = b
  PROVE  Covers(r, c, build_stage_promote_preflight_notices(r, c))
<1> DEFINE notices == build_stage_promote_preflight_notices(r, c)
           sameKey == {d \in Active(r) : d # c /\ SameKey(c, d)}
<1> SUFFICES ASSUME NEW d \in Victims(r, c)
             PROVE  SharesNoticed(r, d, notices)
  BY DEF Covers
<1>1. d \in Active(r) /\ d \in Known(r) /\ d \in Candidates
  BY DEF Victims, Active, Known
<1>2. CASE d \in sameKey
  <2>1. \A e \in sameKey : e = d
    BY <1>2 DEF SameKey
  <2>2. d \in notices
    BY <1>2, <2>1 DEF build_stage_promote_preflight_notices
  <2>3. d \in Names(d)
    BY <1>1, CandidateAssumption DEF Names, Ids
  <2> QED BY <1>1, <2>2, <2>3 DEF SharesNoticed, Noticed
<1>3. CASE d \notin sameKey
  <2>1. PICK i \in DOMAIN Supersedes[c] : Supersedes[c][i] \in Names(d)
    BY <1>1, <1>3 DEF Victims, Targets
  <2> QED BY <1>1, <2>1, TargetsAreNoticed
<1> QED BY <1>2, <1>3

(* Appending a record leaves fewer victims, if any. *)
LEMMA CoversAfterAppend ==
  ASSUME NEW r \in Registry, NEW c \in Candidates, NEW notices, Covers(r, c, notices)
  PROVE  Covers(append_canonical_record(r, c), c, notices)
<1>1. Victims(append_canonical_record(r, c), c) \subseteq Victims(r, c)
  BY DEF Victims, Active, append_canonical_record, Supersede, Registry, Records
<1>2. Known(r) \subseteq Known(append_canonical_record(r, c))
  BY DEF Known, append_canonical_record, Supersede, Registry, Records
<1>3. \A d : SharesNoticed(r, d, notices)
              => SharesNoticed(append_canonical_record(r, c), d, notices)
  BY <1>2 DEF SharesNoticed
<1> QED BY <1>1, <1>3 DEF Covers

(* Every step keeps the notices good. *)
LEMMA NoticeStep == NoticeInv /\ ActiveKeyUnique /\ [Next]_vars => NoticeInv'
<1> SUFFICES ASSUME NoticeInv, ActiveKeyUnique, [Next]_vars
             PROVE  NoticeInv'
  OBVIOUS
<1>t. TypeInv /\ TypeInv' /\ registry \in Registry
  BY TypeStep DEF NoticeInv, TypeInv, TypeOK
<1>1. ASSUME NEW c \in Candidates, promote_stage_candidate_command(c)
      PROVE  NoticeInv'
  <2>1. /\ registry' = registry /\ cand' = c
        /\ cmd'.notices = build_stage_promote_preflight_notices(registry, c)
    BY <1>1 DEF promote_stage_candidate_command, decide_staged_knowledge, cand
  <2>2. Covers(registry, c, build_stage_promote_preflight_notices(registry, c))
    BY <1>t, NoticesCover DEF ActiveKeyUnique
  <2> QED BY <1>t, <2>1, <2>2 DEF NoticeInv
<1>2. ASSUME NEW c \in Candidates, reject_stage_candidate_command(c)
      PROVE  NoticeInv'
  <2>1. pc' = "rewrite" /\ cmd'.decision = "rejected"
    BY <1>2 DEF reject_stage_candidate_command, decide_staged_knowledge, goto
  <2> QED BY <1>t, <2>1 DEF NoticeInv, Promoting
<1>3. CASE AppendRecord
  <2>1. Promoting /\ cand' = cand /\ cmd' = cmd /\ cand \in Candidates
    BY <1>3, <1>t DEF AppendRecord, Promoting, goto, cand, TypeInv, CommandOK
  <2> QED BY <1>3, <1>t, <2>1, CoversAfterAppend DEF AppendRecord, NoticeInv
<1>4. CASE update_staged_candidate
  <2>1. registry' = registry /\ (Promoting' => Promoting /\ cmd' = cmd)
    BY <1>4 DEF update_staged_candidate, goto, keep_locals, Promoting
  <2> QED BY <1>t, <2>1 DEF NoticeInv, cand
<1>5. CASE materialize_source_evidence
  <2>1. /\ registry' = registry /\ Promoting /\ cmd'.notices = cmd.notices
        /\ cmd'.cand = cmd.cand
    BY <1>5, <1>t DEF materialize_source_evidence, goto, Promoting, TypeInv, TypeOK,
       Command
  <2> QED BY <1>t, <2>1 DEF NoticeInv, cand
<1>6. CASE /\ ~AppendRecord /\ ~update_staged_candidate /\ ~materialize_source_evidence
           /\ \A c \in Candidates : /\ ~promote_stage_candidate_command(c)
                                    /\ ~reject_stage_candidate_command(c)
  <2>1. Promoting' => registry' = registry /\ Promoting /\ cmd' = cmd
    BY <1>6 DEF Next, Step, vars, goto, Promoting, keep_locals, submit_staged_candidate,
       apply_proposal, register_canonical_proposal, persist_wiki_entry,
       SupersedeTargets, persist_source_evidence_relations,
       save_canonical_registry_index, save_canonical_reuse_policy,
       create_promoted_relation_records, Crash
  <2> QED BY <1>t, <2>1 DEF NoticeInv, cand
<1> QED BY <1>1, <1>2, <1>3, <1>4, <1>5, <1>6

(* The records a step supersedes are covered by the notices. *)
LEMMA SupersedesCovered ==
  ASSUME NoticeInv, [Next]_vars, NEW d \in Active(registry),
         registry'[d].status = "superseded"
  PROVE  SharesNoticed(registry, d, cmd.notices)
<1>t. TypeInv /\ registry \in Registry /\ d \in Candidates
  BY DEF NoticeInv, TypeInv, TypeOK, Active
<1>1. registry[d].status = "active"
  BY DEF Active
<1>2. AppendRecord \/ SupersedeTargets
  BY <1>1 DEF Next, Step, vars, submit_staged_candidate,
     promote_stage_candidate_command, reject_stage_candidate_command,
     decide_staged_knowledge, update_staged_candidate, apply_proposal,
     materialize_source_evidence, persist_wiki_entry,
     persist_source_evidence_relations, save_canonical_registry_index,
     save_canonical_reuse_policy, create_promoted_relation_records, Crash
<1>3. Promoting /\ cand \in Candidates
  BY <1>2, <1>t DEF AppendRecord, SupersedeTargets, goto, Promoting, TypeInv, CommandOK
<1>4. d \in Victims(registry, cand)
  <2>1. CASE AppendRecord
    BY <1>1, <1>3, <1>t, <2>1 DEF AppendRecord, append_canonical_record, Supersede,
       Victims, Active, Registry, Records
  <2>2. CASE SupersedeTargets
    BY <1>1, <1>3, <1>t, <2>2 DEF SupersedeTargets, Supersede, Victims, Active,
       mark_canonical_records_superseded_by_targets
  <2> QED BY <1>2, <2>1, <2>2
<1> QED BY <1>3, <1>4 DEF NoticeInv, Covers

(* Init establishes the notice invariant. *)
LEMMA NoticeInit == Init => NoticeInv
  BY InitInv DEF Init, NoticeInv, Promoting

(* A promotion supersedes only records that the confirmed notices name, or *)
(* that carry the source object of one they name, whatever the relations   *)
(* of a candidate are and whatever was submitted or decided since the      *)
(* notices were computed.                                                  *)
THEOREM SupersedesSharingNoticed == Spec => SupersededSharesNoticed
<1>1. NoticeInv /\ [Next]_vars =>
        [\A d \in Active(registry) :
           registry'[d].status = "superseded" =>
             SharesNoticed(registry, d, cmd.notices)]_vars
  BY SupersedesCovered
<1> QED BY <1>1, NoticeInit, NoticeStep, ActiveKeysAreUnique, PTL
        DEF Spec, SupersededSharesNoticed

=============================================================================
