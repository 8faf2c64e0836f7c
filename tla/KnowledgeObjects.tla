-------------------------- MODULE KnowledgeObjects --------------------------
(***************************************************************************)
(* The knowledge objects of a task: how they are built, what their stage   *)
(* and evidence allow, what a decision does to them, how the review queue  *)
(* and the index classify them, and what the librarian makes of a list.    *)
(* A list of objects is a function from object numbers to objects.         *)
(***************************************************************************)
EXTENDS Integers, Sequences, FiniteSets, SequencesExt

CONSTANTS Artifacts, Sources,  \* references an operator may give
          Present,             \* artifacts that are on disk
          Words,               \* what a text says; its spacing may be untidy
          None

ASSUME ObjectAssumption == Present \subseteq Artifacts /\ None \notin Artifacts \cup Sources

Stages == {"raw", "candidate", "verified", "canonical"}
Intents == {"none", "review", "promote"}
Texts == [words : Words, tidy : BOOLEAN]

EvidenceStatuses == {"artifact_backed", "source_only", "unbacked"}

KnowledgeObject == [stage : Stages, artifact : Artifacts \cup {None}, source : Sources \cup {None},
                    evidence : EvidenceStatuses, text : Texts, reuse : BOOLEAN, intent : Intents]
IsList(list) == /\ DOMAIN list \subseteq Nat /\ IsFiniteSet(DOMAIN list)
                /\ list \in [DOMAIN list -> KnowledgeObject]
Nothing == [i \in {} |-> None]

(* A request to capture items. *)
Captures == [items : Seq(Texts), stage : Stages, source : Sources \cup {None},
             artifacts : Seq(Artifacts), reuse : BOOLEAN, intent : Intents]

evidence_status_for(artifact, source) ==
  IF artifact # None THEN "artifact_backed"
  ELSE IF source # None THEN "source_only" ELSE "unbacked"

canonicalization_status_for(o) ==
  IF o.stage = "canonical" THEN "canonical"
  ELSE IF o.intent = "none" THEN "not_requested"
  ELSE IF o.stage # "verified" THEN "blocked_stage"
  ELSE IF o.evidence # "artifact_backed" THEN "blocked_evidence"
  ELSE IF o.intent = "review" THEN "review_ready" ELSE "promotion_ready"

is_retrieval_reuse_ready(o) ==
  o.reuse /\ o.stage = "verified" /\ o.evidence = "artifact_backed"

(* Objects are numbered from start; the references are looked up by the    *)
(* number, not by the place in the request.  (A blank item, which the code *)
(* skips and whose number it leaves unused, is not among Texts.)           *)
build_knowledge_objects(req, start) ==
  [n \in start .. start + Len(req.items) - 1 |->
     LET artifact == IF n <= Len(req.artifacts) THEN req.artifacts[n] ELSE None
     IN [stage |-> req.stage, source |-> req.source, text |-> req.items[n - start + 1],
         artifact |-> artifact, evidence |-> evidence_status_for(artifact, req.source),
         reuse |-> req.reuse, intent |-> req.intent]]

(* New evidence is a place in a source; the reference to an artifact stays *)
(* but does not count any more.                                            *)
refresh_evidence(o, source) == [o EXCEPT !.source = source, !.evidence = "source_only"]

-----------------------------------------------------------------------------
(* Index, partition and review queue *)

invalidation_reason_for(o) ==
  IF ~o.reuse THEN "not_retrieval_candidate"
  ELSE IF o.stage # "verified" THEN "stage_not_verified"
  ELSE IF o.evidence # "artifact_backed" THEN "evidence_not_artifact_backed"
  ELSE "active"

build_knowledge_index(list) ==
  LET reusable == {i \in DOMAIN list : list[i].reuse}
  IN [reusable |-> {i \in reusable : is_retrieval_reuse_ready(list[i])},
      inactive |-> {<<i, invalidation_reason_for(list[i])>> :
                      i \in {i \in reusable : ~is_retrieval_reuse_ready(list[i])}}]

build_knowledge_partition(list) ==
  [linked |-> DOMAIN list, candidates |-> {i \in DOMAIN list : list[i].reuse}]

(* What the queue tells the operator to do; rejected is whether the latest *)
(* decision on the object was to reject it.                                *)
classify_review_entry(o, rejected) ==
  IF rejected \/ o.stage = "canonical" THEN "none"
  ELSE IF canonicalization_status_for(o) \in {"review_ready", "promotion_ready"}
       THEN "promote-canonical"
  ELSE IF is_retrieval_reuse_ready(o) THEN "promote-reuse"
  ELSE "review"

(* The latest decision on an object is the one that counts. *)
build_review_queue(list, decisions) ==
  [i \in DOMAIN list |->
     LET made == {k \in DOMAIN decisions : decisions[k].object = i}
     IN classify_review_entry(list[i], made # {} /\ decisions[Max(made)].type = "reject")]

-----------------------------------------------------------------------------
(* Decisions *)

Decision == [object : Nat, type : {"promote", "reject"}, target : {"reuse", "canonical"}]

(* Fault: a canonical object may be promoted again. *)
decision_allowed_again(list, d) ==
  /\ d.object \in DOMAIN list
  /\ LET o == list[d.object]
     IN IF d.type = "promote"
        THEN o.stage \in {"verified", "canonical"} /\ o.evidence = "artifact_backed"
        ELSE d.target = "canonical" => o.stage # "canonical"

(* apply_knowledge_decision raises for the others. *)
decision_allowed(list, d) ==
  /\ d.object \in DOMAIN list
  /\ LET o == list[d.object]
     IN IF d.type = "promote" THEN o.stage = "verified" /\ o.evidence = "artifact_backed"
        ELSE d.target = "canonical" => o.stage # "canonical"

apply_knowledge_decision(list, d) ==
  LET o == list[d.object]
  IN [list EXCEPT ![d.object] =
        IF d.target = "reuse" THEN [o EXCEPT !.reuse = d.type = "promote"]
        ELSE IF d.type = "reject" THEN [o EXCEPT !.intent = "none"]
        ELSE [o EXCEPT !.stage = "canonical",
                       !.intent = IF @ = "none" THEN "promote" ELSE @]]

-----------------------------------------------------------------------------
(* Canonical records *)

build_canonical_key(o, i) == IF o.artifact # None THEN <<"artifact", o.artifact>>
                             ELSE IF o.source # None THEN <<"source", o.source>>
                             ELSE <<"task-object", i>>

build_canonical_record(o, i) ==
  [id |-> i, key |-> build_canonical_key(o, i), text |-> o.text, artifact |-> o.artifact,
   source |-> o.source, evidence |-> o.evidence, status |-> "active"]

Active(reg) == {i \in DOMAIN reg : reg[i].status = "active"}

(* Fault: the record goes to the end, not to the place of its id. *)
append_canonical_record_last(reg, record) ==
  LET last == Cardinality(DOMAIN reg) + 1
  IN [i \in DOMAIN reg \cup {last} |-> IF i = last THEN record ELSE reg[i]]

(* The record replaces one of its id and supersedes the active ones of its *)
(* key.                                                                    *)
append_canonical_record(reg, record) ==
  [i \in DOMAIN reg \cup {record.id} |->
     IF i = record.id THEN record
     ELSE IF reg[i].key = record.key THEN [reg[i] EXCEPT !.status = "superseded"] ELSE reg[i]]

(* The entry of the knowledge store for a record. *)
build_wiki_entry_from_canonical_record(record) ==
  [text |-> record.text, artifact |-> record.artifact, source |-> record.source,
   evidence |-> record.evidence, stage |-> "canonical", reuse |-> FALSE, intent |-> "promote"]

-----------------------------------------------------------------------------
(* The librarian *)

_normalize_text(text) == [text EXCEPT !.tidy = TRUE]
_text_hash(text) == text.words
_artifact_exists(a) == a \in Present

(* Fault: the keys of active records are not looked at. *)
skip_reason_keyless(reg, o, i) ==
  IF o.artifact # None /\ ~_artifact_exists(o.artifact) THEN "artifact_ref_missing"
  ELSE IF i \in Active(reg) THEN "duplicate_canonical_id_existing"
  ELSE IF \E j \in Active(reg) : _text_hash(reg[j].text) = _text_hash(o.text)
       THEN "duplicate_content_hash_existing"
  ELSE "none"

(* Why a candidate is left alone.  The records of the batch count as       *)
(* active ones.                                                            *)
skip_reason(reg, o, i) ==
  IF o.artifact # None /\ ~_artifact_exists(o.artifact) THEN "artifact_ref_missing"
  ELSE IF i \in Active(reg) THEN "duplicate_canonical_id_existing"
  ELSE IF \E j \in Active(reg) : reg[j].key = build_canonical_key(o, i)
       THEN "conflict_existing_canonical_key"
  ELSE IF \E j \in Active(reg) : _text_hash(reg[j].text) = _text_hash(o.text)
       THEN "duplicate_content_hash_existing"
  ELSE "none"

PromotionReady(list) ==
  {i \in DOMAIN list : canonicalization_status_for(list[i]) = "promotion_ready"}

(* The batch so far: the list with the promoted objects, their records in *)
(* the order of the list, and the registry with these records.             *)
librarian_promote(batch, o, i) ==
  LET tidied == [batch.list EXCEPT ![i].text = _normalize_text(@)]
      promoted == apply_knowledge_decision(tidied,
                    [object |-> i, type |-> "promote", target |-> "canonical"])
      record == build_canonical_record(promoted[i], i)
  IN IF skip_reason(batch.reg, o, i) # "none" THEN batch
     ELSE [list |-> promoted, records |-> Append(batch.records, record),
           reg |-> append_canonical_record(batch.reg, record)]

(* The candidates are taken in the order of the list.  wanted names the    *)
(* objects of the card, if it names any.                                   *)
LibrarianAgent(list, wanted, registry) ==
  LET candidates == {i \in PromotionReady(list) : wanted = {} \/ i \in wanted}
      last == IF candidates = {} THEN 0 ELSE Max(candidates)
      after[i \in 0 .. last] ==
        LET before == IF i > 0 THEN after[i - 1]
                      ELSE [list |-> list, records |-> <<>>, reg |-> registry]
        IN IF i \in candidates THEN librarian_promote(before, list[i], i) ELSE before
  IN after[last]

=============================================================================
