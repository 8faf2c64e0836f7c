------------------------ MODULE TaskKnowledgeProofs ------------------------
(***************************************************************************)
(* Theorems about TaskKnowledge: what any commands of any processes, cut   *)
(* off or refused anywhere, leave in the stores of a task's knowledge.     *)
(***************************************************************************)
EXTENDS TaskKnowledge, DataInduction

-----------------------------------------------------------------------------
(* Lists of objects and registries, as sets *)

FiniteSubsets == {D \in SUBSET Nat : IsFiniteSet(D)}
Lists == UNION {[D -> KnowledgeObject] : D \in FiniteSubsets}
Registries == {reg \in UNION {[D -> Records] : D \in FiniteSubsets} :
                 \A i \in DOMAIN reg : reg[i].id = i}

LEMMA ListsAreLists == ASSUME NEW list PROVE IsList(list) <=> list \in Lists
  BY DEF IsList, Lists, FiniteSubsets

LEMMA ListType ==
  ASSUME NEW list \in Lists
  PROVE  /\ DOMAIN list \in SUBSET Nat /\ IsFiniteSet(DOMAIN list)
         /\ list \in [DOMAIN list -> KnowledgeObject]
  BY DEF Lists, FiniteSubsets

LEMMA MakeList ==
  ASSUME NEW D \in FiniteSubsets, NEW list \in [D -> KnowledgeObject]
  PROVE  list \in Lists /\ DOMAIN list = D
  BY DEF Lists

LEMMA RegistryType ==
  ASSUME NEW reg \in Registries
  PROVE  /\ DOMAIN reg \in FiniteSubsets /\ DOMAIN reg \in SUBSET Nat
         /\ reg \in [DOMAIN reg -> Records]
         /\ \A i \in DOMAIN reg : reg[i].id = i
  BY DEF Registries, FiniteSubsets

LEMMA MakeRegistry ==
  ASSUME NEW D \in FiniteSubsets, NEW reg \in [D -> Records],
         \A i \in D : reg[i].id = i
  PROVE  reg \in Registries /\ DOMAIN reg = D
  BY DEF Registries

LEMMA FiniteUnion ==
  ASSUME NEW D \in FiniteSubsets, NEW E \in FiniteSubsets
  PROVE  D \cup E \in FiniteSubsets
  BY FS_Union DEF FiniteSubsets

LEMMA FiniteSingle == ASSUME NEW i \in Nat PROVE {i} \in FiniteSubsets
  BY FS_Singleton DEF FiniteSubsets

LEMMA NothingIsList == /\ Nothing \in Lists /\ Nothing \in Registries
                       /\ DOMAIN Nothing = {}
<1>1. {} \in FiniteSubsets
  BY FS_EmptySet DEF FiniteSubsets
<1>2. Nothing \in [{} -> KnowledgeObject] /\ Nothing \in [{} -> Records]
  BY DEF Nothing
<1> QED BY <1>1, <1>2, MakeList, MakeRegistry

LEMMA BuiltIsList ==
  ASSUME NEW req \in Captures, NEW start \in Nat \ {0}
  PROVE  /\ build_knowledge_objects(req, start) \in Lists
         /\ DOMAIN build_knowledge_objects(req, start) = start .. start + Len(req.items) - 1
<1> DEFINE D == start .. start + Len(req.items) - 1
<1>1. /\ req.items \in Seq(Texts) /\ req.artifacts \in Seq(Artifacts)
      /\ req.stage \in Stages /\ req.source \in Sources \cup {None}
      /\ req.reuse \in BOOLEAN /\ req.intent \in Intents
  BY DEF Captures
<1>2. Len(req.items) \in Nat
  BY <1>1
<1>3. D \in FiniteSubsets
  <2>1. IsFiniteSet(D)
    BY <1>2, FS_Interval
  <2> QED BY <2>1, <1>2 DEF FiniteSubsets
<1>4. \A n \in D : /\ req.items[n - start + 1] \in Texts
                   /\ (IF n <= Len(req.artifacts) THEN req.artifacts[n] ELSE None)
                         \in Artifacts \cup {None}
  BY <1>1
<1>5. build_knowledge_objects(req, start) \in [D -> KnowledgeObject]
  BY <1>1, <1>4 DEF build_knowledge_objects, KnowledgeObject, evidence_status_for,
                    EvidenceStatuses
<1> HIDE DEF D
<1>6. build_knowledge_objects(req, start) \in Lists /\ DOMAIN build_knowledge_objects(req, start) = D
  BY <1>3, <1>5, MakeList
<1> QED BY <1>6 DEF D

LEMMA ExtendedIsList ==
  ASSUME NEW list \in Lists, NEW new \in Lists
  PROVE  Extended(list, new) \in Lists /\ DOMAIN Extended(list, new) = DOMAIN list \cup DOMAIN new
<1>1. /\ DOMAIN list \in FiniteSubsets /\ DOMAIN new \in FiniteSubsets
      /\ list \in [DOMAIN list -> KnowledgeObject] /\ new \in [DOMAIN new -> KnowledgeObject]
  BY ListType DEF FiniteSubsets
<1>2. DOMAIN list \cup DOMAIN new \in FiniteSubsets
  BY <1>1, FiniteUnion
<1>3. Extended(list, new) \in [DOMAIN list \cup DOMAIN new -> KnowledgeObject]
  BY <1>1 DEF Extended
<1> QED BY <1>2, <1>3, MakeList

LEMMA ReplacedIsList ==
  ASSUME NEW list \in Lists, NEW i \in DOMAIN list, NEW o \in KnowledgeObject
  PROVE  /\ [list EXCEPT ![i] = o] \in Lists
         /\ DOMAIN [list EXCEPT ![i] = o] = DOMAIN list
         /\ [list EXCEPT ![i] = o][i] = o
         /\ \A j \in DOMAIN list \ {i} : [list EXCEPT ![i] = o][j] = list[j]
<1> DEFINE new == [list EXCEPT ![i] = o]
<1>1. DOMAIN list \in FiniteSubsets /\ list \in [DOMAIN list -> KnowledgeObject]
  BY ListType DEF FiniteSubsets
<1>2. new \in [DOMAIN list -> KnowledgeObject]
  BY <1>1
<1>3. new[i] = o /\ \A j \in DOMAIN list \ {i} : new[j] = list[j]
  BY <1>1
<1> HIDE DEF new
<1>4. new \in Lists /\ DOMAIN new = DOMAIN list
  BY <1>1, <1>2, MakeList
<1> QED BY <1>3, <1>4 DEF new

LEMMA DecidedIsList ==
  ASSUME NEW list \in Lists, NEW d \in Decision, d.object \in DOMAIN list
  PROVE  /\ apply_knowledge_decision(list, d) \in Lists
         /\ DOMAIN apply_knowledge_decision(list, d) = DOMAIN list
<1> DEFINE o == list[d.object]
           new == IF d.target = "reuse" THEN [o EXCEPT !.reuse = d.type = "promote"]
                  ELSE IF d.type = "reject" THEN [o EXCEPT !.intent = "none"]
                  ELSE [o EXCEPT !.stage = "canonical",
                                 !.intent = IF @ = "none" THEN "promote" ELSE @]
<1>1. o \in KnowledgeObject
  BY ListType
<1>2. new \in KnowledgeObject
  <2> HIDE DEF o
  <2> QED BY <1>1 DEF KnowledgeObject, Stages, Intents
<1>3. apply_knowledge_decision(list, d) = [list EXCEPT ![d.object] = new]
  BY DEF apply_knowledge_decision
<1> HIDE DEF new
<1>4. /\ [list EXCEPT ![d.object] = new] \in Lists
      /\ DOMAIN [list EXCEPT ![d.object] = new] = DOMAIN list
  BY <1>2, ReplacedIsList
<1> QED BY <1>3, <1>4

LEMMA RefreshedObject ==
  ASSUME NEW o \in KnowledgeObject, NEW source \in Sources
  PROVE  refresh_evidence(o, source) \in KnowledgeObject
  BY DEF refresh_evidence, KnowledgeObject, EvidenceStatuses

LEMMA RecordType ==
  ASSUME NEW o \in KnowledgeObject, NEW i \in Nat
  PROVE  build_canonical_record(o, i) \in Records /\ build_canonical_record(o, i).id = i
<1>1. build_canonical_key(o, i) \in {"artifact"} \X Artifacts \cup {"source"} \X Sources
                            \cup {"task-object", "staged-candidate"} \X Nat
  BY DEF build_canonical_key, KnowledgeObject
<1> QED BY <1>1 DEF build_canonical_record, Records, KnowledgeObject

LEMMA StagedRecordType == StagedRecord \in Records
  BY KnowledgeAssumption DEF StagedRecord, Records, EvidenceStatuses

LEMMA WikiEntryType ==
  ASSUME NEW record \in Records
  PROVE  build_wiki_entry_from_canonical_record(record) \in KnowledgeObject
  BY DEF build_wiki_entry_from_canonical_record, Records, KnowledgeObject, Stages, Intents

LEMMA MergedIsList ==
  ASSUME NEW view \in Lists, NEW i \in Nat, NEW entry \in KnowledgeObject
  PROVE  /\ _merge_task_knowledge_views(view, i, entry) \in Lists
         /\ DOMAIN _merge_task_knowledge_views(view, i, entry) = DOMAIN view \cup {i}
<1>1. DOMAIN view \in FiniteSubsets /\ view \in [DOMAIN view -> KnowledgeObject]
  BY ListType DEF FiniteSubsets
<1>2. DOMAIN view \cup {i} \in FiniteSubsets
  BY <1>1, FiniteSingle, FiniteUnion
<1>3. _merge_task_knowledge_views(view, i, entry) \in [DOMAIN view \cup {i} -> KnowledgeObject]
  BY <1>1 DEF _merge_task_knowledge_views
<1> QED BY <1>2, <1>3, MakeList

LEMMA AppendedIsRegistry ==
  ASSUME NEW reg \in Registries, NEW record \in Records
  PROVE  /\ append_canonical_record(reg, record) \in Registries
         /\ DOMAIN append_canonical_record(reg, record) = DOMAIN reg \cup {record.id}
<1>1. DOMAIN reg \in FiniteSubsets /\ reg \in [DOMAIN reg -> Records]
      /\ \A i \in DOMAIN reg : reg[i].id = i
  BY RegistryType
<1>2. record.id \in Nat
  BY DEF Records
<1>3. DOMAIN reg \cup {record.id} \in FiniteSubsets
  BY <1>1, <1>2, FiniteSingle, FiniteUnion
<1>4. \A r \in Records : /\ [r EXCEPT !.status = "superseded"] \in Records
                         /\ [r EXCEPT !.status = "superseded"].id = r.id
  BY DEF Records
<1>5. /\ append_canonical_record(reg, record) \in [DOMAIN reg \cup {record.id} -> Records]
      /\ \A i \in DOMAIN reg \cup {record.id} : append_canonical_record(reg, record)[i].id = i
  BY <1>1, <1>4 DEF append_canonical_record
<1> QED BY <1>3, <1>5, MakeRegistry

-----------------------------------------------------------------------------
(* The librarian's batch *)

(* Two objects have the same references. *)
SameEvidence(o, q) == o.artifact = q.artifact /\ o.source = q.source

(* What has become of the objects: those with a record were ready and are  *)
(* canonical, the others are as they were.                                 *)
Promoted(b, list) ==
  /\ \A i \in DOMAIN list : SameEvidence(b.list[i], list[i])
  /\ \A k \in DOMAIN b.records : b.records[k].id \in PromotionReady(list)
                                /\ b.list[b.records[k].id].stage = "canonical"
  /\ \A i \in DOMAIN list : \/ b.list[i] = list[i]
                            \/ \E k \in DOMAIN b.records : b.records[k].id = i

(* The records of a batch have ids and keys of their own, which no active  *)
(* record has.                                                             *)
NewTo(reg, r) == r.id \notin Active(reg) /\ \A a \in Active(reg) : reg[a].key # r.key
Distinct(records) == \A k, l \in DOMAIN records :
  k # l => records[k].id # records[l].id /\ records[k].key # records[l].key
Fresh(b, reg) ==
  /\ \A a \in Active(reg) : a \in Active(b.reg) /\ b.reg[a] = reg[a]
  /\ \A k \in DOMAIN b.records : /\ b.records[k].id \in Active(b.reg)
                                /\ b.reg[b.records[k].id] = b.records[k]
                                /\ NewTo(reg, b.records[k])
  /\ Distinct(b.records)

Batch == [list : Lists, records : Seq(Records), reg : Registries]
Batches(list, reg) ==
  {b \in Batch : DOMAIN b.list = DOMAIN list /\ Promoted(b, list) /\ Fresh(b, reg)}

CanonicalObject(o) ==
  [o EXCEPT !.stage = "canonical", !.intent = IF @ = "none" THEN "promote" ELSE @]

LEMMA CanonicalType ==
  ASSUME NEW o \in KnowledgeObject
  PROVE  /\ CanonicalObject(o) \in KnowledgeObject /\ CanonicalObject(o).stage = "canonical"
         /\ SameEvidence(CanonicalObject(o), o)
  BY DEF CanonicalObject, KnowledgeObject, Stages, Intents, SameEvidence

(* What promoting one object does to the list. *)
LEMMA PromotedList ==
  ASSUME NEW list \in Lists, NEW i \in DOMAIN list
  PROVE  LET d == [object |-> i, type |-> "promote", target |-> "canonical"]
             new == apply_knowledge_decision([list EXCEPT ![i].text = _normalize_text(@)], d)
         IN /\ new \in Lists /\ DOMAIN new = DOMAIN list
            /\ new[i] \in KnowledgeObject
            /\ new[i].stage = "canonical" /\ SameEvidence(new[i], list[i])
            /\ \A j \in DOMAIN list \ {i} : new[j] = list[j]
<1> DEFINE d == [object |-> i, type |-> "promote", target |-> "canonical"]
           o == [list[i] EXCEPT !.text = _normalize_text(@)]
           tidied == [list EXCEPT ![i] = o]
           new == [tidied EXCEPT ![i] = CanonicalObject(o)]
<1>1. list[i] \in KnowledgeObject
  BY ListType
<1>2. o \in KnowledgeObject /\ SameEvidence(o, list[i])
  <2>1. _normalize_text(list[i].text) \in Texts
    BY <1>1 DEF _normalize_text, KnowledgeObject, Texts
  <2> QED BY <1>1, <2>1 DEF KnowledgeObject, SameEvidence
<1> HIDE DEF o
<1>3. /\ tidied \in Lists /\ DOMAIN tidied = DOMAIN list /\ tidied[i] = o
      /\ \A j \in DOMAIN list \ {i} : tidied[j] = list[j]
  BY <1>2, ReplacedIsList
<1> HIDE DEF tidied
<1>4. /\ CanonicalObject(o) \in KnowledgeObject /\ CanonicalObject(o).stage = "canonical"
      /\ SameEvidence(CanonicalObject(o), o)
  BY <1>2, CanonicalType
<1>5. /\ new \in Lists /\ DOMAIN new = DOMAIN tidied /\ new[i] = CanonicalObject(o)
      /\ \A j \in DOMAIN tidied \ {i} : new[j] = tidied[j]
  BY <1>3, <1>4, ReplacedIsList
<1>6. apply_knowledge_decision(tidied, d) = new
  BY <1>3 DEF apply_knowledge_decision, CanonicalObject
<1>7. [list EXCEPT ![i].text = _normalize_text(@)] = tidied
  BY DEF tidied, o
<1> HIDE DEF new
<1>8. SameEvidence(new[i], list[i])
  BY <1>2, <1>4, <1>5 DEF SameEvidence
<1> QED BY <1>3, <1>4, <1>5, <1>6, <1>7, <1>8

LEMMA SameKey ==
  ASSUME NEW o, NEW q, SameEvidence(o, q), NEW i
  PROVE  build_canonical_key(o, i) = build_canonical_key(q, i)
  BY DEF SameEvidence, build_canonical_key

(* Appending a new record takes nothing from the active ones. *)
LEMMA AppendNew ==
  ASSUME NEW reg \in Registries, NEW r \in Records, NewTo(reg, r), r.status = "active"
  PROVE  /\ append_canonical_record(reg, r) \in Registries
         /\ Active(append_canonical_record(reg, r)) = Active(reg) \cup {r.id}
         /\ append_canonical_record(reg, r)[r.id] = r
         /\ \A a \in Active(reg) : append_canonical_record(reg, r)[a] = reg[a]
<1> DEFINE new == append_canonical_record(reg, r)
<1>1. new \in Registries /\ DOMAIN new = DOMAIN reg \cup {r.id}
  BY AppendedIsRegistry
<1>2. reg \in [DOMAIN reg -> Records]
  BY RegistryType
<1>3. new[r.id] = r
  BY DEF append_canonical_record
<1>4. \A a \in Active(reg) : new[a] = reg[a]
  BY <1>2 DEF append_canonical_record, NewTo, Active
<1>5. \A i \in DOMAIN reg \ (Active(reg) \cup {r.id}) : new[i].status # "active"
  <2> TAKE i \in DOMAIN reg \ (Active(reg) \cup {r.id})
  <2>1. reg[i] \in Records /\ reg[i].status # "active"
    BY <1>2 DEF Active
  <2>2. new[i] = IF reg[i].key = r.key THEN [reg[i] EXCEPT !.status = "superseded"] ELSE reg[i]
    BY DEF append_canonical_record
  <2>3. [reg[i] EXCEPT !.status = "superseded"].status = "superseded"
    BY <2>1 DEF Records
  <2> HIDE DEF new
  <2> QED BY <2>1, <2>2, <2>3
<1> HIDE DEF new
<1>6. Active(new) = Active(reg) \cup {r.id}
  BY <1>1, <1>3, <1>4, <1>5 DEF Active
<1> QED BY <1>1, <1>3, <1>4, <1>6 DEF new

(* What is not skipped is new to the registry of the batch. *)
LEMMA NotSkipped ==
  ASSUME NEW reg, NEW o, NEW i, skip_reason(reg, o, i) = "none"
  PROVE  /\ i \notin Active(reg)
         /\ \A a \in Active(reg) : reg[a].key # build_canonical_key(o, i)
  BY DEF skip_reason

LEMMA PromoteKeepsBatch ==
  ASSUME NEW list \in Lists, NEW reg \in Registries, NEW b \in Batches(list, reg),
         NEW i \in PromotionReady(list)
  PROVE  librarian_promote(b, list[i], i) \in Batches(list, reg)
<1> DEFINE promoted == apply_knowledge_decision([b.list EXCEPT ![i].text = _normalize_text(@)],
                         [object |-> i, type |-> "promote", target |-> "canonical"])
           r == build_canonical_record(promoted[i], i)
           c == [list |-> promoted, records |-> Append(b.records, r),
                 reg |-> append_canonical_record(b.reg, r)]
<1>1. CASE skip_reason(b.reg, list[i], i) # "none"
  BY <1>1 DEF librarian_promote
<1>2. CASE skip_reason(b.reg, list[i], i) = "none"
  <2>1. librarian_promote(b, list[i], i) = c
    BY <1>2 DEF librarian_promote
  <2>2. /\ b.list \in Lists /\ b.records \in Seq(Records) /\ b.reg \in Registries
        /\ DOMAIN b.list = DOMAIN list /\ Promoted(b, list) /\ Fresh(b, reg)
    BY DEF Batches, Batch
  <2>3. i \in DOMAIN list /\ i \in DOMAIN b.list /\ i \in Nat
    BY <2>2, ListType DEF PromotionReady
  <2>4. /\ promoted \in Lists /\ DOMAIN promoted = DOMAIN list
        /\ promoted[i] \in KnowledgeObject
        /\ promoted[i].stage = "canonical" /\ SameEvidence(promoted[i], b.list[i])
        /\ \A j \in DOMAIN list \ {i} : promoted[j] = b.list[j]
    BY <2>2, <2>3, PromotedList
  <2> HIDE DEF promoted
  <2>5. r \in Records /\ r.id = i /\ r.status = "active"
        /\ r.key = build_canonical_key(promoted[i], i)
    <3>1. r \in Records /\ r.id = i
      BY <2>3, <2>4, RecordType
    <3> QED BY <3>1 DEF build_canonical_record
  <2>6. r.key = build_canonical_key(list[i], i)
    <3>1. SameEvidence(promoted[i], list[i])
      BY <2>2, <2>3, <2>4 DEF SameEvidence, Promoted
    <3> QED BY <2>5, <3>1, SameKey
  <2> HIDE DEF r
  <2>7. NewTo(b.reg, r)
    BY <1>2, <2>5, <2>6, NotSkipped DEF NewTo
  <2>8. /\ c.reg \in Registries /\ Active(c.reg) = Active(b.reg) \cup {i}
        /\ c.reg[i] = r /\ \A a \in Active(b.reg) : c.reg[a] = b.reg[a]
    BY <2>2, <2>5, <2>7, AppendNew
  <2>9. /\ c.records \in Seq(Records) /\ DOMAIN c.records = DOMAIN b.records \cup {Len(b.records) + 1}
        /\ c.records[Len(b.records) + 1] = r /\ Len(b.records) + 1 \notin DOMAIN b.records
        /\ \A k \in DOMAIN b.records : c.records[k] = b.records[k]
    BY <2>2, <2>5
  <2>10. c.list = promoted
    OBVIOUS
  <2>11. c \in Batch
    BY <2>4, <2>8, <2>9 DEF Batch
  <2> HIDE DEF c
  <2>12. Promoted(c, list)
    <3>1. \A j \in DOMAIN list : SameEvidence(c.list[j], list[j])
      BY <2>2, <2>3, <2>4, <2>10 DEF Promoted, SameEvidence
    <3>2. \A k \in DOMAIN c.records : /\ c.records[k].id \in PromotionReady(list)
                                     /\ c.list[c.records[k].id].stage = "canonical"
      <4> TAKE k \in DOMAIN c.records
      <4>1. CASE k \in DOMAIN b.records
        <5>1. b.records[k].id \in PromotionReady(list)
              /\ b.list[b.records[k].id].stage = "canonical"
          BY <4>1, <2>2 DEF Promoted
        <5>2. b.records[k].id \in DOMAIN list
          BY <5>1 DEF PromotionReady
        <5> QED BY <4>1, <5>1, <5>2, <2>4, <2>9, <2>10
      <4>2. CASE k = Len(b.records) + 1
        BY <4>2, <2>4, <2>5, <2>9, <2>10
      <4> QED BY <4>1, <4>2, <2>9
    <3>3. \A j \in DOMAIN list : \/ c.list[j] = list[j]
                                \/ \E k \in DOMAIN c.records : c.records[k].id = j
      <4> TAKE j \in DOMAIN list
      <4>1. CASE j = i
        BY <4>1, <2>5, <2>9
      <4>2. CASE j # i
        BY <4>2, <2>2, <2>4, <2>9, <2>10 DEF Promoted
      <4> QED BY <4>1, <4>2
    <3> QED BY <3>1, <3>2, <3>3 DEF Promoted
  <2>13. Fresh(c, reg)
    <3>1. \A a \in Active(reg) : a \in Active(c.reg) /\ c.reg[a] = reg[a]
      BY <2>2, <2>8 DEF Fresh
    <3>2. NewTo(reg, r)
      BY <2>2, <2>7 DEF Fresh, NewTo
    <3>3. \A k \in DOMAIN b.records : b.records[k].id # r.id /\ b.records[k].key # r.key
      BY <2>2, <2>7 DEF Fresh, NewTo
    <3>4. \A k \in DOMAIN c.records : /\ c.records[k].id \in Active(c.reg)
                                     /\ c.reg[c.records[k].id] = c.records[k]
                                     /\ NewTo(reg, c.records[k])
      BY <2>2, <2>5, <2>8, <2>9, <3>2 DEF Fresh
    <3>5. Distinct(c.records)
      BY <2>2, <2>9, <3>3 DEF Fresh, Distinct
    <3> QED BY <3>1, <3>4, <3>5 DEF Fresh
  <2>14. DOMAIN c.list = DOMAIN list
    BY <2>4, <2>10
  <2>15. c \in Batches(list, reg)
    BY <2>11, <2>12, <2>13, <2>14 DEF Batches
  <2> QED BY <2>1, <2>15
<1> QED BY <1>1, <1>2

LEMMA EmptyBatch ==
  ASSUME NEW list \in Lists, NEW reg \in Registries
  PROVE  [list |-> list, records |-> <<>>, reg |-> reg] \in Batches(list, reg)
  BY DEF Batches, Batch, Promoted, Fresh, Distinct, SameEvidence

LEMMA LibrarianBatch ==
  ASSUME NEW list \in Lists, NEW wanted, NEW reg \in Registries
  PROVE  LibrarianAgent(list, wanted, reg) \in Batches(list, reg)
<1> DEFINE candidates == {i \in PromotionReady(list) : wanted = {} \/ i \in wanted}
           last == IF candidates = {} THEN 0 ELSE Max(candidates)
           start == [list |-> list, records |-> <<>>, reg |-> reg]
           step(i, before) == IF i \in candidates THEN librarian_promote(before, list[i], i)
                              ELSE before
           S == Batches(list, reg)
           f == [p \in Nat \X S |-> step(p[1] + 1, p[2])]
<1>1. last \in Nat
  <2>1. DOMAIN list \in SUBSET Nat /\ IsFiniteSet(DOMAIN list)
    BY ListType
  <2>2. candidates \subseteq DOMAIN list
    BY DEF PromotionReady
  <2>3. IsFiniteSet(candidates) /\ candidates \subseteq Nat
    BY <2>1, <2>2, FS_Subset
  <2> HIDE DEF candidates
  <2>4. CASE candidates # {}
    <3>1. \E n \in candidates : \A m \in candidates : m <= n
      BY <2>3, <2>4, GreatestOfFinite
    <3>2. \E n \in candidates : \A m \in candidates : n >= m
      BY <2>3, <3>1
    <3>3. Max(candidates) \in candidates
      BY <3>2 DEF Max
    <3> QED BY <2>3, <2>4, <3>3
  <2>5. CASE candidates = {}
    BY <2>5
  <2> QED BY <2>4, <2>5
<1> HIDE DEF last
<1>2. \A i, b : b \in S => step(i, b) \in S
  BY PromoteKeepsBatch
<1>3. start \in S
  BY EmptyBatch
<1> HIDE DEF S, start
<1>4. f \in [Nat \X S -> S] /\ \A n \in Nat, b \in S : f[<<n, b>>] = step(n + 1, b)
  <2> HIDE DEF step
  <2> QED BY <1>2
<1>5. step(0, start) \in S
  BY <1>2, <1>3
<1> HIDE DEF f
<1>6. PICK h : Run(h, S, step(0, start), f, last)
  <2> DEFINE a == step(0, start)
  <2>1. a \in S
    BY <1>5
  <2>2. f \in [Nat \X S -> S]
    BY <1>4
  <2> HIDE DEF step, a
  <2>3. \E h : Run(h, S, a, f, last)
    BY <1>1, <2>1, <2>2, FiniteRecursion
  <2> QED BY <2>3 DEF a
<1> DEFINE Rec(g) == [i \in 0 .. last |-> LET before == IF i > 0 THEN g[i - 1] ELSE start
                                         IN IF i \in candidates
                                            THEN librarian_promote(before, list[i], i)
                                            ELSE before]
<1>7. \A i \in 0 .. last : h[i] = step(i, IF i > 0 THEN h[i - 1] ELSE start)
  <2> TAKE i \in 0 .. last
  <2> HIDE DEF step
  <2>1. CASE i = 0
    BY <1>6, <2>1 DEF Run
  <2>2. CASE i # 0
    <3>1. i - 1 \in 0 .. last - 1 /\ i - 1 \in Nat /\ h[i - 1] \in S /\ (i - 1) + 1 = i
      BY <1>1, <1>6, <2>2 DEF Run
    <3>2. h[i] = f[<<i - 1, h[i - 1]>>]
      BY <1>6, <3>1 DEF Run
    <3>3. h[i] = step(i, h[i - 1])
      BY <1>4, <3>1, <3>2
    <3> QED BY <2>2, <3>1, <3>3
  <2> QED BY <2>1, <2>2
<1>8. h = Rec(h)
  BY <1>6, <1>7 DEF Run
<1>9. \A g : g = Rec(g) => g[last] \in S
  <2> SUFFICES ASSUME NEW g, g = Rec(g) PROVE g[last] \in S
    OBVIOUS
  <2> DEFINE T == {n \in 0 .. last : g[n] \notin S}
  <2> SUFFICES ASSUME T # {} PROVE FALSE
    BY <1>1
  <2>1. PICK n \in T : \A m \in T : n <= m
    <3>1. T \in SUBSET Nat
      OBVIOUS
    <3> HIDE DEF T
    <3> QED BY <3>1, LeastNatural
  <2>2. n \in 0 .. last /\ g[n] = step(n, IF n > 0 THEN g[n - 1] ELSE start)
    OBVIOUS
  <2>3. n > 0 => g[n - 1] \in S
    BY <1>1, <2>1
  <2> HIDE DEF step, Rec
  <2> QED BY <1>2, <1>3, <2>1, <2>2, <2>3
<1>10. LibrarianAgent(list, wanted, reg) = (CHOOSE g : g = Rec(g))[last]
  BY DEF LibrarianAgent, last, start
<1>11. (CHOOSE g : g = Rec(g)) = Rec(CHOOSE g : g = Rec(g))
  <2> HIDE DEF Rec
  <2> QED BY <1>8
<1> HIDE DEF Rec
<1> QED BY <1>9, <1>10, <1>11 DEF S

-----------------------------------------------------------------------------
(* Types of the state and of commands in flight *)

Reasons == {"not_retrieval_candidate", "stage_not_verified", "evidence_not_artifact_backed",
            "active"}
DerivedFiles == [index : [reusable : SUBSET Nat, inactive : SUBSET (Nat \X Reasons)],
                 partition : [linked : SUBSET Nat, candidates : SUBSET Nat]]
Files == [state : Lists \cup {None}, knowledge : Lists, derived : DerivedFiles,
          canon : SUBSET Nat]
Plans == {f \in Files : f.state \in Lists}

Evaluated == [judgment : CANONICAL_REUSE_EVAL_JUDGMENTS, citation : Nat, resolved : BOOLEAN]
Summaries == [judgment_counts : [CANONICAL_REUSE_EVAL_JUDGMENTS -> Nat], resolved : Nat,
              unresolved : Nat, latest : Nat \cup {None}]

(* The steps that write something of their own, and those of the librarian. *)
RecordSteps == {"read_registry", "record", "wiki"}
Swapped == {"swap_knowledge", "swap_state", "swap_derived", "swap_canon"}
LibrarianSteps == {"execute", "plan", "review"} \cup Swapped
Plain == {"state", "mirror_state", "store", "mirror_store", "mirror_wiki", "derived", "canon",
          "event", "mirror_event", "copy_event", "summarize", "baseline"}

Writes == [step : RecordSteps, of : Records] \cup [step : {"decision"}, of : Decision]
          \cup [step : {"evaluation"}, of : Evaluated]
          \cup [step : Plain \cup LibrarianSteps, of : {None}]
(* What a command other than a run may write. *)
UserWrites == {w \in Writes : w.step \notin LibrarianSteps}

(* What one other than a decision may: no record but the staged one's.     *)
OtherWrites == {w \in UserWrites : w.step = "record" => w.of.id = 0}

Authorities == {"task-state", "operator-gated", "librarian", "migration"}
OtherAuthorities == {"task-state", "operator-gated", "migration"}
InFlight == [todo : Seq(Writes), list : Lists, authority : Authorities, wanted : SUBSET Nat,
             seen : Registries, registered : SUBSET Nat, round : Nat,
             planned : Files \cup {None}, original : Files \cup {None},
             said : Summaries \cup {None}]

StoresTyped ==
  /\ state \in Lists \cup {None} /\ store \in Lists /\ files \in Files
  /\ decisions \in Seq(Decision) /\ registry \in Registries
  /\ evaluation \in [records : Seq(Evaluated), baseline : Summaries \cup {None}]
  /\ events \in [sql : Nat, file : Nat]
CountsTyped == /\ commands \in 0 .. CommandBound /\ crashes \in 0 .. CrashBound
               /\ trouble \subseteq {"overlap", "error", "refresh"}

(* Before files are replaced, what they will hold and held is known. *)
PlansReady(c) == (\E i \in DOMAIN c.todo : c.todo[i].step \in Swapped)
                   => c.planned \in Plans /\ c.original \in Files

(* A run has a list to work on, in SQLite once it has saved the state. *)
RunnerKnows(c, row, seen) ==
  (\E i \in DOMAIN c.todo : c.todo[i].step \in LibrarianSteps)
    => seen \in Lists /\ (row \in Lists \/ Head(c.todo).step = "state")

TypeInv ==
  /\ StoresTyped /\ CountsTyped /\ cmd \in [Procs -> InFlight]
  /\ \A p \in Procs : PlansReady(cmd[p]) /\ RunnerKnows(cmd[p], state, load_state)

LEMMA TypeInvIsTypeOK == ASSUME TypeInv PROVE TypeOK
<1> USE DEF TypeInv, StoresTyped, CountsTyped
<1>1. (state = None \/ IsList(state)) /\ IsList(store)
  BY ListsAreLists
<1>2. (files.state = None \/ IsList(files.state)) /\ IsList(files.knowledge)
      /\ files.canon \subseteq Nat
  BY ListsAreLists DEF Files
<1>3. \A i \in DOMAIN registry : registry[i] \in Records /\ registry[i].id = i
  BY RegistryType
<1>4. \A k \in DOMAIN decisions : decisions[k] \in Decision
  OBVIOUS
<1>5. evaluation.records \in Seq(Evaluated) /\ events.sql \in Nat /\ events.file \in Nat
  OBVIOUS
<1> QED BY <1>1, <1>2, <1>3, <1>4, <1>5 DEF TypeOK, Evaluated

LEMMA DerivedType == ASSUME NEW list \in Lists PROVE Derived(list) \in DerivedFiles
<1>1. DOMAIN list \in SUBSET Nat /\ list \in [DOMAIN list -> KnowledgeObject]
  BY ListType
<1>2. \A o \in KnowledgeObject : invalidation_reason_for(o) \in Reasons
  BY Zenon DEF invalidation_reason_for, Reasons
<1>3. build_knowledge_index(list) \in [reusable : SUBSET Nat, inactive : SUBSET (Nat \X Reasons)]
  BY <1>1, <1>2 DEF build_knowledge_index
<1>4. build_knowledge_partition(list) \in [linked : SUBSET Nat, candidates : SUBSET Nat]
  BY <1>1 DEF build_knowledge_partition
<1> QED BY <1>3, <1>4 DEF Derived, DerivedFiles

LEMMA SummaryType ==
  ASSUME NEW records \in Seq(Evaluated)
  PROVE  build_canonical_reuse_evaluation_summary(records) \in Summaries
<1>1. DOMAIN records = 1 .. Len(records) /\ Len(records) \in Nat
  OBVIOUS
<1>2. IsFiniteSet(DOMAIN records)
  BY <1>1, FS_Interval
<1>3. ASSUME NEW T \in SUBSET DOMAIN records PROVE Cardinality(T) \in Nat
  BY <1>2, FS_Subset, FS_CardinalityType
<1>4. \A g : Cardinality({k \in DOMAIN records : records[k].judgment = g}) \in Nat
  BY <1>3
<1>5. /\ Cardinality({k \in DOMAIN records : records[k].resolved}) \in Nat
      /\ Cardinality({k \in DOMAIN records : ~records[k].resolved}) \in Nat
  BY <1>3
<1>6. (IF records = <<>> THEN None ELSE records[Len(records)].citation) \in Nat \cup {None}
  <2>1. CASE records # <<>>
    <3>1. records[Len(records)] \in Evaluated
      BY <2>1
    <3> QED BY <2>1, <3>1 DEF Evaluated
  <2>2. CASE records = <<>>
    BY <2>2
  <2> QED BY <2>1, <2>2
<1> HIDE DEF Evaluated
<1> QED BY <1>4, <1>5, <1>6 DEF build_canonical_reuse_evaluation_summary, Summaries

LEMMA IdleType == Idle \in InFlight /\ Idle.todo = <<>>
<1>1. <<>> \in Seq(Writes) /\ "task-state" \in Authorities /\ {} \in SUBSET Nat /\ 0 \in Nat
  BY DEF Authorities
<1>2. Nothing \in Lists /\ Nothing \in Registries
  BY NothingIsList
<1>3. Idle \in InFlight
  <2> HIDE DEF Nothing
  <2> QED BY <1>1, <1>2 DEF Idle, InFlight
<1> QED BY <1>3 DEF Idle

(* A command after its first step. *)
After(c) == IF Tail(c.todo) = <<>> THEN Idle ELSE [c EXCEPT !.todo = Tail(@)]

LEMMA AfterType ==
  ASSUME NEW c \in InFlight, c.todo # <<>>
  PROVE  /\ After(c) \in InFlight /\ After(c).todo = Tail(c.todo)
         /\ After(c).todo # <<>> =>
              /\ After(c).list = c.list /\ After(c).authority = c.authority
              /\ After(c).seen = c.seen /\ After(c).planned = c.planned
              /\ After(c).original = c.original /\ After(c).registered = c.registered
              /\ After(c).said = c.said /\ After(c).round = c.round
              /\ After(c).wanted = c.wanted
         /\ After(c).todo = <<>> => After(c) = Idle
<1>1. Tail(c.todo) \in Seq(Writes)
  BY DEF InFlight
<1>2. CASE Tail(c.todo) = <<>>
  BY <1>2, IdleType DEF After
<1>3. CASE Tail(c.todo) # <<>>
  <2>1. After(c) = [c EXCEPT !.todo = Tail(c.todo)]
    BY <1>3 DEF After
  <2> QED BY <1>1, <1>3, <2>1 DEF InFlight
<1> QED BY <1>2, <1>3

LEMMA TailElements ==
  ASSUME NEW todo \in Seq(Writes), todo # <<>>
  PROVE  /\ Tail(todo) \in Seq(Writes) /\ Len(Tail(todo)) = Len(todo) - 1
         /\ \A i \in DOMAIN Tail(todo) : i + 1 \in DOMAIN todo /\ Tail(todo)[i] = todo[i + 1]
         /\ Head(todo) = todo[1] /\ 1 \in DOMAIN todo /\ Head(todo) \in Writes
  OBVIOUS

LEMMA LoadType ==
  ASSUME NEW row \in Lists \cup {None}, NEW file \in Lists \cup {None}
  PROVE  (IF row # None THEN row ELSE file) \in Lists <=> row \in Lists \/ file \in Lists
  OBVIOUS

LEMMA LoadedIsList ==
  ASSUME StoresTyped
  PROVE  /\ load_state \in Lists \cup {None}
         /\ load_state \in Lists <=> state \in Lists \/ files.state \in Lists
  BY LoadType DEF StoresTyped, Files, load_state, task_exists

LEMMA ViewIsList == ASSUME StoresTyped PROVE load_task_knowledge_view \in Lists
  BY DEF StoresTyped, Files, load_task_knowledge_view, task_has_knowledge

(* A step of one command, that leaves the others their lists.              *)
LEMMA StepKeepsTypes ==
  ASSUME TypeInv, NEW p \in Procs, NEW c \in InFlight, cmd' = [cmd EXCEPT ![p] = c],
         StoresTyped', CountsTyped', PlansReady(c), RunnerKnows(c, state', load_state'),
         state \in Lists => state' \in Lists,
         load_state \in Lists => load_state' \in Lists
  PROVE  TypeInv'
<1>1. cmd' \in [Procs -> InFlight] /\ cmd'[p] = c /\ \A q \in Procs \ {p} : cmd'[q] = cmd[q]
  BY DEF TypeInv
<1>2. ASSUME NEW q \in Procs
      PROVE  PlansReady(cmd'[q]) /\ RunnerKnows(cmd'[q], state', load_state')
  <2>1. CASE q = p
    BY <1>1, <2>1
  <2>2. CASE q # p
    <3>1. PlansReady(cmd[q]) /\ RunnerKnows(cmd[q], state, load_state) /\ cmd'[q] = cmd[q]
      BY <1>1, <2>2 DEF TypeInv
    <3>2. RunnerKnows(cmd[q], state', load_state')
      BY <3>1 DEF RunnerKnows
    <3> QED BY <3>1, <3>2
  <2> QED BY <2>1, <2>2
<1>3. /\ StoresTyped' /\ CountsTyped' /\ cmd' \in [Procs -> InFlight]
      /\ \A q \in Procs : PlansReady(cmd'[q]) /\ RunnerKnows(cmd'[q], state', load_state')
  BY <1>1, <1>2
<1> QED BY <1>3 DEF TypeInv

LEMMA AfterKeeps ==
  ASSUME NEW c \in InFlight, c.todo # <<>>, NEW row, NEW seen, NEW row1, NEW seen1,
         PlansReady(c), RunnerKnows(c, row, seen),
         row \in Lists => row1 \in Lists, seen \in Lists => seen1 \in Lists,
         Head(c.todo).step = "state" => row1 \in Lists
  PROVE  PlansReady(After(c)) /\ RunnerKnows(After(c), row1, seen1)
<1>1. c.todo \in Seq(Writes)
  BY DEF InFlight
<1>2. /\ After(c).todo = Tail(c.todo)
      /\ After(c).todo # <<>> => After(c).planned = c.planned /\ After(c).original = c.original
  BY AfterType
<1>3. \A i \in DOMAIN Tail(c.todo) : i + 1 \in DOMAIN c.todo /\ Tail(c.todo)[i] = c.todo[i + 1]
  BY <1>1, TailElements
<1>4. PlansReady(After(c))
  <2> SUFFICES ASSUME NEW i \in DOMAIN After(c).todo, After(c).todo[i].step \in Swapped
               PROVE  After(c).planned \in Plans /\ After(c).original \in Files
    BY DEF PlansReady
  <2>1. i + 1 \in DOMAIN c.todo /\ c.todo[i + 1].step \in Swapped
    BY <1>2, <1>3
  <2>2. c.planned \in Plans /\ c.original \in Files
    BY <2>1 DEF PlansReady
  <2>3. After(c).todo # <<>>
    BY <1>1, <1>2, TailElements
  <2> QED BY <1>2, <2>2, <2>3
<1>5. RunnerKnows(After(c), row1, seen1)
  <2> SUFFICES ASSUME NEW i \in DOMAIN After(c).todo, After(c).todo[i].step \in LibrarianSteps
               PROVE  seen1 \in Lists /\ (row1 \in Lists \/ Head(After(c).todo).step = "state")
    BY DEF RunnerKnows
  <2>1. i + 1 \in DOMAIN c.todo /\ c.todo[i + 1].step \in LibrarianSteps
    BY <1>2, <1>3
  <2>2. seen \in Lists /\ (row \in Lists \/ Head(c.todo).step = "state")
    BY <2>1 DEF RunnerKnows
  <2> QED BY <2>2
<1> QED BY <1>4, <1>5

LEMMA DoneKeepsTypes ==
  ASSUME TypeInv, NEW p \in Procs, busy(p), NEW c \in InFlight, c.todo = cmd[p].todo,
         c.planned = cmd[p].planned, c.original = cmd[p].original,
         proceed(p, c), StoresTyped', CountsTyped',
         state \in Lists => state' \in Lists,
         load_state \in Lists => load_state' \in Lists,
         next(p, "state") => state' \in Lists
  PROVE  TypeInv'
<1>1. c.todo # <<>> /\ cmd' = [cmd EXCEPT ![p] = After(c)]
  BY DEF busy, proceed, After
<1>2. PlansReady(c) /\ RunnerKnows(c, state, load_state)
  BY DEF TypeInv, PlansReady, RunnerKnows
<1>3. After(c) \in InFlight
  BY <1>1, AfterType
<1>4. Head(c.todo).step = "state" => state' \in Lists
  BY DEF next
<1>5. PlansReady(After(c)) /\ RunnerKnows(After(c), state', load_state')
  BY <1>1, <1>2, <1>4, AfterKeeps
<1> QED BY <1>1, <1>3, <1>5, StepKeepsTypes

(* A command that ends, or is cut off, leaves nothing in flight.           *)
LEMMA EndKeepsTypes ==
  ASSUME TypeInv, NEW p \in Procs, cmd' = [cmd EXCEPT ![p] = Idle], StoresTyped', CountsTyped',
         state \in Lists => state' \in Lists,
         load_state \in Lists => load_state' \in Lists
  PROVE  TypeInv'
<1>1. Idle \in InFlight /\ PlansReady(Idle) /\ RunnerKnows(Idle, state', load_state')
  BY IdleType DEF PlansReady, RunnerKnows
<1> QED BY <1>1, StepKeepsTypes

-----------------------------------------------------------------------------
(* What commands begin with *)

LEMMA StepsType ==
  ASSUME NEW names \in Seq(Plain)
  PROVE  /\ Steps(names) \in Seq(OtherWrites) /\ Len(Steps(names)) = Len(names)
         /\ \A k \in DOMAIN Steps(names) : k \in DOMAIN names /\ Steps(names)[k].step = names[k]
<1>1. \A n \in Plain : Write(n, None) \in OtherWrites /\ Write(n, None).step = n
  BY DEF Write, OtherWrites, UserWrites, Writes, Plain, LibrarianSteps, Swapped
<1>2. DOMAIN names = 1 .. Len(names) /\ Len(names) \in Nat
      /\ \A k \in DOMAIN names : names[k] \in Plain
  OBVIOUS
<1>3. Steps(names) \in [1 .. Len(names) -> OtherWrites]
  BY <1>1, <1>2 DEF Steps
<1>4. \A k \in DOMAIN names : Steps(names)[k].step = names[k]
  BY <1>1, <1>2 DEF Steps
<1> QED BY <1>2, <1>3, <1>4

LEMMA SaveTypes == /\ SaveState \in Seq(OtherWrites) /\ SaveKnowledge \in Seq(OtherWrites)
                   /\ Canon \in Seq(OtherWrites) /\ Event \in Seq(OtherWrites)
<1>1. /\ <<"state", "mirror_state">> \in Seq(Plain)
      /\ <<"state", "mirror_state", "store", "mirror_store", "derived">> \in Seq(Plain)
      /\ <<"canon">> \in Seq(Plain) /\ <<"event", "mirror_event">> \in Seq(Plain)
  BY DEF Plain
<1> QED BY <1>1, StepsType DEF SaveState, SaveKnowledge, Canon, Event

LEMMA RecordWrites ==
  ASSUME NEW record \in Records
  PROVE  /\ Record(record) \in Seq(UserWrites)
         /\ <<Write("wiki", record)>> \in Seq(OtherWrites)
         /\ record.id = 0 => Record(record) \in Seq(OtherWrites)
<1>1. \A n \in RecordSteps : Write(n, record) \in UserWrites
                              /\ (n # "record" \/ record.id = 0 => Write(n, record) \in OtherWrites)
  BY DEF Write, OtherWrites, UserWrites, Writes, RecordSteps, LibrarianSteps, Swapped
<1> QED BY <1>1 DEF Record, RecordSteps

LEMMA DecisionWrite ==
  ASSUME NEW d \in Decision
  PROVE  <<Write("decision", d)>> \in Seq(UserWrites)
  BY DEF Write, UserWrites, Writes, LibrarianSteps, Swapped

LEMMA EvaluationWrite ==
  ASSUME NEW e \in Evaluated
  PROVE  <<Write("evaluation", e)>> \in Seq(OtherWrites)
  BY DEF Write, OtherWrites, UserWrites, Writes, LibrarianSteps, Swapped

LEMMA IdleWith ==
  ASSUME NEW list \in Lists, NEW authority \in Authorities
  PROVE  /\ [Idle EXCEPT !.list = list] \in InFlight
         /\ [Idle EXCEPT !.authority = authority] \in InFlight
         /\ [Idle EXCEPT !.list = list, !.authority = authority] \in InFlight
<1>1. Idle \in InFlight
  BY IdleType
<1> HIDE DEF Idle
<1> QED BY <1>1 DEF InFlight

(* Such a command begins with nothing read of the registry, and is no run. *)
Starting == {c \in InFlight : c.seen = Nothing /\ c.authority # "librarian"}

LEMMA IdleStarts ==
  ASSUME NEW list \in Lists, NEW authority \in OtherAuthorities
  PROVE  /\ Idle \in Starting
         /\ [Idle EXCEPT !.list = list] \in Starting
         /\ [Idle EXCEPT !.authority = authority] \in Starting
         /\ [Idle EXCEPT !.list = list, !.authority = authority] \in Starting
<1>1. Idle \in InFlight /\ Idle.seen = Nothing /\ Idle.authority = "task-state"
  BY IdleType DEF Idle
<1>2. /\ [Idle EXCEPT !.list = list] \in InFlight
      /\ [Idle EXCEPT !.authority = authority] \in InFlight
      /\ [Idle EXCEPT !.list = list, !.authority = authority] \in InFlight
  BY IdleWith DEF Authorities, OtherAuthorities
<1>3. /\ [Idle EXCEPT !.list = list].seen = Nothing
      /\ [Idle EXCEPT !.list = list].authority = "task-state"
      /\ [Idle EXCEPT !.authority = authority].seen = Nothing
      /\ [Idle EXCEPT !.authority = authority].authority = authority
      /\ [Idle EXCEPT !.list = list, !.authority = authority].seen = Nothing
      /\ [Idle EXCEPT !.list = list, !.authority = authority].authority = authority
  BY DEF Idle
<1> HIDE DEF Idle
<1> QED BY <1>1, <1>2, <1>3 DEF Starting, OtherAuthorities

LEMMA UserIsWrites ==
  /\ UserWrites \subseteq Writes /\ Seq(UserWrites) \subseteq Seq(Writes)
  /\ Seq(OtherWrites) \subseteq Seq(UserWrites)
  BY DEF UserWrites, OtherWrites

LEMMA BeginKeepsTypes ==
  ASSUME TypeInv, NEW p \in Procs, NEW what, NEW todo \in Seq(UserWrites), NEW c \in InFlight,
         begin(p, what, todo, c)
  PROVE  TypeInv'
<1> DEFINE d == [c EXCEPT !.todo = todo]
<1>1. d \in InFlight /\ d.todo = todo
  BY UserIsWrites DEF InFlight
<1>2. cmd' = [cmd EXCEPT ![p] = d] /\ UNCHANGED <<stores, crashes>>
  BY DEF begin
<1>3. StoresTyped' /\ load_state' = load_state /\ state' = state
  BY <1>2 DEF TypeInv, StoresTyped, stores, load_state, task_exists
<1>4. CountsTyped'
  <2>1. commands' \in Nat /\ commands' <= CommandBound
    BY KnowledgeAssumption DEF begin, TypeInv, CountsTyped
  <2>2. commands' \in 0 .. CommandBound
    BY <2>1, KnowledgeAssumption
  <2>3. trouble' \subseteq {"overlap", "error", "refresh"}
    BY DEF begin, TypeInv, CountsTyped
  <2> QED BY <1>2, <2>2, <2>3 DEF TypeInv, CountsTyped
<1>5. \A i \in DOMAIN todo : todo[i].step \notin LibrarianSteps
  BY DEF UserWrites
<1> HIDE DEF d
<1>6. PlansReady(d) /\ RunnerKnows(d, state', load_state')
  BY <1>1, <1>5 DEF PlansReady, RunnerKnows, LibrarianSteps
<1> QED BY <1>1, <1>2, <1>3, <1>4, <1>6, StepKeepsTypes

LEMMA KnownIsList ==
  ASSUME StoresTyped, load_state # None
  PROVE  /\ load_state \in Lists /\ Known(load_task_knowledge_view) \in Lists
  BY LoadedIsList, ViewIsList DEF Known

LEMMA CaptureAuthority ==
  ASSUME NEW req \in Captures
  PROVE  capture_authority(req) \in Authorities /\ capture_authority(req) \in OtherAuthorities
  BY DEF capture_authority, Authorities, OtherAuthorities

(* A command other than a run and a decision that begins.                  *)
OtherBegins(p) ==
  \E what, todo, c : todo \in Seq(OtherWrites) /\ c \in Starting /\ begin(p, what, todo, c)

LEMMA create_taskBegins == ASSUME TypeInv, NEW p \in Procs, create_task(p) PROVE OtherBegins(p)
<1>1. PICK req \in Created :
        begin(p, "create", SaveKnowledge \o Canon \o Event,
              [Idle EXCEPT !.list = build_knowledge_objects(req, 1),
                           !.authority = capture_authority(req)])
  BY DEF create_task
<1>2. req \in Captures
  BY KnowledgeAssumption
<1>3. /\ build_knowledge_objects(req, 1) \in Lists /\ capture_authority(req) \in OtherAuthorities
  BY <1>2, BuiltIsList, CaptureAuthority
<1> DEFINE c == [Idle EXCEPT !.list = build_knowledge_objects(req, 1),
                             !.authority = capture_authority(req)]
           todo == SaveKnowledge \o Canon \o Event
<1>4. c \in Starting
  BY <1>3, IdleStarts
<1>5. todo \in Seq(OtherWrites)
  BY SaveTypes
<1>6. begin(p, "create", todo, c)
  BY <1>1
<1> HIDE DEF c, todo
<1> QED BY <1>4, <1>5, <1>6, Zenon DEF OtherBegins

LEMMA update_task_planning_handoffBegins ==
  ASSUME TypeInv, NEW p \in Procs, update_task_planning_handoff(p) PROVE OtherBegins(p)
<1> DEFINE c == [Idle EXCEPT !.list = load_state]
           todo == SaveState \o Event
<1>1. load_state \in Lists
  BY KnownIsList DEF TypeInv, update_task_planning_handoff
<1>2. c \in Starting
  BY <1>1, IdleStarts DEF OtherAuthorities
<1>3. todo \in Seq(OtherWrites)
  BY SaveTypes
<1>4. begin(p, "handoff", todo, c)
  BY DEF update_task_planning_handoff
<1> HIDE DEF c, todo
<1> QED BY <1>2, <1>3, <1>4, Zenon DEF OtherBegins

LEMMA append_task_knowledge_captureBegins ==
  ASSUME TypeInv, NEW p \in Procs, append_task_knowledge_capture(p) PROVE OtherBegins(p)
<1> DEFINE new(req) == build_knowledge_objects(req, Cardinality(DOMAIN load_state) + 1)
           c(req) == [Idle EXCEPT !.list = Extended(load_state, new(req)),
                                  !.authority = capture_authority(req)]
           todo == SaveKnowledge \o Event
<1>1. PICK req \in Requests : begin(p, "capture", todo, c(req))
  BY DEF append_task_knowledge_capture
<1>2. req \in Captures /\ capture_authority(req) \in OtherAuthorities
  BY KnowledgeAssumption, CaptureAuthority
<1>3. load_state \in Lists
  BY KnownIsList DEF TypeInv, append_task_knowledge_capture
<1>4. Cardinality(DOMAIN load_state) + 1 \in Nat \ {0}
  <2>1. IsFiniteSet(DOMAIN load_state)
    BY <1>3, ListType
  <2>2. Cardinality(DOMAIN load_state) \in Nat
    BY <2>1, FS_CardinalityType
  <2> QED BY <2>2
<1>5. new(req) \in Lists
  BY <1>2, <1>4, BuiltIsList
<1> HIDE DEF new
<1>6. Extended(load_state, new(req)) \in Lists
  BY <1>3, <1>5, ExtendedIsList
<1>7. c(req) \in Starting
  BY <1>2, <1>6, IdleStarts
<1>8. todo \in Seq(OtherWrites)
  BY SaveTypes
<1> HIDE DEF c, todo
<1> QED BY <1>1, <1>7, <1>8, Zenon DEF OtherBegins

(* What a decision writes: a promotion to canonical writes a record.       *)
PromotesCanonical(d) == d.type = "promote" /\ d.target = "canonical"
Middle(d, record) == IF PromotesCanonical(d) THEN Record(record) ELSE <<>>
Deciding(d, record) ==
  SaveKnowledge \o <<Write("decision", d)>> \o Middle(d, record) \o Canon \o Event

LEMMA DecideBegins ==
  ASSUME TypeInv, NEW p \in Procs, decide_task_knowledge(p)
  PROVE  \E d \in Decision, record \in Records, c \in Starting :
           LET known == Known(load_task_knowledge_view)
           IN /\ load_state # None /\ known \in Lists
              /\ d.object \in DOMAIN known /\ decision_allowed(known, d)
              /\ c.list = apply_knowledge_decision(known, d)
              /\ c.list \in Lists /\ DOMAIN c.list = DOMAIN known /\ c.authority # "migration"
              /\ record.id = d.object
              /\ begin(p, "decide", Deciding(d, record), c)
<1> DEFINE known == Known(load_task_knowledge_view)
<1>1. PICK i \in 0 .. CommandBound * 2, type \in {"promote", "reject"},
           target \in {"reuse", "canonical"} :
        LET d == [object |-> i, type |-> type, target |-> target]
            promotes == type = "promote" /\ target = "canonical"
            list == apply_knowledge_decision(known, d)
        IN /\ decision_allowed(known, d)
           /\ begin(p, "decide",
                SaveKnowledge \o <<Write("decision", d)>>
                  \o (IF promotes THEN Record(build_canonical_record(list[i], i)) ELSE <<>>)
                  \o Canon \o Event,
                [Idle EXCEPT !.list = list,
                   !.authority = IF promotes THEN "operator-gated" ELSE "task-state"])
  BY DEF decide_task_knowledge
<1> DEFINE d == [object |-> i, type |-> type, target |-> target]
           promotes == type = "promote" /\ target = "canonical"
           list == apply_knowledge_decision(known, d)
           record == build_canonical_record(list[i], i)
           authority == IF promotes THEN "operator-gated" ELSE "task-state"
           c == [Idle EXCEPT !.list = list, !.authority = authority]
<1>2. i \in Nat
  BY KnowledgeAssumption
<1>3. d \in Decision /\ d.object = i /\ (PromotesCanonical(d) <=> promotes)
  BY <1>2 DEF Decision, PromotesCanonical
<1>4. known \in Lists /\ load_state # None
  BY KnownIsList DEF TypeInv, decide_task_knowledge
<1>5. i \in DOMAIN known /\ decision_allowed(known, d)
  BY <1>1 DEF decision_allowed
<1>6. begin(p, "decide", Deciding(d, record), c)
  BY <1>1 DEF Deciding, Middle, PromotesCanonical
<1> HIDE DEF known, d
<1>7. list \in Lists /\ DOMAIN list = DOMAIN known
  BY <1>3, <1>4, <1>5, DecidedIsList
<1> HIDE DEF list
<1>8. record \in Records /\ record.id = i
  BY <1>2, <1>5, <1>7, ListType, RecordType
<1> HIDE DEF record
<1>9. c \in Starting /\ c.list = list /\ c.authority # "migration"
  <2>1. authority \in OtherAuthorities /\ authority # "migration"
    BY DEF OtherAuthorities
  <2>2. c.list = list /\ c.authority = authority
    BY DEF Idle
  <2> HIDE DEF authority
  <2> QED BY <1>7, <2>1, <2>2, IdleStarts
<1> HIDE DEF c
<1> QED BY <1>3, <1>4, <1>5, <1>6, <1>7, <1>8, <1>9 DEF list, known

LEMMA promote_stage_candidate_commandBegins ==
  ASSUME TypeInv, NEW p \in Procs, promote_stage_candidate_command(p) PROVE OtherBegins(p)
<1> DEFINE todo == <<Write("wiki", StagedRecord)>> \o Steps(<<"mirror_wiki">>)
                     \o Record(StagedRecord) \o Canon
           c == [Idle EXCEPT !.authority = "operator-gated"]
<1>1. begin(p, "stage", todo, c)
  BY DEF promote_stage_candidate_command
<1>2. c \in Starting
  BY NothingIsList, IdleStarts DEF OtherAuthorities
<1>3. Steps(<<"mirror_wiki">>) \in Seq(OtherWrites)
  <2>1. <<"mirror_wiki">> \in Seq(Plain)
    BY DEF Plain
  <2> QED BY <2>1, StepsType
<1>4. <<Write("wiki", StagedRecord)>> \in Seq(OtherWrites) /\ Record(StagedRecord) \in Seq(OtherWrites)
  BY StagedRecordType, RecordWrites DEF StagedRecord
<1>5. todo \in Seq(OtherWrites)
  BY <1>3, <1>4, SaveTypes
<1> HIDE DEF todo, c
<1> QED BY <1>1, <1>2, <1>5, Zenon DEF OtherBegins

LEMMA refresh_wiki_evidence_commandBegins ==
  ASSUME TypeInv, NEW p \in Procs, refresh_wiki_evidence_command(p) PROVE OtherBegins(p)
<1> DEFINE view == Known(load_task_knowledge_view)
           c(i, source) == [Idle EXCEPT !.list = [view EXCEPT ![i] = refresh_evidence(@, source)]]
           todo == Steps(<<"store", "mirror_store">>)
<1>1. PICK i \in DOMAIN view, source \in Sources : begin(p, "refresh", todo, c(i, source))
  BY DEF refresh_wiki_evidence_command
<1>2. view \in Lists
  BY KnownIsList DEF TypeInv, refresh_wiki_evidence_command
<1>3. refresh_evidence(view[i], source) \in KnowledgeObject
  BY <1>2, ListType, RefreshedObject
<1> HIDE DEF view
<1>4. [view EXCEPT ![i] = refresh_evidence(view[i], source)] \in Lists
  BY <1>2, <1>3, ReplacedIsList
<1>5. c(i, source) \in Starting
  BY <1>4, IdleStarts DEF OtherAuthorities
<1>6. todo \in Seq(OtherWrites)
  <2>1. <<"store", "mirror_store">> \in Seq(Plain)
    BY DEF Plain
  <2> QED BY <2>1, StepsType
<1> HIDE DEF c, todo
<1> QED BY <1>1, <1>5, <1>6, Zenon DEF OtherBegins

LEMMA evaluate_task_canonical_reuseBegins ==
  ASSUME TypeInv, NEW p \in Procs, evaluate_task_canonical_reuse(p) PROVE OtherBegins(p)
<1> DEFINE e(j) == build_canonical_reuse_evaluation_record(j)
           todo(j) == <<Write("evaluation", e(j))>> \o Steps(<<"summarize", "baseline">>) \o Event
<1>1. PICK j \in Judgments : begin(p, "evaluate", todo(j), Idle)
  BY DEF evaluate_task_canonical_reuse
<1>2. e(j) \in Evaluated
  BY KnowledgeAssumption DEF build_canonical_reuse_evaluation_record, Evaluated,
                             resolve_canonical_reuse_citations
<1> HIDE DEF e
<1>3. Steps(<<"summarize", "baseline">>) \in Seq(OtherWrites)
  <2>1. <<"summarize", "baseline">> \in Seq(Plain)
    BY DEF Plain
  <2> QED BY <2>1, StepsType
<1>4. todo(j) \in Seq(OtherWrites)
  BY <1>2, <1>3, EvaluationWrite, SaveTypes
<1>5. Idle \in Starting
  BY NothingIsList, IdleStarts DEF OtherAuthorities
<1> HIDE DEF todo, Idle
<1> QED BY <1>1, <1>4, <1>5, Zenon DEF OtherBegins

LEMMA migrate_file_tasks_to_sqliteBegins ==
  ASSUME TypeInv, NEW p \in Procs, migrate_file_tasks_to_sqlite(p) PROVE OtherBegins(p)
<1> DEFINE names == <<"state">> \o [e \in 1 .. events.file |-> "copy_event"]
           todo == Steps(names)
           c == [Idle EXCEPT !.list = files.state, !.authority = "migration"]
<1>1. begin(p, "migrate", todo, c)
  BY DEF migrate_file_tasks_to_sqlite
<1>2. c \in Starting
  <2>1. files.state \in Lists
    BY DEF TypeInv, StoresTyped, Files, migrate_file_tasks_to_sqlite
  <2> QED BY <2>1, IdleStarts DEF OtherAuthorities
<1>3. names \in Seq(Plain)
  <2>1. events.file \in Nat
    BY DEF TypeInv, StoresTyped
  <2>2. [e \in 1 .. events.file |-> "copy_event"] \in Seq(Plain)
    BY <2>1 DEF Plain
  <2>3. <<"state">> \in Seq(Plain)
    BY DEF Plain
  <2> QED BY <2>2, <2>3
<1> HIDE DEF names
<1>4. todo \in Seq(OtherWrites)
  BY <1>3, StepsType
<1> HIDE DEF c, todo
<1> QED BY <1>1, <1>2, <1>4, Zenon DEF OtherBegins

LEMMA migrate_file_knowledge_to_sqliteBegins ==
  ASSUME TypeInv, NEW p \in Procs, migrate_file_knowledge_to_sqlite(p) PROVE OtherBegins(p)
<1> DEFINE todo == Steps(<<"store">>)
           c == [Idle EXCEPT !.list = files.knowledge, !.authority = "migration"]
<1>1. begin(p, "migrate", todo, c)
  BY DEF migrate_file_knowledge_to_sqlite
<1>2. c \in Starting
  <2>1. files.knowledge \in Lists
    BY DEF TypeInv, StoresTyped, Files
  <2> QED BY <2>1, IdleStarts DEF OtherAuthorities
<1>3. todo \in Seq(OtherWrites)
  <2>1. <<"store">> \in Seq(Plain)
    BY DEF Plain
  <2> QED BY <2>1, StepsType
<1> HIDE DEF c, todo
<1> QED BY <1>1, <1>2, <1>3, Zenon DEF OtherBegins

LEMMA OtherCommandBegins ==
  ASSUME TypeInv, NEW p \in Procs, Command(p), ~run_task(p), ~decide_task_knowledge(p)
  PROVE  OtherBegins(p)
  BY Zenon, create_taskBegins, update_task_planning_handoffBegins,
     append_task_knowledge_captureBegins, promote_stage_candidate_commandBegins,
     refresh_wiki_evidence_commandBegins, evaluate_task_canonical_reuseBegins,
     migrate_file_tasks_to_sqliteBegins, migrate_file_knowledge_to_sqliteBegins DEF Command

LEMMA UserCommandBegins ==
  ASSUME TypeInv, NEW p \in Procs, Command(p), ~run_task(p)
  PROVE  \E what, todo, c : todo \in Seq(UserWrites) /\ c \in Starting /\ begin(p, what, todo, c)
<1>1. CASE decide_task_knowledge(p)
  <2>1. PICK d \in Decision, record \in Records, c \in Starting :
          begin(p, "decide", Deciding(d, record), c)
    BY <1>1, DecideBegins
  <2>2. Middle(d, record) \in Seq(UserWrites)
    BY RecordWrites DEF Middle
  <2>3. <<Write("decision", d)>> \in Seq(UserWrites)
    BY DecisionWrite
  <2>4. /\ SaveKnowledge \in Seq(UserWrites) /\ Canon \in Seq(UserWrites)
        /\ Event \in Seq(UserWrites)
    BY SaveTypes, UserIsWrites
  <2>5. Deciding(d, record) \in Seq(UserWrites)
    BY <2>2, <2>3, <2>4 DEF Deciding
  <2> QED BY <2>1, <2>5, Zenon
<1>2. CASE ~decide_task_knowledge(p)
  <2>1. PICK what, todo, c :
          todo \in Seq(OtherWrites) /\ c \in Starting /\ begin(p, what, todo, c)
    BY <1>2, OtherCommandBegins DEF OtherBegins
  <2>2. todo \in Seq(UserWrites)
    BY <2>1, UserIsWrites
  <2> QED BY <2>1, <2>2, Zenon
<1> QED BY <1>1, <1>2

LEMMA UserCommandType ==
  ASSUME TypeInv, NEW p \in Procs, Command(p), ~run_task(p) PROVE TypeInv'
<1>1. PICK what, todo, c :
        todo \in Seq(UserWrites) /\ c \in Starting /\ begin(p, what, todo, c)
  BY UserCommandBegins
<1>2. c \in InFlight
  BY <1>1 DEF Starting
<1> QED BY <1>1, <1>2, BeginKeepsTypes

LEMMA CommandBegins ==
  ASSUME TypeInv, NEW p \in Procs, Command(p)
  PROVE  \E what, todo, c : begin(p, what, todo, c)
<1>1. run_task(p) => \E what, todo, c : begin(p, what, todo, c)
  BY DEF run_task
<1> QED BY <1>1, UserCommandBegins

LEMMA AnyStepsType ==
  ASSUME NEW names \in Seq(Plain \cup LibrarianSteps)
  PROVE  /\ Steps(names) \in Seq(Writes) /\ Len(Steps(names)) = Len(names)
         /\ \A k \in DOMAIN Steps(names) : /\ k \in DOMAIN names
                                           /\ Steps(names)[k] = Write(names[k], None)
                                           /\ Steps(names)[k].step = names[k]
         /\ names # <<>> => Steps(names) # <<>> /\ Head(Steps(names)).step = Head(names)
<1>1. \A n \in Plain \cup LibrarianSteps : Write(n, None) \in Writes /\ Write(n, None).step = n
  BY DEF Write, Writes
<1> DEFINE P == Plain \cup LibrarianSteps
<1> HIDE DEF P
<1>2. names \in Seq(P)
  BY DEF P
<1>3. DOMAIN names = 1 .. Len(names) /\ Len(names) \in Nat
      /\ \A k \in DOMAIN names : names[k] \in P
  BY <1>2
<1>4. Steps(names) \in [1 .. Len(names) -> Writes]
  BY <1>1, <1>3 DEF Steps, P
<1>5. \A k \in DOMAIN names : Steps(names)[k] = Write(names[k], None)
  BY <1>3 DEF Steps
<1>6. \A k \in DOMAIN names : Steps(names)[k].step = names[k]
  BY <1>1, <1>3, <1>5 DEF P
<1>7. Steps(names) \in Seq(Writes) /\ Len(Steps(names)) = Len(names)
  BY <1>3, <1>4
<1>8. DOMAIN Steps(names) = DOMAIN names
  BY <1>3, <1>4
<1>9. ASSUME names # <<>>
      PROVE  Steps(names) # <<>> /\ Head(Steps(names)).step = Head(names)
  <2>1. 1 \in DOMAIN names /\ Head(names) = names[1] /\ Len(names) # 0
    BY <1>2, <1>9
  <2>2. Head(Steps(names)) = Steps(names)[1] /\ Steps(names) # <<>>
    BY <1>7, <2>1
  <2> QED BY <1>6, <2>1, <2>2
<1> QED BY <1>5, <1>6, <1>7, <1>8, <1>9

LEMMA Joined ==
  ASSUME NEW S, NEW s \in Seq(S), NEW t \in Seq(S)
  PROVE  /\ s \o t \in Seq(S) /\ Len(s \o t) = Len(s) + Len(t)
         /\ s # <<>> => s \o t # <<>> /\ Head(s \o t) = Head(s)
         /\ \A i \in DOMAIN (s \o t) :
              IF i <= Len(s) THEN i \in DOMAIN s /\ (s \o t)[i] = s[i]
              ELSE i - Len(s) \in DOMAIN t /\ (s \o t)[i] = t[i - Len(s)]
  OBVIOUS

(* The writes of a run, in the order of its rounds.                        *)
LEMMA RunWrites ==
  /\ SaveState \in Seq(Writes) /\ SaveState # <<>> /\ Head(SaveState).step = "state"
  /\ Len(SaveState) = 2 /\ SaveState[1].step = "state" /\ SaveState[2].step = "mirror_state"
  /\ Steps(<<"execute">>) \in Seq(Writes) /\ Len(Steps(<<"execute">>)) = 1
  /\ Steps(<<"execute">>)[1].step = "execute"
<1> DEFINE a == <<"state", "mirror_state">>  b == <<"execute">>
<1>1. a \in Seq(Plain \cup LibrarianSteps) /\ b \in Seq(Plain \cup LibrarianSteps)
  BY DEF Plain, LibrarianSteps
<1>2. Len(a) = 2 /\ a[1] = "state" /\ a[2] = "mirror_state" /\ Len(b) = 1 /\ b[1] = "execute"
      /\ a # <<>> /\ Head(a) = "state"
  OBVIOUS
<1>3. SaveState = Steps(a)
  BY DEF SaveState
<1> HIDE DEF a, b
<1>4. /\ Steps(a) \in Seq(Writes) /\ Len(Steps(a)) = 2 /\ Steps(a) # <<>>
      /\ Head(Steps(a)).step = "state"
      /\ \A k \in DOMAIN Steps(a) : Steps(a)[k].step = a[k]
  BY <1>1, <1>2, AnyStepsType
<1>5. /\ Steps(b) \in Seq(Writes) /\ Len(Steps(b)) = 1
      /\ \A k \in DOMAIN Steps(b) : Steps(b)[k].step = b[k]
  BY <1>1, <1>2, AnyStepsType
<1>6. Steps(a)[1].step = "state" /\ Steps(a)[2].step = "mirror_state" /\ Steps(b)[1].step = "execute"
  BY <1>2, <1>4, <1>5
<1> QED BY <1>3, <1>4, <1>5, <1>6 DEF b

LEMMA run_taskType == ASSUME TypeInv, NEW p \in Procs, run_task(p) PROVE TypeInv'
<1> DEFINE c(wanted) == [Idle EXCEPT !.list = load_state, !.wanted = wanted,
                                     !.authority = "librarian"]
           todo == SaveState \o Steps(<<"execute">>)
           d(wanted) == [c(wanted) EXCEPT !.todo = todo]
<1>1. PICK wanted \in {PromotionReady(load_state), {}} : begin(p, "run", todo, c(wanted))
  BY DEF run_task
<1>2. load_state \in Lists
  BY KnownIsList DEF TypeInv, run_task
<1>3. wanted \in SUBSET Nat
  <2>1. DOMAIN load_state \in SUBSET Nat
    BY <1>2, ListType
  <2> QED BY <2>1 DEF PromotionReady
<1>4. c(wanted) \in InFlight
  <2>1. Idle \in InFlight
    BY IdleType
  <2> HIDE DEF Idle
  <2> QED BY <2>1, <1>2, <1>3 DEF InFlight, Authorities
<1>5. /\ todo \in Seq(Writes) /\ Head(todo).step = "state"
      /\ \A i \in DOMAIN todo : todo[i].step \notin Swapped
  <2> DEFINE u == Steps(<<"execute">>)
  <2>1. /\ SaveState \in Seq(Writes) /\ SaveState # <<>> /\ Head(SaveState).step = "state"
        /\ Len(SaveState) = 2 /\ SaveState[1].step = "state" /\ SaveState[2].step = "mirror_state"
        /\ u \in Seq(Writes) /\ Len(u) = 1 /\ u[1].step = "execute"
    BY RunWrites
  <2> HIDE DEF u, Writes
  <2>2. todo \in Seq(Writes) /\ Head(todo).step = "state"
    BY <2>1 DEF u
  <2>3. \A i \in DOMAIN todo : todo[i].step \in {"state", "mirror_state", "execute"}
    <3>1. \A i \in DOMAIN (SaveState \o u) :
            IF i <= Len(SaveState) THEN i \in DOMAIN SaveState /\ (SaveState \o u)[i] = SaveState[i]
            ELSE i - Len(SaveState) \in DOMAIN u /\ (SaveState \o u)[i] = u[i - Len(SaveState)]
      BY <2>1, Joined
    <3>2. todo = SaveState \o u
      BY DEF u
    <3> HIDE DEF todo
    <3> TAKE i \in DOMAIN todo
    <3>3. i \in DOMAIN SaveState => i \in {1, 2}
      BY <2>1
    <3>4. i - 2 \in DOMAIN u => i - 2 = 1
      BY <2>1
    <3> QED BY <2>1, <3>1, <3>2, <3>3, <3>4
  <2> QED BY <2>2, <2>3 DEF Swapped
<1> HIDE DEF c, todo
<1>6. d(wanted) \in InFlight /\ d(wanted).todo = todo
  BY <1>4, <1>5 DEF InFlight
<1>7. cmd' = [cmd EXCEPT ![p] = d(wanted)] /\ UNCHANGED <<stores, crashes>>
  BY <1>1 DEF begin
<1>8. StoresTyped' /\ load_state' = load_state /\ state' = state
  BY <1>7 DEF TypeInv, StoresTyped, stores, load_state, task_exists
<1>9. CountsTyped'
  <2>1. commands' \in Nat /\ commands' <= CommandBound
    BY <1>1, KnowledgeAssumption DEF begin, TypeInv, CountsTyped
  <2>2. commands' \in 0 .. CommandBound
    BY <2>1, KnowledgeAssumption
  <2>3. trouble' \subseteq {"overlap", "error", "refresh"}
    BY <1>1 DEF begin, TypeInv, CountsTyped
  <2> QED BY <1>7, <2>2, <2>3 DEF TypeInv, CountsTyped
<1>10. PlansReady(d(wanted)) /\ RunnerKnows(d(wanted), state', load_state')
  BY <1>2, <1>5, <1>6, <1>8 DEF PlansReady, RunnerKnows
<1> HIDE DEF d
<1> QED BY <1>6, <1>7, <1>8, <1>9, <1>10, StepKeepsTypes

-----------------------------------------------------------------------------
(* What one write does to the stores *)

(* Which writes carry what. *)
LEMMA WrittenType ==
  ASSUME TypeInv, NEW p \in Procs, busy(p)
  PROVE  /\ cmd[p] \in InFlight /\ cmd[p].todo \in Seq(Writes) /\ cmd[p].todo # <<>>
         /\ Head(cmd[p].todo) \in Writes
         /\ \A n \in RecordSteps : next(p, n) => written(p) \in Records
         /\ next(p, "decision") => written(p) \in Decision
         /\ next(p, "evaluation") => written(p) \in Evaluated
<1>1. cmd[p] \in InFlight
  BY DEF TypeInv
<1>2. cmd[p].todo \in Seq(Writes) /\ cmd[p].todo # <<>>
  BY <1>1 DEF InFlight, busy
<1>3. Head(cmd[p].todo) \in Writes
  BY <1>2
<1> DEFINE w == Head(cmd[p].todo)
<1> HIDE DEF w
<1>4. ASSUME w \in Writes
      PROVE  /\ w.step \in RecordSteps => w.of \in Records
             /\ w.step = "decision" => w.of \in Decision
             /\ w.step = "evaluation" => w.of \in Evaluated
  BY <1>4 DEF Writes, RecordSteps, Plain, LibrarianSteps, Swapped
<1> QED BY <1>1, <1>2, <1>3, <1>4 DEF w, next, written

(* A step that goes on and leaves the state as it is loaded. *)
LEMMA WriteKeepsTypes ==
  ASSUME TypeInv, NEW p \in Procs, busy(p), ~next(p, "state"), done(p),
         UNCHANGED <<state, commands, crashes, trouble>>, StoresTyped',
         files.state \in Lists => files'.state \in Lists
  PROVE  TypeInv'
<1>1. CountsTyped'
  BY DEF TypeInv, CountsTyped
<1>2. StoresTyped /\ load_state \in Lists => load_state' \in Lists
  <2>1. state \in Lists \cup {None} /\ files.state \in Lists \cup {None} /\ files'.state \in Lists \cup {None}
    BY DEF TypeInv, StoresTyped, Files
  <2> QED BY <2>1 DEF load_state, task_exists
<1>3. load_state \in Lists => load_state' \in Lists
  BY <1>2 DEF TypeInv
<1>4. cmd[p] \in InFlight
  BY DEF TypeInv
<1> QED BY <1>1, <1>3, <1>4, DoneKeepsTypes DEF done

LEMMA write_stateType == ASSUME TypeInv, NEW p \in Procs, write_state(p) PROVE TypeInv'
<1>1. cmd[p] \in InFlight /\ cmd[p].list \in Lists
  BY DEF TypeInv, InFlight
<1>2. state' \in Lists
  BY <1>1 DEF write_state
<1>3. StoresTyped' /\ CountsTyped'
  BY <1>2 DEF TypeInv, StoresTyped, CountsTyped, write_state
<1>4. load_state' \in Lists
  BY <1>2, <1>3 DEF load_state, task_exists, StoresTyped, Files
<1>5. busy(p) /\ proceed(p, cmd[p])
  BY DEF write_state, next, done
<1> QED BY <1>1, <1>2, <1>3, <1>4, <1>5, DoneKeepsTypes

LEMMA mirror_stateType == ASSUME TypeInv, NEW p \in Procs, mirror_state(p) PROVE TypeInv'
<1>1. cmd[p].list \in Lists
  BY DEF TypeInv, InFlight
<1>2. files' \in Files /\ files'.state \in Lists
  BY <1>1 DEF TypeInv, StoresTyped, Files, mirror_state
<1>3. StoresTyped'
  BY <1>2 DEF TypeInv, StoresTyped, mirror_state
<1>4. busy(p) /\ ~next(p, "state") /\ done(p) /\ UNCHANGED <<state, commands, crashes, trouble>>
  BY DEF mirror_state, next
<1> QED BY <1>2, <1>3, <1>4, WriteKeepsTypes

(* A command that is refused.                                              *)
LEMMA FailKeepsTypes ==
  ASSUME TypeInv, NEW p \in Procs, fail(p), UNCHANGED <<state, commands, crashes>>, StoresTyped',
         files.state \in Lists => files'.state \in Lists
  PROVE  TypeInv'
<1>1. CountsTyped'
  BY DEF TypeInv, CountsTyped, fail
<1>2. state \in Lists \cup {None} /\ files.state \in Lists \cup {None} /\ files'.state \in Lists \cup {None}
  BY DEF TypeInv, StoresTyped, Files
<1>3. load_state \in Lists => load_state' \in Lists
  BY <1>2 DEF load_state, task_exists
<1> QED BY <1>1, <1>3, EndKeepsTypes DEF fail

LEMMA replace_task_knowledgeType ==
  ASSUME TypeInv, NEW p \in Procs, replace_task_knowledge(p) PROVE TypeInv'
<1>1. cmd[p].list \in Lists
  BY DEF TypeInv, InFlight
<1>2. UNCHANGED <<state, files, decisions, registry, events, evaluation, commands, crashes>>
  BY DEF replace_task_knowledge
<1>3. CASE fail(p) /\ UNCHANGED store
  <2>1. StoresTyped'
    BY <1>2, <1>3 DEF TypeInv, StoresTyped
  <2> QED BY <1>2, <1>3, <2>1, FailKeepsTypes
<1>4. CASE store' = cmd[p].list /\ done(p) /\ UNCHANGED trouble
  <2>1. StoresTyped'
    BY <1>1, <1>2, <1>4 DEF TypeInv, StoresTyped
  <2>2. busy(p) /\ ~next(p, "state")
    BY DEF replace_task_knowledge, next
  <2> QED BY <1>2, <1>4, <2>1, <2>2, WriteKeepsTypes
<1> QED BY <1>3, <1>4 DEF replace_task_knowledge

LEMMA mirror_storeType == ASSUME TypeInv, NEW p \in Procs, mirror_store(p) PROVE TypeInv'
<1>1. cmd[p].list \in Lists
  BY DEF TypeInv, InFlight
<1>2. files' \in Files /\ files'.state = files.state
  BY <1>1 DEF TypeInv, StoresTyped, Files, mirror_store
<1>3. StoresTyped'
  BY <1>2 DEF TypeInv, StoresTyped, mirror_store
<1>4. busy(p) /\ ~next(p, "state") /\ done(p) /\ UNCHANGED <<state, commands, crashes, trouble>>
  BY DEF mirror_store, next
<1> QED BY <1>2, <1>3, <1>4, WriteKeepsTypes

LEMMA save_knowledge_indexType ==
  ASSUME TypeInv, NEW p \in Procs, save_knowledge_index(p) PROVE TypeInv'
<1>1. cmd[p].list \in Lists
  BY DEF TypeInv, InFlight
<1>2. Derived(cmd[p].list) \in DerivedFiles
  BY <1>1, DerivedType
<1>3. files' \in Files /\ files'.state = files.state
  BY <1>2 DEF TypeInv, StoresTyped, Files, save_knowledge_index
<1>4. StoresTyped'
  BY <1>3 DEF TypeInv, StoresTyped, save_knowledge_index
<1>5. busy(p) /\ ~next(p, "state") /\ done(p) /\ UNCHANGED <<state, commands, crashes, trouble>>
  BY DEF save_knowledge_index, next
<1> QED BY <1>3, <1>4, <1>5, WriteKeepsTypes

LEMMA append_knowledge_decisionType ==
  ASSUME TypeInv, NEW p \in Procs, append_knowledge_decision(p) PROVE TypeInv'
<1>1. busy(p) /\ next(p, "decision")
  BY DEF append_knowledge_decision, next
<1>2. written(p) \in Decision
  BY <1>1, WrittenType
<1>3. decisions' \in Seq(Decision)
  BY <1>2 DEF append_knowledge_decision, TypeInv, StoresTyped
<1>4. StoresTyped'
  BY <1>3 DEF TypeInv, StoresTyped, append_knowledge_decision
<1>5. ~next(p, "state") /\ done(p) /\ UNCHANGED <<state, files, commands, crashes, trouble>>
  BY DEF append_knowledge_decision, next
<1> QED BY <1>1, <1>4, <1>5, WriteKeepsTypes

LEMMA register_canonical_proposalType ==
  ASSUME TypeInv, NEW p \in Procs, register_canonical_proposal(p) PROVE TypeInv'
<1>1. busy(p) /\ next(p, "read_registry") /\ ~next(p, "state")
      /\ UNCHANGED <<stores, commands, crashes>>
  BY DEF register_canonical_proposal, next
<1>2. StoresTyped' /\ load_state' = load_state /\ state' = state /\ files' = files
  BY <1>1 DEF TypeInv, StoresTyped, stores, load_state, task_exists
<1> DEFINE id == written(p).id
           c == [cmd[p] EXCEPT !.seen = registry, !.registered = @ \cup {id}]
<1>3. CASE fail(p)
  BY <1>1, <1>2, <1>3, FailKeepsTypes
<1>4. CASE proceed(p, c) /\ UNCHANGED trouble
  <2>1. written(p) \in Records
    BY <1>1, WrittenType DEF RecordSteps
  <2>2. id \in Nat
    BY <2>1 DEF Records
  <2>3. cmd[p] \in InFlight /\ registry \in Registries
    BY DEF TypeInv, StoresTyped
  <2> HIDE DEF id
  <2>4. /\ c \in InFlight /\ c.todo = cmd[p].todo /\ c.planned = cmd[p].planned
        /\ c.original = cmd[p].original
    BY <2>2, <2>3 DEF InFlight
  <2>5. CountsTyped'
    BY <1>1, <1>4 DEF TypeInv, CountsTyped
  <2> HIDE DEF c
  <2> QED BY <1>1, <1>2, <1>4, <2>4, <2>5, DoneKeepsTypes
<1> QED BY <1>3, <1>4 DEF register_canonical_proposal

LEMMA write_registryType == ASSUME TypeInv, NEW p \in Procs, write_registry(p) PROVE TypeInv'
<1> DEFINE c == [cmd[p] EXCEPT !.seen = Nothing]
<1>1. busy(p) /\ next(p, "record") /\ ~next(p, "state") /\ proceed(p, c)
      /\ UNCHANGED <<state, store, files, decisions, events, evaluation, commands, crashes, trouble>>
  BY DEF write_registry, next
<1>2. written(p) \in Records
  BY <1>1, WrittenType DEF RecordSteps
<1>3. cmd[p] \in InFlight /\ cmd[p].seen \in Registries
  BY DEF TypeInv, InFlight
<1>4. registry' \in Registries
  BY <1>2, <1>3, AppendedIsRegistry DEF write_registry
<1>5. StoresTyped' /\ CountsTyped' /\ load_state' = load_state
  BY <1>1, <1>4 DEF TypeInv, StoresTyped, CountsTyped, load_state, task_exists
<1>6. /\ c \in InFlight /\ c.todo = cmd[p].todo /\ c.planned = cmd[p].planned
      /\ c.original = cmd[p].original
  <2>1. Nothing \in Registries
    BY NothingIsList
  <2> HIDE DEF Nothing
  <2> QED BY <1>3, <2>1 DEF InFlight
<1> HIDE DEF c
<1> QED BY <1>1, <1>5, <1>6, DoneKeepsTypes

LEMMA persist_wiki_entry_from_recordType ==
  ASSUME TypeInv, NEW p \in Procs, persist_wiki_entry_from_record(p) PROVE TypeInv'
<1> DEFINE view == _merge_task_knowledge_views(load_task_knowledge_view, written(p).id,
                     build_wiki_entry_from_canonical_record(written(p)))
           mirrored == Head(Tail(cmd[p].todo)).step = "mirror_wiki"
           c == [cmd[p] EXCEPT !.list = IF mirrored THEN view ELSE @]
<1>1. busy(p) /\ next(p, "wiki") /\ ~next(p, "state") /\ proceed(p, c) /\ store' = view
      /\ UNCHANGED <<state, files, decisions, registry, events, evaluation, commands, crashes, trouble>>
  BY DEF persist_wiki_entry_from_record, next
<1>2. written(p) \in Records
  BY <1>1, WrittenType DEF RecordSteps
<1>3. written(p).id \in Nat
  BY <1>2 DEF Records
<1>4. build_wiki_entry_from_canonical_record(written(p)) \in KnowledgeObject
  BY <1>2, WikiEntryType
<1>5. load_task_knowledge_view \in Lists
  BY ViewIsList DEF TypeInv
<1>6. view \in Lists
  BY <1>3, <1>4, <1>5, MergedIsList
<1> HIDE DEF view
<1>7. StoresTyped' /\ CountsTyped' /\ load_state' = load_state
  BY <1>1, <1>6 DEF TypeInv, StoresTyped, CountsTyped, load_state, task_exists
<1>8. cmd[p] \in InFlight
  BY DEF TypeInv
<1> HIDE DEF mirrored
<1>9. /\ c \in InFlight /\ c.todo = cmd[p].todo /\ c.planned = cmd[p].planned
      /\ c.original = cmd[p].original
  BY <1>6, <1>8 DEF InFlight
<1> HIDE DEF c
<1> QED BY <1>1, <1>7, <1>9, DoneKeepsTypes

LEMMA ActiveType == ASSUME TypeInv PROVE Active(registry) \in SUBSET Nat
<1>1. DOMAIN registry \in SUBSET Nat
  BY RegistryType DEF TypeInv, StoresTyped
<1> QED BY <1>1 DEF Active

LEMMA _refresh_canonical_derivativesType ==
  ASSUME TypeInv, NEW p \in Procs, _refresh_canonical_derivatives(p) PROVE TypeInv'
<1>1. files' \in Files /\ files'.state = files.state
  BY ActiveType DEF TypeInv, StoresTyped, Files, _refresh_canonical_derivatives
<1>2. StoresTyped'
  BY <1>1 DEF TypeInv, StoresTyped, _refresh_canonical_derivatives
<1>3. busy(p) /\ ~next(p, "state") /\ done(p) /\ UNCHANGED <<state, commands, crashes, trouble>>
  BY DEF _refresh_canonical_derivatives, next
<1> QED BY <1>1, <1>2, <1>3, WriteKeepsTypes

LEMMA append_canonical_reuse_evaluationType ==
  ASSUME TypeInv, NEW p \in Procs, append_canonical_reuse_evaluation(p) PROVE TypeInv'
<1>1. busy(p) /\ next(p, "evaluation")
  BY DEF append_canonical_reuse_evaluation, next
<1>2. written(p) \in Evaluated
  BY <1>1, WrittenType
<1>3. evaluation \in [records : Seq(Evaluated), baseline : Summaries \cup {None}]
  BY DEF TypeInv, StoresTyped
<1>4. evaluation' = [evaluation EXCEPT !.records = Append(@, written(p))]
  BY DEF append_canonical_reuse_evaluation
<1>5. evaluation' \in [records : Seq(Evaluated), baseline : Summaries \cup {None}]
  <2>1. Append(evaluation.records, written(p)) \in Seq(Evaluated)
    BY <1>2, <1>3
  <2> HIDE DEF Evaluated, Summaries
  <2> QED BY <1>3, <1>4, <2>1
<1>6. StoresTyped'
  BY <1>5 DEF TypeInv, StoresTyped, append_canonical_reuse_evaluation
<1>7. ~next(p, "state") /\ done(p) /\ UNCHANGED <<state, files, commands, crashes, trouble>>
  BY DEF append_canonical_reuse_evaluation, next
<1> QED BY <1>1, <1>6, <1>7, WriteKeepsTypes

LEMMA summarizeType == ASSUME TypeInv, NEW p \in Procs, summarize(p) PROVE TypeInv'
<1> DEFINE s == build_canonical_reuse_evaluation_summary(evaluation.records)
           c == [cmd[p] EXCEPT !.said = s]
<1>1. busy(p) /\ ~next(p, "state") /\ proceed(p, c)
      /\ UNCHANGED <<stores, commands, crashes, trouble>>
  BY DEF summarize, next
<1>2. s \in Summaries
  <2>1. evaluation.records \in Seq(Evaluated)
    BY DEF TypeInv, StoresTyped
  <2> QED BY <2>1, SummaryType
<1> HIDE DEF s
<1>3. cmd[p] \in InFlight
  BY DEF TypeInv
<1>4. /\ c \in InFlight /\ c.todo = cmd[p].todo /\ c.planned = cmd[p].planned
      /\ c.original = cmd[p].original
  BY <1>2, <1>3 DEF InFlight
<1>5. StoresTyped' /\ CountsTyped' /\ load_state' = load_state /\ state' = state
  BY <1>1 DEF TypeInv, StoresTyped, CountsTyped, load_state, task_exists, stores
<1> HIDE DEF c
<1> QED BY <1>1, <1>4, <1>5, DoneKeepsTypes

LEMMA save_canonical_reuse_regressionType ==
  ASSUME TypeInv, NEW p \in Procs, save_canonical_reuse_regression(p) PROVE TypeInv'
<1>1. cmd[p].said \in Summaries \cup {None}
  BY DEF TypeInv, InFlight
<1>2. evaluation \in [records : Seq(Evaluated), baseline : Summaries \cup {None}]
  BY DEF TypeInv, StoresTyped
<1>3. evaluation' = [evaluation EXCEPT !.baseline = cmd[p].said]
  BY DEF save_canonical_reuse_regression
<1>4. evaluation' \in [records : Seq(Evaluated), baseline : Summaries \cup {None}]
  <2> HIDE DEF Evaluated, Summaries
  <2> QED BY <1>1, <1>2, <1>3
<1>5. StoresTyped'
  BY <1>4 DEF TypeInv, StoresTyped, save_canonical_reuse_regression
<1>6. busy(p) /\ ~next(p, "state") /\ done(p)
      /\ UNCHANGED <<state, files, commands, crashes, trouble>>
  BY DEF save_canonical_reuse_regression, next
<1> QED BY <1>5, <1>6, WriteKeepsTypes

LEMMA append_eventType == ASSUME TypeInv, NEW p \in Procs, append_event(p) PROVE TypeInv'
<1>1. events' \in [sql : Nat, file : Nat]
  BY DEF TypeInv, StoresTyped, append_event
<1>2. StoresTyped'
  BY <1>1 DEF TypeInv, StoresTyped, append_event
<1>3. busy(p) /\ ~next(p, "state") /\ done(p)
      /\ UNCHANGED <<state, files, commands, crashes, trouble>>
  BY DEF append_event, next
<1> QED BY <1>2, <1>3, WriteKeepsTypes

LEMMA mirror_eventType == ASSUME TypeInv, NEW p \in Procs, mirror_event(p) PROVE TypeInv'
<1>1. events' \in [sql : Nat, file : Nat]
  BY DEF TypeInv, StoresTyped, mirror_event
<1>2. StoresTyped'
  BY <1>1 DEF TypeInv, StoresTyped, mirror_event
<1>3. busy(p) /\ ~next(p, "state") /\ done(p)
      /\ UNCHANGED <<state, files, commands, crashes, trouble>>
  BY DEF mirror_event, next
<1> QED BY <1>2, <1>3, WriteKeepsTypes

-----------------------------------------------------------------------------
(* The librarian's round *)

LEMMA DecideWrites ==
  ASSUME NEW records \in Seq(Records)
  PROVE  /\ Decide(records) \in Seq(Writes) /\ Len(Decide(records)) = Len(records)
         /\ \A k \in DOMAIN Decide(records) :
              /\ k \in DOMAIN records /\ Decide(records)[k].step = "decision"
              /\ Decide(records)[k].of = PromotionDecision(records[k])
<1>1. DOMAIN records = 1 .. Len(records) /\ Len(records) \in Nat
      /\ \A k \in DOMAIN records : records[k] \in Records
  OBVIOUS
<1>2. \A r \in Records : /\ Write("decision", PromotionDecision(r)) \in Writes
                          /\ Write("decision", PromotionDecision(r)).step = "decision"
                          /\ Write("decision", PromotionDecision(r)).of = PromotionDecision(r)
  BY DEF Write, PromotionDecision, Writes, Decision, Records
<1>3. Decide(records) \in [1 .. Len(records) -> Writes]
  BY <1>1, <1>2 DEF Decide
<1>4. \A k \in DOMAIN records : /\ Decide(records)[k].step = "decision"
                                 /\ Decide(records)[k].of = PromotionDecision(records[k])
  BY <1>1, <1>2 DEF Decide
<1> QED BY <1>1, <1>3, <1>4

(* The k-th write after the decisions. *)
LEMMA ApplyWrites ==
  ASSUME NEW records \in Seq(Records)
  PROVE  /\ Apply(records) \in Seq(Writes) /\ Len(Apply(records)) = 3 * Len(records)
         /\ \A k \in DOMAIN Apply(records) :
              /\ (k - 1) \div 3 + 1 \in DOMAIN records
              /\ Apply(records)[k].of = records[(k - 1) \div 3 + 1]
              /\ Apply(records)[k].step
                   = <<"read_registry", "record", "wiki">>[((k - 1) % 3) + 1]
              /\ Apply(records)[k].step \in RecordSteps
<1> DEFINE n == Len(records)
           at(k) == (k - 1) \div 3 + 1
           name(k) == <<"read_registry", "record", "wiki">>[((k - 1) % 3) + 1]
<1>1. DOMAIN records = 1 .. n /\ n \in Nat /\ \A k \in DOMAIN records : records[k] \in Records
  OBVIOUS
<1>2. \A k \in 1 .. 3 * n : at(k) \in 1 .. n
  BY <1>1, Z3
<1>3. \A k \in 1 .. 3 * n : name(k) \in RecordSteps
  <2> TAKE k \in 1 .. 3 * n
  <2>1. ((k - 1) % 3) + 1 \in {1, 2, 3}
    BY <1>1, Z3
  <2> QED BY <2>1 DEF RecordSteps
<1>4. \A r \in Records, m \in RecordSteps :
        Write(m, r) \in Writes /\ Write(m, r).step = m /\ Write(m, r).of = r
  BY DEF Write, Writes
<1>5. Apply(records) = [k \in 1 .. 3 * n |-> Write(name(k), records[at(k)])]
  BY DEF Apply
<1> HIDE DEF n, at, name
<1>6. 3 * n \in Nat
  BY <1>1
<1>7. \A k \in 1 .. 3 * n : /\ Write(name(k), records[at(k)]) \in Writes
                            /\ Write(name(k), records[at(k)]).step = name(k)
                            /\ Write(name(k), records[at(k)]).of = records[at(k)]
  BY <1>1, <1>2, <1>3, <1>4
<1>8. Apply(records) \in [1 .. 3 * n -> Writes]
  BY <1>5, <1>7
<1>9. Apply(records) \in Seq(Writes) /\ Len(Apply(records)) = 3 * n
      /\ DOMAIN Apply(records) = 1 .. 3 * n
  BY <1>6, <1>8
<1>10. \A k \in 1 .. 3 * n : /\ at(k) \in DOMAIN records
                             /\ Apply(records)[k].of = records[at(k)]
                             /\ Apply(records)[k].step = name(k)
                             /\ Apply(records)[k].step \in RecordSteps
  BY <1>1, <1>2, <1>3, <1>5, <1>7
<1> QED BY <1>9, <1>10 DEF n, at, name

LEMMA PlanWrite ==
  /\ Steps(<<"plan">>) \in Seq(Writes) /\ Len(Steps(<<"plan">>)) = 1
  /\ \A k \in DOMAIN Steps(<<"plan">>) : Steps(<<"plan">>)[k].step = "plan"
<1> DEFINE a == <<"plan">>
<1>1. a \in Seq(Plain \cup LibrarianSteps) /\ Len(a) = 1 /\ \A k \in DOMAIN a : a[k] = "plan"
  BY DEF LibrarianSteps
<1> HIDE DEF a
<1>2. /\ Steps(a) \in Seq(Writes) /\ Len(Steps(a)) = 1
      /\ \A k \in DOMAIN Steps(a) : Steps(a)[k].step = "plan"
  BY <1>1, AnyStepsType
<1> QED BY <1>2 DEF a

LEMMA SideEffectWrites ==
  ASSUME NEW records \in Seq(Records)
  PROVE  /\ _apply_librarian_side_effects(records) \in Seq(Writes)
         /\ \A i \in DOMAIN _apply_librarian_side_effects(records) :
              _apply_librarian_side_effects(records)[i].step
                \in RecordSteps \cup {"decision", "plan"}
<1> DEFINE a == Decide(records)  b == Apply(records)  c == Steps(<<"plan">>)
           T == RecordSteps \cup {"decision", "plan"}
<1>1. /\ a \in Seq(Writes) /\ b \in Seq(Writes) /\ c \in Seq(Writes)
      /\ \A k \in DOMAIN a : a[k].step \in T
      /\ \A k \in DOMAIN b : b[k].step \in T
      /\ \A k \in DOMAIN c : c[k].step \in T
  BY DecideWrites, ApplyWrites, PlanWrite
<1> HIDE DEF a, b, c, T
<1>2. ASSUME NEW s \in Seq(Writes), NEW t \in Seq(Writes),
             \A k \in DOMAIN s : s[k].step \in T, \A k \in DOMAIN t : t[k].step \in T
      PROVE  s \o t \in Seq(Writes) /\ \A k \in DOMAIN (s \o t) : (s \o t)[k].step \in T
  <2>1. /\ s \o t \in Seq(Writes)
        /\ \A i \in DOMAIN (s \o t) :
             IF i <= Len(s) THEN i \in DOMAIN s /\ (s \o t)[i] = s[i]
             ELSE i - Len(s) \in DOMAIN t /\ (s \o t)[i] = t[i - Len(s)]
    BY Joined
  <2> QED BY <1>2, <2>1
<1>3. a \o b \in Seq(Writes) /\ \A k \in DOMAIN (a \o b) : (a \o b)[k].step \in T
  BY <1>1, <1>2
<1>4. (a \o b) \o c \in Seq(Writes)
      /\ \A k \in DOMAIN ((a \o b) \o c) : ((a \o b) \o c)[k].step \in T
  BY <1>1, <1>2, <1>3
<1> QED BY <1>4 DEF _apply_librarian_side_effects, a, b, c, T

(* A step of a run that only decides what the process writes next.         *)
LEMMA RunKeepsTypes ==
  ASSUME TypeInv, NEW p \in Procs, NEW c \in InFlight, cmd' = [cmd EXCEPT ![p] = c],
         UNCHANGED <<stores, commands, crashes, trouble>>,
         \E n \in LibrarianSteps : next(p, n), PlansReady(c)
  PROVE  TypeInv'
<1>1. StoresTyped' /\ CountsTyped' /\ load_state' = load_state /\ state' = state
  BY DEF TypeInv, StoresTyped, CountsTyped, load_state, task_exists, stores
<1>2. state \in Lists /\ load_state \in Lists
  <2>1. PICK n \in LibrarianSteps : next(p, n)
    OBVIOUS
  <2>2. cmd[p].todo \in Seq(Writes) /\ cmd[p].todo # <<>> /\ Head(cmd[p].todo).step = n
    BY <2>1 DEF TypeInv, InFlight, next, busy
  <2>3. 1 \in DOMAIN cmd[p].todo /\ cmd[p].todo[1].step = n
    BY <2>2
  <2>4. RunnerKnows(cmd[p], state, load_state)
    BY DEF TypeInv
  <2>5. n # "state"
    BY DEF LibrarianSteps, Swapped
  <2> QED BY <2>2, <2>3, <2>4, <2>5 DEF RunnerKnows
<1>3. RunnerKnows(c, state', load_state')
  BY <1>1, <1>2 DEF RunnerKnows
<1> QED BY <1>1, <1>3, StepKeepsTypes

LEMMA executeType == ASSUME TypeInv, NEW p \in Procs, execute(p) PROVE TypeInv'
<1> DEFINE batch == LibrarianAgent(Known(load_task_knowledge_view), cmd[p].wanted, registry)
           todo == _apply_librarian_side_effects(batch.records)
           c == [cmd[p] EXCEPT !.list = batch.list, !.round = @ + 1, !.todo = todo]
<1>1. next(p, "execute") /\ cmd' = [cmd EXCEPT ![p] = c]
      /\ UNCHANGED <<stores, commands, crashes, trouble>>
  BY DEF execute
<1>2. load_state \in Lists
  <2>1. cmd[p].todo \in Seq(Writes) /\ cmd[p].todo # <<>> /\ Head(cmd[p].todo).step = "execute"
    BY <1>1 DEF TypeInv, InFlight, next, busy
  <2>2. 1 \in DOMAIN cmd[p].todo /\ cmd[p].todo[1].step = "execute"
    BY <2>1
  <2>3. RunnerKnows(cmd[p], state, load_state) /\ "execute" \in LibrarianSteps
    BY DEF TypeInv, LibrarianSteps
  <2> QED BY <2>2, <2>3 DEF RunnerKnows
<1>3. Known(load_task_knowledge_view) \in Lists
  BY <1>2, ViewIsList DEF TypeInv, Known
<1>4. batch \in Batches(Known(load_task_knowledge_view), registry)
  BY <1>3, LibrarianBatch DEF TypeInv, StoresTyped
<1> HIDE DEF batch
<1>5. batch.list \in Lists /\ batch.records \in Seq(Records)
  BY <1>4 DEF Batches, Batch
<1>6. todo \in Seq(Writes)
      /\ \A i \in DOMAIN todo : todo[i].step \in RecordSteps \cup {"decision", "plan"}
  BY <1>5, SideEffectWrites
<1> HIDE DEF todo
<1>7. cmd[p] \in InFlight
  BY DEF TypeInv
<1>8. c \in InFlight /\ c.todo = todo
  <2> DEFINE old == cmd[p]  list == batch.list  round == cmd[p].round + 1
  <2>1. c = [old EXCEPT !.list = list, !.round = round, !.todo = todo]
    OBVIOUS
  <2>2. old \in InFlight /\ list \in Lists
    BY <1>5, <1>7
  <2>3. round \in Nat
    BY <1>7 DEF InFlight
  <2> HIDE DEF c, old, list, round
  <2> QED BY <1>6, <2>1, <2>2, <2>3 DEF InFlight
<1> HIDE DEF c
<1>9. PlansReady(c)
  BY <1>6, <1>8 DEF PlansReady, RecordSteps, Swapped
<1> QED BY <1>1, <1>8, <1>9, RunKeepsTypes DEF LibrarianSteps

LEMMA build_knowledge_store_write_planType ==
  ASSUME TypeInv, NEW p \in Procs, build_knowledge_store_write_plan(p) PROVE TypeInv'
<1> DEFINE list == cmd[p].list
           planned == [knowledge |-> list, state |-> list, derived |-> Derived(list),
                       canon |-> Active(registry)]
           todo == Steps(Swaps \o <<"store", "review">>)
           c == [cmd[p] EXCEPT !.original = files, !.planned = planned, !.todo = todo]
<1>1. next(p, "plan") /\ cmd' = [cmd EXCEPT ![p] = c]
      /\ UNCHANGED <<stores, commands, crashes, trouble>>
  BY DEF build_knowledge_store_write_plan
<1>2. cmd[p] \in InFlight /\ list \in Lists /\ files \in Files
  BY DEF TypeInv, InFlight, StoresTyped
<1>3. planned \in Plans
  <2>1. Derived(list) \in DerivedFiles /\ Active(registry) \in SUBSET Nat
    BY <1>2, DerivedType, ActiveType
  <2> QED BY <1>2, <2>1 DEF Plans, Files
<1>4. todo \in Seq(Writes)
  <2>1. Swaps \o <<"store", "review">> \in Seq(Plain \cup LibrarianSteps)
    <3>1. Swaps \in Seq(Plain \cup LibrarianSteps)
      BY DEF Swaps, LibrarianSteps, Swapped
    <3>2. <<"store", "review">> \in Seq(Plain \cup LibrarianSteps)
      BY DEF LibrarianSteps, Plain
    <3> QED BY <3>1, <3>2
  <2> QED BY <2>1, AnyStepsType
<1> HIDE DEF planned, todo
<1>5. c \in InFlight /\ PlansReady(c)
  <2>1. planned \in Files
    BY <1>3 DEF Plans
  <2>2. c \in InFlight
    BY <1>2, <1>4, <2>1 DEF InFlight
  <2>3. c.planned = planned /\ c.original = files
    BY <1>2 DEF InFlight
  <2> HIDE DEF c
  <2> QED BY <1>2, <1>3, <2>2, <2>3 DEF PlansReady
<1> HIDE DEF c
<1> QED BY <1>1, <1>5, RunKeepsTypes DEF LibrarianSteps

LEMMA SwapIsPlanned ==
  ASSUME TypeInv, NEW p \in Procs, NEW swap \in DOMAIN FileOf, next(p, swap)
  PROVE  /\ swap \in Swapped /\ cmd[p].planned \in Plans /\ cmd[p].original \in Files
         /\ state \in Lists
<1>1. swap \in Swapped /\ swap \in LibrarianSteps /\ swap # "state"
  BY DEF FileOf, Swapped, LibrarianSteps
<1>2. cmd[p].todo \in Seq(Writes) /\ cmd[p].todo # <<>> /\ Head(cmd[p].todo).step = swap
  BY DEF TypeInv, InFlight, next, busy
<1>3. 1 \in DOMAIN cmd[p].todo /\ cmd[p].todo[1].step = swap
  BY <1>2
<1>4. PlansReady(cmd[p]) /\ RunnerKnows(cmd[p], state, load_state)
  BY DEF TypeInv
<1> QED BY <1>1, <1>2, <1>3, <1>4 DEF PlansReady, RunnerKnows

LEMMA apply_atomic_text_updatesType ==
  ASSUME TypeInv, NEW p \in Procs, apply_atomic_text_updates(p) PROVE TypeInv'
<1>1. PICK swap \in DOMAIN FileOf :
        /\ next(p, swap)
        /\ files' = [files EXCEPT ![FileOf[swap]] = cmd[p].planned[FileOf[swap]]]
  BY DEF apply_atomic_text_updates
<1>2. swap \in Swapped /\ cmd[p].planned \in Plans
  BY <1>1, SwapIsPlanned
<1>3. FileOf[swap] \in {"knowledge", "state", "derived", "canon"}
  BY DEF FileOf
<1>4. files' \in Files /\ (files.state \in Lists => files'.state \in Lists)
  <2> DEFINE planned == cmd[p].planned
  <2>1. planned \in Plans /\ files \in Files
    BY <1>2 DEF TypeInv, StoresTyped
  <2> HIDE DEF planned
  <2>2. CASE FileOf[swap] = "knowledge"
    BY <1>1, <2>1, <2>2 DEF Plans, Files, planned
  <2>3. CASE FileOf[swap] = "state"
    BY <1>1, <2>1, <2>3 DEF Plans, Files, planned
  <2>4. CASE FileOf[swap] = "derived"
    BY <1>1, <2>1, <2>4 DEF Plans, Files, planned
  <2>5. CASE FileOf[swap] = "canon"
    BY <1>1, <2>1, <2>5 DEF Plans, Files, planned
  <2> QED BY <1>3, <2>2, <2>3, <2>4, <2>5
<1>5. busy(p) /\ ~next(p, "state") /\ done(p)
      /\ UNCHANGED <<state, store, decisions, registry, events, evaluation, commands, crashes, trouble>>
  BY <1>1, <1>2 DEF apply_atomic_text_updates, next, Swapped
<1>6. StoresTyped'
  BY <1>4, <1>5 DEF TypeInv, StoresTyped
<1> QED BY <1>4, <1>5, <1>6, WriteKeepsTypes

LEMMA RollBackType == ASSUME TypeInv, NEW p \in Procs, RollBack(p) PROVE TypeInv'
<1>1. PICK swap \in DOMAIN FileOf : next(p, swap)
  BY DEF RollBack
<1>2. cmd[p].original \in Files /\ state \in Lists /\ files \in Files
  BY <1>1, SwapIsPlanned DEF TypeInv, StoresTyped
<1> DEFINE original == cmd[p].original
<1>3. \E left : files' = [f \in DOMAIN files |-> IF f \in left THEN files[f] ELSE original[f]]
  BY DEF RollBack
<1> HIDE DEF original
<1>4. files' \in Files
  <2>1. PICK left : files' = [f \in DOMAIN files |-> IF f \in left THEN files[f] ELSE original[f]]
    BY <1>3
  <2>2. original \in Files /\ DOMAIN files = {"state", "knowledge", "derived", "canon"}
    BY <1>2 DEF Files, original
  <2> DEFINE g(f) == IF f \in left THEN files[f] ELSE original[f]
  <2>3. files' = [f \in {"state", "knowledge", "derived", "canon"} |-> g(f)]
    BY <2>1, <2>2
  <2>4. g("state") \in Lists \cup {None} /\ g("knowledge") \in Lists
        /\ g("derived") \in DerivedFiles /\ g("canon") \in SUBSET Nat
    BY <1>2, <2>2 DEF Files
  <2> HIDE DEF g
  <2>5. files' = [state |-> g("state"), knowledge |-> g("knowledge"),
                  derived |-> g("derived"), canon |-> g("canon")]
    BY <2>3
  <2> QED BY <2>4, <2>5 DEF Files
<1>5. fail(p) /\ UNCHANGED <<state, store, decisions, registry, events, evaluation, commands, crashes>>
  BY DEF RollBack
<1>6. StoresTyped' /\ CountsTyped'
  BY <1>4, <1>5 DEF TypeInv, StoresTyped, CountsTyped, fail
<1>7. state' \in Lists /\ load_state' \in Lists
  BY <1>2, <1>5, <1>6, LoadType DEF load_state, task_exists, StoresTyped, Files
<1> QED BY <1>5, <1>6, <1>7, EndKeepsTypes DEF fail

LEMMA run_review_gateType == ASSUME TypeInv, NEW p \in Procs, run_review_gate(p) PROVE TypeInv'
<1>1. PICK todo \in {Steps(<<"execute">>), SaveState \o Event} :
        cmd' = [cmd EXCEPT ![p] = [@ EXCEPT !.todo = todo, !.planned = None, !.original = None]]
  BY DEF run_review_gate
<1> DEFINE c == [cmd[p] EXCEPT !.todo = todo, !.planned = None, !.original = None]
<1>2. /\ SaveState \in Seq(UserWrites) /\ Event \in Seq(UserWrites)
      /\ Steps(<<"execute">>) \in Seq(Writes) /\ Len(Steps(<<"execute">>)) = 1
      /\ Steps(<<"execute">>)[1].step = "execute"
  BY SaveTypes, RunWrites, UserIsWrites
<1>3. SaveState \o Event \in Seq(UserWrites)
  BY <1>2
<1>4. todo \in Seq(Writes) /\ \A i \in DOMAIN todo : todo[i].step \notin Swapped
  <2>1. CASE todo = Steps(<<"execute">>)
    <3>1. \A i \in DOMAIN Steps(<<"execute">>) : i = 1
      BY <1>2
    <3> QED BY <1>2, <2>1, <3>1 DEF Swapped
  <2>2. CASE todo = SaveState \o Event
    <3> HIDE DEF UserWrites
    <3>1. todo \in Seq(UserWrites)
      BY <1>3, <2>2
    <3>2. \A i \in DOMAIN todo : todo[i] \in UserWrites
      BY <3>1
    <3> QED BY <3>1, <3>2, UserIsWrites DEF UserWrites, LibrarianSteps
  <2> QED BY <1>1, <2>1, <2>2
<1>5. c \in InFlight /\ c.todo = todo
  <2>1. cmd[p] \in InFlight
    BY DEF TypeInv
  <2> QED BY <1>4, <2>1 DEF InFlight
<1>6. next(p, "review") /\ UNCHANGED <<stores, commands, crashes, trouble>>
      /\ cmd' = [cmd EXCEPT ![p] = c]
  BY <1>1 DEF run_review_gate
<1> HIDE DEF c
<1>7. PlansReady(c)
  BY <1>4, <1>5 DEF PlansReady
<1> QED BY <1>5, <1>6, <1>7, RunKeepsTypes DEF LibrarianSteps

LEMMA CrashType == ASSUME TypeInv, NEW p \in Procs, Crash(p) PROVE TypeInv'
<1>1. StoresTyped' /\ load_state' = load_state /\ state' = state
  BY DEF Crash, stores, TypeInv, StoresTyped, load_state, task_exists
<1>2. CountsTyped'
  BY KnowledgeAssumption DEF Crash, TypeInv, CountsTyped
<1> QED BY <1>1, <1>2, EndKeepsTypes DEF Crash

LEMMA InitType == ASSUME Init PROVE TypeInv
<1>1. Nothing \in Lists /\ Nothing \in Registries
  BY NothingIsList
<1> DEFINE legacy == build_knowledge_objects(LegacyRequest, 1)
<1>2. legacy \in Lists
  BY KnowledgeAssumption, BuiltIsList
<1>3. Derived(Nothing) \in DerivedFiles /\ Derived(legacy) \in DerivedFiles
  BY <1>1, <1>2, DerivedType
<1> HIDE DEF legacy
<1>4. files \in Files
  <2>1. CASE files = [state |-> None, knowledge |-> Nothing, derived |-> Derived(Nothing), canon |-> {}]
    BY <1>1, <1>3, <2>1 DEF Files
  <2>2. CASE files = [state |-> legacy, knowledge |-> legacy, derived |-> Derived(legacy), canon |-> {}]
    BY <1>2, <1>3, <2>2 DEF Files
  <2> QED BY <2>1, <2>2 DEF Init, legacy
<1>5. events \in [sql : Nat, file : Nat]
  BY DEF Init
<1>6. evaluation \in [records : Seq(Evaluated), baseline : Summaries \cup {None}]
  <2>0. <<>> \in Seq(Evaluated)
    OBVIOUS
  <2>1. build_canonical_reuse_evaluation_summary(<<>>) \in Summaries
    <3> HIDE DEF Evaluated, Summaries
    <3> QED BY <2>0, SummaryType
  <2> HIDE DEF Summaries, Evaluated
  <2> QED BY <2>1 DEF Init
<1>7. StoresTyped
  <2>1. decisions \in Seq(Decision)
    BY DEF Init
  <2> QED BY <1>1, <1>4, <1>5, <1>6, <2>1 DEF Init, StoresTyped
<1>8. CountsTyped
  BY KnowledgeAssumption DEF Init, CountsTyped
<1>9. cmd \in [Procs -> InFlight] /\ \A p \in Procs : cmd[p] = Idle
  BY IdleType DEF Init
<1>10. PlansReady(Idle) /\ RunnerKnows(Idle, state, load_state)
  BY IdleType DEF PlansReady, RunnerKnows
<1> QED BY <1>7, <1>8, <1>9, <1>10 DEF TypeInv

LEMMA NextType == ASSUME TypeInv, [Next]_vars PROVE TypeInv'
<1>1. CASE UNCHANGED vars
  BY <1>1 DEF vars, TypeInv, StoresTyped, CountsTyped, load_state, task_exists
<1>2. ASSUME NEW p \in Procs, Command(p)
      PROVE  TypeInv'
  BY <1>2, UserCommandType, run_taskType
<1>3. ASSUME NEW p \in Procs, Step(p)
      PROVE  TypeInv'
  BY <1>3, write_stateType, mirror_stateType, replace_task_knowledgeType, mirror_storeType,
     save_knowledge_indexType, append_knowledge_decisionType, register_canonical_proposalType,
     write_registryType, persist_wiki_entry_from_recordType, _refresh_canonical_derivativesType,
     append_canonical_reuse_evaluationType, summarizeType, save_canonical_reuse_regressionType,
     append_eventType, mirror_eventType, executeType, build_knowledge_store_write_planType,
     apply_atomic_text_updatesType, RollBackType, run_review_gateType DEF Step
<1> QED BY <1>1, <1>2, <1>3, CrashType DEF Next

LEMMA TypesHold == Spec => []TypeInv
<1>1. Init => TypeInv
  BY InitType
<1>2. TypeInv /\ [Next]_vars => TypeInv'
  BY NextType
<1> QED BY <1>1, <1>2, PTL DEF Spec

(* Whatever any commands of any processes write, in whatever order, cut    *)
(* off or refused anywhere, every place that keeps knowledge holds         *)
(* well-formed objects, and records are filed under their ids.  A run that *)
(* replaces files has planned all of them and kept the old ones.           *)
THEOREM TypeCorrect == Spec => []TypeOK
<1>1. TypeInv => TypeOK
  BY TypeInvIsTypeOK
<1> QED BY <1>1, TypesHold, PTL

-----------------------------------------------------------------------------
(* Records have decisions *)

DecidedIds == {decisions[k].object : k \in Promotions}

(* The writes that log a promotion, and the objects they name. *)
Promotes(w) == w.step = "decision" /\ w.of.type = "promote" /\ w.of.target = "canonical"
PromotedIn(todo) == {todo[j].of.object : j \in {j \in DOMAIN todo : Promotes(todo[j])}}

(* Before a record is written the log has its promotion, or an earlier     *)
(* write of the same command logs it.                                      *)
Backed(todo, D) ==
  \A i \in DOMAIN todo :
    todo[i].step = "record" =>
      \/ todo[i].of.id \in D \cup {0}
      \/ \E j \in 1 .. i - 1 : Promotes(todo[j]) /\ todo[j].of.object = todo[i].of.id

Decided(D) == D \cup {0}
DecisionInv ==
  /\ \A p \in Procs : /\ Backed(cmd[p].todo, DecidedIds)
                       /\ DOMAIN cmd[p].seen \subseteq Decided(DecidedIds)
  /\ DOMAIN registry \subseteq Decided(DecidedIds)

LEMMA NoRecordBacked ==
  ASSUME NEW todo, NEW D, \A i \in DOMAIN todo : todo[i].step # "record"
  PROVE  Backed(todo, D)
  BY DEF Backed

LEMMA BackedByMore ==
  ASSUME NEW todo, NEW D, NEW E, Backed(todo, D), D \subseteq E
  PROVE  Backed(todo, E)
  BY DEF Backed

LEMMA BackedTail ==
  ASSUME NEW todo \in Seq(Writes), todo # <<>>, NEW D, NEW E, Backed(todo, D), D \subseteq E,
         Promotes(Head(todo)) => Head(todo).of.object \in E
  PROVE  Backed(Tail(todo), E)
<1>1. /\ \A i \in DOMAIN Tail(todo) : i + 1 \in DOMAIN todo /\ Tail(todo)[i] = todo[i + 1]
      /\ Head(todo) = todo[1] /\ DOMAIN todo = 1 .. Len(todo) /\ Len(todo) \in Nat
      /\ DOMAIN Tail(todo) = 1 .. Len(todo) - 1
  OBVIOUS
<1> SUFFICES ASSUME NEW i \in DOMAIN Tail(todo), Tail(todo)[i].step = "record"
             PROVE  \/ Tail(todo)[i].of.id \in E \cup {0}
                    \/ \E j \in 1 .. i - 1 : /\ Promotes(Tail(todo)[j])
                                             /\ Tail(todo)[j].of.object = Tail(todo)[i].of.id
  BY DEF Backed
<1>2. todo[i + 1].step = "record" /\ i + 1 \in DOMAIN todo /\ Tail(todo)[i] = todo[i + 1]
  BY <1>1
<1>3. CASE todo[i + 1].of.id \in D \cup {0}
  BY <1>2, <1>3
<1>4. CASE \E j \in 1 .. (i + 1) - 1 : Promotes(todo[j]) /\ todo[j].of.object = todo[i + 1].of.id
  <2>1. PICK j \in 1 .. (i + 1) - 1 : Promotes(todo[j]) /\ todo[j].of.object = todo[i + 1].of.id
    BY <1>4
  <2>2. CASE j = 1
    BY <1>1, <1>2, <2>1, <2>2
  <2>3. CASE j # 1
    <3>1. j - 1 \in 1 .. i - 1 /\ j - 1 \in DOMAIN Tail(todo) /\ (j - 1) + 1 = j
      BY <1>1, <2>3
    <3>2. Tail(todo)[j - 1] = todo[j]
      BY <1>1, <3>1
    <3> QED BY <1>2, <2>1, <3>1, <3>2
  <2> QED BY <2>2, <2>3
<1> QED BY <1>2, <1>3, <1>4 DEF Backed

LEMMA BackedJoined ==
  ASSUME NEW S, NEW s \in Seq(S), NEW t \in Seq(S), NEW D, NEW E, Backed(s, D), Backed(t, D \cup E),
         E \subseteq PromotedIn(s)
  PROVE  Backed(s \o t, D) /\ E \subseteq PromotedIn(s \o t)
<1> DEFINE u == s \o t
<1>1. /\ \A i \in DOMAIN u : IF i <= Len(s) THEN i \in DOMAIN s /\ u[i] = s[i]
                              ELSE i - Len(s) \in DOMAIN t /\ u[i] = t[i - Len(s)]
      /\ DOMAIN s = 1 .. Len(s) /\ Len(s) \in Nat /\ DOMAIN t = 1 .. Len(t) /\ Len(t) \in Nat
      /\ DOMAIN u = 1 .. Len(s) + Len(t)
  BY Joined
<1> HIDE DEF u
<1>2. ASSUME NEW e \in PromotedIn(s)
      PROVE  \E j \in DOMAIN s : Promotes(u[j]) /\ u[j].of.object = e /\ j \in DOMAIN u
  <2>1. PICK j \in DOMAIN s : Promotes(s[j]) /\ s[j].of.object = e
    BY DEF PromotedIn
  <2>2. j \in DOMAIN u /\ u[j] = s[j]
    BY <1>1
  <2> QED BY <2>1, <2>2
<1>3. Backed(u, D)
  <2> SUFFICES ASSUME NEW i \in DOMAIN u, u[i].step = "record"
               PROVE  \/ u[i].of.id \in D \cup {0}
                      \/ \E j \in 1 .. i - 1 : Promotes(u[j]) /\ u[j].of.object = u[i].of.id
    BY DEF Backed
  <2>1. CASE i <= Len(s)
    <3>1. i \in DOMAIN s /\ u[i] = s[i]
      BY <1>1, <2>1
    <3>2. CASE s[i].of.id \in D \cup {0}
      BY <3>1, <3>2
    <3>3. CASE \E j \in 1 .. i - 1 : Promotes(s[j]) /\ s[j].of.object = s[i].of.id
      <4>1. PICK j \in 1 .. i - 1 : Promotes(s[j]) /\ s[j].of.object = s[i].of.id
        BY <3>3
      <4>2. j \in DOMAIN u /\ j <= Len(s)
        BY <1>1, <3>1
      <4>3. u[j] = s[j]
        BY <1>1, <4>2
      <4> QED BY <3>1, <4>1, <4>3
    <3> QED BY <3>1, <3>2, <3>3 DEF Backed
  <2>2. CASE ~(i <= Len(s))
    <3> DEFINE k == i - Len(s)
    <3>1. k \in DOMAIN t /\ u[i] = t[k]
      BY <1>1, <2>2
    <3>2. CASE t[k].of.id \in D \cup {0}
      BY <3>1, <3>2
    <3>3. CASE t[k].of.id \in E
      <4>1. PICK j \in DOMAIN s : Promotes(u[j]) /\ u[j].of.object = t[k].of.id
        BY <1>2, <3>3
      <4>2. j \in 1 .. i - 1
        BY <1>1, <2>2
      <4> QED BY <3>1, <4>1, <4>2
    <3>4. CASE \E j \in 1 .. k - 1 : Promotes(t[j]) /\ t[j].of.object = t[k].of.id
      <4>1. PICK j \in 1 .. k - 1 : Promotes(t[j]) /\ t[j].of.object = t[k].of.id
        BY <3>4
      <4>2. j + Len(s) \in DOMAIN u /\ ~(j + Len(s) <= Len(s)) /\ j + Len(s) \in 1 .. i - 1
            /\ (j + Len(s)) - Len(s) = j
        BY <1>1, <3>1
      <4>3. u[j + Len(s)] = t[j]
        BY <1>1, <4>2
      <4> QED BY <3>1, <4>1, <4>2, <4>3
    <3> HIDE DEF k
    <3> QED BY <3>1, <3>2, <3>3, <3>4 DEF Backed
  <2> QED BY <2>1, <2>2
<1>4. E \subseteq PromotedIn(u)
  BY <1>2 DEF PromotedIn
<1> QED BY <1>3, <1>4 DEF u

(* A step of one command.                                                  *)
LEMMA StepKeepsDecisions ==
  ASSUME TypeInv, DecisionInv, NEW p \in Procs, NEW c, cmd' = [cmd EXCEPT ![p] = c],
         DecidedIds \subseteq DecidedIds', Backed(c.todo, DecidedIds'),
         DOMAIN c.seen \subseteq Decided(DecidedIds'),
         DOMAIN registry' \subseteq Decided(DecidedIds')
  PROVE  DecisionInv'
<1>1. cmd'[p] = c /\ \A q \in Procs \ {p} : cmd'[q] = cmd[q]
  BY DEF TypeInv
<1>2. ASSUME NEW q \in Procs
      PROVE  /\ Backed(cmd'[q].todo, DecidedIds')
             /\ DOMAIN cmd'[q].seen \subseteq Decided(DecidedIds')
  <2>1. CASE q = p
    BY <1>1, <2>1
  <2>2. CASE q # p
    <3>1. Backed(cmd[q].todo, DecidedIds) /\ DOMAIN cmd[q].seen \subseteq Decided(DecidedIds)
          /\ cmd'[q] = cmd[q]
      BY <1>1, <2>2 DEF DecisionInv
    <3> QED BY <3>1, BackedByMore DEF Decided
  <2> QED BY <2>1, <2>2
<1> QED BY <1>2 DEF DecisionInv

LEMMA SameDecisions ==
  ASSUME UNCHANGED decisions
  PROVE  DecidedIds' = DecidedIds
  BY DEF DecidedIds, Promotions

LEMMA IdleDecided == DOMAIN Idle.seen = {}
  BY NothingIsList DEF Idle

(* A command that begins.                                                  *)
LEMMA BeginKeepsDecisions ==
  ASSUME TypeInv, DecisionInv, NEW p \in Procs, NEW what, NEW todo \in Seq(Writes), NEW c \in InFlight,
         begin(p, what, todo, c), c.seen = Nothing, Backed(todo, DecidedIds)
  PROVE  DecisionInv'
<1> DEFINE d == [c EXCEPT !.todo = todo]
<1>1. d.todo = todo /\ DOMAIN d.seen = {}
  BY NothingIsList DEF InFlight
<1>2. cmd' = [cmd EXCEPT ![p] = d] /\ UNCHANGED <<decisions, registry>>
  BY DEF begin, stores
<1>3. DecidedIds' = DecidedIds
  BY <1>2, SameDecisions
<1>4. DOMAIN registry' \subseteq Decided(DecidedIds')
  BY <1>2, <1>3 DEF DecisionInv
<1> HIDE DEF d
<1> QED BY <1>1, <1>2, <1>3, <1>4, StepKeepsDecisions

(* A command that goes on after a write of its own.                        *)
LEMMA DoneKeepsDecisions ==
  ASSUME TypeInv, DecisionInv, NEW p \in Procs, busy(p), NEW c \in InFlight, c.todo = cmd[p].todo,
         proceed(p, c), DecidedIds \subseteq DecidedIds',
         DOMAIN c.seen \subseteq Decided(DecidedIds'),
         DOMAIN registry' \subseteq Decided(DecidedIds'),
         Promotes(Head(c.todo)) => Head(c.todo).of.object \in DecidedIds'
  PROVE  DecisionInv'
<1>1. c.todo # <<>> /\ c.todo \in Seq(Writes) /\ cmd' = [cmd EXCEPT ![p] = After(c)]
  BY DEF busy, proceed, After, InFlight
<1>2. /\ After(c).todo = Tail(c.todo)
      /\ After(c).todo # <<>> => After(c).seen = c.seen
      /\ After(c).todo = <<>> => After(c) = Idle
  BY <1>1, AfterType
<1>3. Backed(c.todo, DecidedIds)
  BY DEF DecisionInv
<1>4. Backed(After(c).todo, DecidedIds')
  BY <1>1, <1>2, <1>3, BackedTail
<1>5. DOMAIN After(c).seen \subseteq Decided(DecidedIds')
  BY <1>2, IdleDecided
<1> QED BY <1>1, <1>4, <1>5, StepKeepsDecisions

LEMMA EndKeepsDecisions ==
  ASSUME TypeInv, DecisionInv, NEW p \in Procs, cmd' = [cmd EXCEPT ![p] = Idle],
         UNCHANGED <<decisions, registry>>
  PROVE  DecisionInv'
<1>1. DecidedIds' = DecidedIds
  BY SameDecisions
<1>2. Backed(Idle.todo, DecidedIds') /\ DOMAIN Idle.seen \subseteq Decided(DecidedIds')
  BY IdleType, IdleDecided DEF Backed
<1>3. DOMAIN registry' \subseteq Decided(DecidedIds')
  BY <1>1 DEF DecisionInv
<1> QED BY <1>1, <1>2, <1>3, StepKeepsDecisions

(* A write of something else.                                              *)
LEMMA WriteKeepsDecisions ==
  ASSUME TypeInv, DecisionInv, NEW p \in Procs, busy(p), ~next(p, "decision"),
         NEW c \in InFlight, c.todo = cmd[p].todo, c.seen = cmd[p].seen, proceed(p, c),
         UNCHANGED <<decisions, registry>>
  PROVE  DecisionInv'
<1>1. DecidedIds' = DecidedIds
  BY SameDecisions
<1>2. DOMAIN c.seen \subseteq Decided(DecidedIds') /\ DOMAIN registry' \subseteq Decided(DecidedIds')
  BY <1>1 DEF DecisionInv
<1>3. ~Promotes(Head(c.todo))
  BY DEF next, Promotes
<1> QED BY <1>1, <1>2, <1>3, DoneKeepsDecisions

LEMMA PlainBacked ==
  ASSUME NEW names \in Seq(Plain), NEW D
  PROVE  Steps(names) \in Seq(Writes) /\ Backed(Steps(names), D)
<1>1. \A k \in DOMAIN Steps(names) : k \in DOMAIN names /\ Steps(names)[k].step = names[k]
  BY StepsType
<1>2. \A k \in DOMAIN names : names[k] # "record"
  BY DEF Plain
<1>3. Steps(names) \in Seq(Writes)
  BY StepsType, UserIsWrites
<1> QED BY <1>1, <1>2, <1>3, NoRecordBacked

(* Saving writes no record. *)
LEMMA SaveBacked ==
  /\ SaveState \in Seq(Writes) /\ SaveKnowledge \in Seq(Writes)
  /\ Canon \in Seq(Writes) /\ Event \in Seq(Writes)
  /\ \A D : /\ Backed(SaveState, D) /\ Backed(SaveKnowledge, D)
            /\ Backed(Canon, D) /\ Backed(Event, D)
<1>1. /\ <<"state", "mirror_state">> \in Seq(Plain)
      /\ <<"state", "mirror_state", "store", "mirror_store", "derived">> \in Seq(Plain)
      /\ <<"canon">> \in Seq(Plain) /\ <<"event", "mirror_event">> \in Seq(Plain)
  BY DEF Plain
<1> QED BY <1>1, PlainBacked DEF SaveState, SaveKnowledge, Canon, Event

LEMMA PromotedInJoined ==
  ASSUME NEW S, NEW s \in Seq(S), NEW t \in Seq(S)
  PROVE  PromotedIn(t) \subseteq PromotedIn(s \o t)
<1> DEFINE u == s \o t
<1>1. \A j \in DOMAIN t : j + Len(s) \in DOMAIN u /\ u[j + Len(s)] = t[j]
  OBVIOUS
<1> HIDE DEF u
<1>2. ASSUME NEW e \in PromotedIn(t)
      PROVE  e \in PromotedIn(u)
  <2>1. PICK j \in DOMAIN t : Promotes(t[j]) /\ t[j].of.object = e
    BY DEF PromotedIn
  <2>2. j + Len(s) \in DOMAIN u /\ u[j + Len(s)] = t[j]
    BY <1>1
  <2>3. Promotes(u[j + Len(s)]) /\ u[j + Len(s)].of.object = e
    BY <2>1, <2>2
  <2> QED BY <2>2, <2>3 DEF PromotedIn
<1> QED BY <1>2 DEF u

LEMMA RecordBacked ==
  ASSUME NEW record \in Records, NEW D, record.id \in D \cup {0}
  PROVE  Record(record) \in Seq(Writes) /\ Backed(Record(record), D)
<1>1. Record(record) \in Seq(Writes)
  BY RecordWrites, UserIsWrites
<1> DEFINE a == Write("read_registry", record)  b == Write("record", record)
<1>2. a.of = record /\ b.of = record
  BY DEF Write
<1> HIDE DEF a, b
<1>3. \A i \in DOMAIN <<a, b>> : <<a, b>>[i].of = record
  BY <1>2
<1>4. Record(record) = <<a, b>>
  BY DEF Record, a, b
<1>5. \A i \in DOMAIN Record(record) : Record(record)[i].of = record
  BY <1>3, <1>4
<1> QED BY <1>1, <1>5 DEF Backed

(* Two series of writes that need no decision but their own.               *)
LEMMA BothBacked ==
  ASSUME NEW s \in Seq(Writes), NEW t \in Seq(Writes), NEW D, Backed(s, D), Backed(t, D)
  PROVE  s \o t \in Seq(Writes) /\ Backed(s \o t, D)
<1>1. PICK E : E = {}
  OBVIOUS
<1>2. Backed(t, D \cup E) /\ E \subseteq PromotedIn(s)
  BY <1>1 DEF Backed
<1> QED BY <1>2, BackedJoined, Joined

LEMMA DecideDecided ==
  ASSUME TypeInv, DecisionInv, NEW p \in Procs, decide_task_knowledge(p) PROVE DecisionInv'
<1>1. PICK d \in Decision, record \in Records, c \in Starting :
        record.id = d.object /\ begin(p, "decide", Deciding(d, record), c)
  BY DecideBegins
<1> DEFINE logged == <<Write("decision", d)>>
           middle == Middle(d, record)
           todo == SaveKnowledge \o logged \o middle \o Canon \o Event
           E == IF PromotesCanonical(d) THEN {d.object} ELSE {}
<1>2. middle \in Seq(Writes) /\ Backed(middle, DecidedIds \cup E)
  <2>1. CASE PromotesCanonical(d)
    BY <1>1, <2>1, RecordBacked DEF Middle
  <2>2. CASE ~PromotesCanonical(d)
    BY <2>2 DEF Backed, Middle
  <2> QED BY <2>1, <2>2
<1>3. logged \in Seq(Writes) /\ Backed(logged, DecidedIds) /\ E \subseteq PromotedIn(logged)
  <2> DEFINE w == Write("decision", d)
  <2>1. logged \in Seq(Writes)
    BY DecisionWrite, UserIsWrites
  <2>2. w.step = "decision" /\ w.of = d
    BY DEF Write
  <2>3. PromotesCanonical(d) => Promotes(w) /\ w.of.object = d.object
    BY <2>2 DEF Promotes, PromotesCanonical
  <2> HIDE DEF w
  <2>4. 1 \in DOMAIN <<w>> /\ <<w>>[1] = w /\ \A k \in DOMAIN <<w>> : <<w>>[k] = w
    OBVIOUS
  <2>5. E \subseteq PromotedIn(<<w>>)
    BY <2>3, <2>4 DEF PromotedIn
  <2>6. Backed(<<w>>, DecidedIds)
    BY <2>2, <2>4 DEF Backed
  <2> QED BY <2>1, <2>5, <2>6 DEF w
<1> HIDE DEF middle, logged, E
<1>4. SaveKnowledge \o logged \in Seq(Writes) /\ Backed(SaveKnowledge \o logged, DecidedIds)
  BY <1>3, SaveBacked, BothBacked
<1>5. E \subseteq PromotedIn(SaveKnowledge \o logged)
  <2>1. /\ SaveKnowledge \in Seq(Writes) /\ logged \in Seq(Writes)
        /\ E \subseteq PromotedIn(logged)
    BY <1>3, SaveBacked
  <2> QED BY <2>1, PromotedInJoined
<1>6. /\ SaveKnowledge \o logged \o middle \in Seq(Writes)
      /\ Backed(SaveKnowledge \o logged \o middle, DecidedIds)
  BY <1>2, <1>4, <1>5, BackedJoined, Joined
<1>7. /\ SaveKnowledge \o logged \o middle \o Canon \in Seq(Writes)
      /\ Backed(SaveKnowledge \o logged \o middle \o Canon, DecidedIds)
  BY <1>6, SaveBacked, BothBacked
<1>8. todo \in Seq(Writes) /\ Backed(todo, DecidedIds)
  BY <1>7, SaveBacked, BothBacked
<1>9. Deciding(d, record) = todo
  BY DEF Deciding, middle, logged
<1>10. c \in InFlight /\ c.seen = Nothing
  BY DEF Starting
<1> HIDE DEF todo
<1> QED BY <1>1, <1>8, <1>9, <1>10, BeginKeepsDecisions

(* The commands that promote nothing of the task.                          *)
LEMMA OtherCommandDecided ==
  ASSUME TypeInv, DecisionInv, NEW p \in Procs, Command(p), ~run_task(p), ~decide_task_knowledge(p)
  PROVE  DecisionInv'
<1>1. PICK what, todo, c :
        todo \in Seq(OtherWrites) /\ c \in Starting /\ begin(p, what, todo, c)
  BY OtherCommandBegins DEF OtherBegins
<1>2. \A i \in DOMAIN todo : todo[i] \in OtherWrites
  BY <1>1
<1>3. todo \in Seq(Writes) /\ Backed(todo, DecidedIds)
  BY <1>1, <1>2, UserIsWrites DEF OtherWrites, Backed
<1>4. c \in InFlight /\ c.seen = Nothing
  BY <1>1 DEF Starting
<1> QED BY <1>1, <1>3, <1>4, BeginKeepsDecisions

LEMMA run_taskDecided ==
  ASSUME TypeInv, DecisionInv, NEW p \in Procs, run_task(p) PROVE DecisionInv'
<1> DEFINE c(wanted) == [Idle EXCEPT !.list = load_state, !.wanted = wanted,
                                     !.authority = "librarian"]
           u == Steps(<<"execute">>)
           todo == SaveState \o u
<1>1. PICK wanted \in {PromotionReady(load_state), {}} : begin(p, "run", todo, c(wanted))
  BY DEF run_task
<1>2. load_state \in Lists
  BY KnownIsList DEF TypeInv, run_task
<1>3. wanted \in SUBSET Nat
  <2>1. DOMAIN load_state \in SUBSET Nat
    BY <1>2, ListType
  <2> QED BY <2>1 DEF PromotionReady
<1>4. c(wanted) \in InFlight /\ c(wanted).seen = Nothing
  <2>1. Idle \in InFlight /\ Idle.seen = Nothing
    BY IdleType DEF Idle
  <2> HIDE DEF Idle
  <2> QED BY <2>1, <1>2, <1>3 DEF InFlight, Authorities
<1>5. u \in Seq(Writes) /\ Backed(u, DecidedIds)
  <2>1. u \in Seq(Writes) /\ Len(u) = 1 /\ u[1].step = "execute"
    BY RunWrites
  <2> HIDE DEF u, Writes
  <2>2. \A i \in DOMAIN u : u[i].step # "record"
    BY <2>1
  <2> QED BY <2>1, <2>2, NoRecordBacked
<1> HIDE DEF u
<1>6. todo \in Seq(Writes) /\ Backed(todo, DecidedIds)
  BY <1>5, SaveBacked, BothBacked
<1> HIDE DEF c, todo
<1> QED BY <1>1, <1>4, <1>6, BeginKeepsDecisions

(* The librarian's decisions come before its records.                      *)
LEMMA SideEffectsBacked ==
  ASSUME NEW records \in Seq(Records), NEW D
  PROVE  Backed(_apply_librarian_side_effects(records), D)
<1> DEFINE a == Decide(records)  b == Apply(records)  c == Steps(<<"plan">>)
           E == {records[k].id : k \in DOMAIN records}
<1>1. /\ a \in Seq(Writes) /\ b \in Seq(Writes) /\ c \in Seq(Writes)
      /\ \A k \in DOMAIN a : k \in DOMAIN records /\ a[k].step = "decision"
                             /\ a[k].of = PromotionDecision(records[k])
      /\ \A k \in DOMAIN b : /\ (k - 1) \div 3 + 1 \in DOMAIN records
                             /\ b[k].of = records[(k - 1) \div 3 + 1]
      /\ \A k \in DOMAIN c : c[k].step = "plan"
      /\ Len(a) = Len(records)
  BY DecideWrites, ApplyWrites, PlanWrite
<1> HIDE DEF a, b, c
<1>2. Backed(a, D)
  <2>1. \A k \in DOMAIN a : a[k].step # "record"
    BY <1>1
  <2> QED BY <2>1, NoRecordBacked
<1>3. DOMAIN a = DOMAIN records
  BY <1>1
<1>4. ASSUME NEW k \in DOMAIN records
      PROVE  Promotes(a[k]) /\ a[k].of.object = records[k].id
  <2>1. a[k].step = "decision" /\ a[k].of = PromotionDecision(records[k])
    BY <1>1, <1>3
  <2> DEFINE d == PromotionDecision(records[k])
  <2>2. d.object = records[k].id /\ d.type = "promote" /\ d.target = "canonical"
    BY DEF PromotionDecision
  <2> HIDE DEF d
  <2> QED BY <2>1, <2>2 DEF Promotes, d
<1>5. E \subseteq PromotedIn(a)
  BY <1>3, <1>4 DEF PromotedIn
<1>6. Backed(b, D \cup E)
  <2>1. \A k \in DOMAIN b : b[k].of.id \in E
    BY <1>1
  <2> HIDE DEF E
  <2> QED BY <2>1 DEF Backed
<1> HIDE DEF E
<1>7. a \o b \in Seq(Writes) /\ Backed(a \o b, D)
  BY <1>1, <1>2, <1>5, <1>6, BackedJoined, Joined
<1>8. Backed(c, D)
  <2>1. \A k \in DOMAIN c : c[k].step # "record"
    BY <1>1
  <2> QED BY <2>1, NoRecordBacked
<1>9. Backed((a \o b) \o c, D)
  BY <1>1, <1>7, <1>8, BothBacked
<1> QED BY <1>9 DEF _apply_librarian_side_effects, a, b, c

(* A step that gives a run its next writes.                                *)
LEMMA RunKeepsDecisions ==
  ASSUME TypeInv, DecisionInv, NEW p \in Procs, NEW c, cmd' = [cmd EXCEPT ![p] = c],
         UNCHANGED stores, c.seen = cmd[p].seen, Backed(c.todo, DecidedIds)
  PROVE  DecisionInv'
<1>1. DecidedIds' = DecidedIds /\ UNCHANGED registry
  BY SameDecisions DEF stores
<1>2. DOMAIN c.seen \subseteq Decided(DecidedIds') /\ DOMAIN registry' \subseteq Decided(DecidedIds')
  BY <1>1 DEF DecisionInv
<1> QED BY <1>1, <1>2, StepKeepsDecisions

LEMMA RoundDecided ==
  ASSUME TypeInv, DecisionInv, NEW p \in Procs,
         execute(p) \/ build_knowledge_store_write_plan(p) \/ run_review_gate(p)
  PROVE  DecisionInv'
<1>0. cmd[p] \in InFlight
  BY DEF TypeInv
<1>1. ASSUME execute(p) PROVE DecisionInv'
  <2> DEFINE batch == LibrarianAgent(Known(load_task_knowledge_view), cmd[p].wanted, registry)
             todo == _apply_librarian_side_effects(batch.records)
             c == [cmd[p] EXCEPT !.list = batch.list, !.round = @ + 1, !.todo = todo]
  <2>1. cmd' = [cmd EXCEPT ![p] = c] /\ UNCHANGED stores
    BY <1>1 DEF execute
  <2>2. load_state \in Lists
    <3>1. cmd[p].todo \in Seq(Writes) /\ cmd[p].todo # <<>> /\ Head(cmd[p].todo).step = "execute"
      BY <1>1 DEF TypeInv, InFlight, next, busy, execute
    <3>2. 1 \in DOMAIN cmd[p].todo /\ cmd[p].todo[1].step = "execute"
      BY <3>1
    <3>3. RunnerKnows(cmd[p], state, load_state) /\ "execute" \in LibrarianSteps
      BY DEF TypeInv, LibrarianSteps
    <3> QED BY <3>2, <3>3 DEF RunnerKnows
  <2>3. Known(load_task_knowledge_view) \in Lists
    BY <2>2, ViewIsList DEF TypeInv, Known
  <2>4. batch \in Batches(Known(load_task_knowledge_view), registry)
    BY <2>3, LibrarianBatch DEF TypeInv, StoresTyped
  <2> HIDE DEF batch
  <2>5. Backed(todo, DecidedIds)
    BY <2>4, SideEffectsBacked DEF Batches, Batch
  <2> HIDE DEF todo
  <2>6. c.seen = cmd[p].seen /\ c.todo = todo
    BY <1>0 DEF InFlight
  <2> HIDE DEF c
  <2> QED BY <2>1, <2>5, <2>6, RunKeepsDecisions
<1>2. ASSUME build_knowledge_store_write_plan(p) PROVE DecisionInv'
  <2> DEFINE planned == [knowledge |-> cmd[p].list, state |-> cmd[p].list,
                         derived |-> Derived(cmd[p].list), canon |-> Active(registry)]
             todo == Steps(Swaps \o <<"store", "review">>)
             c == [cmd[p] EXCEPT !.original = files, !.planned = planned, !.todo = todo]
  <2>1. cmd' = [cmd EXCEPT ![p] = c] /\ UNCHANGED stores
    BY <1>2 DEF build_knowledge_store_write_plan
  <2>2. Backed(todo, DecidedIds)
    <3> DEFINE names == Swaps \o <<"store", "review">>
               P == (Plain \cup LibrarianSteps) \ {"record"}
    <3>1. Swaps \in Seq(P) /\ <<"store", "review">> \in Seq(P)
      BY DEF Swaps, LibrarianSteps, Swapped, Plain
    <3> HIDE DEF P
    <3>2. names \in Seq(P)
      BY <3>1
    <3> HIDE DEF names
    <3>3. \A k \in DOMAIN names : names[k] # "record"
      BY <3>2 DEF P
    <3>4. names \in Seq(Plain \cup LibrarianSteps)
      BY <3>2 DEF P
    <3>5. \A k \in DOMAIN Steps(names) : k \in DOMAIN names /\ Steps(names)[k].step = names[k]
      BY <3>4, AnyStepsType
    <3> QED BY <3>3, <3>5, NoRecordBacked DEF names
  <2> HIDE DEF planned, todo
  <2>3. c.seen = cmd[p].seen /\ c.todo = todo
    BY <1>0 DEF InFlight
  <2> HIDE DEF c
  <2> QED BY <2>1, <2>2, <2>3, RunKeepsDecisions
<1>3. ASSUME run_review_gate(p) PROVE DecisionInv'
  <2>1. PICK todo \in {Steps(<<"execute">>), SaveState \o Event} :
          cmd' = [cmd EXCEPT ![p] = [@ EXCEPT !.todo = todo, !.planned = None, !.original = None]]
    BY <1>3 DEF run_review_gate
  <2> DEFINE c == [cmd[p] EXCEPT !.todo = todo, !.planned = None, !.original = None]
             u == Steps(<<"execute">>)
  <2>2. Backed(u, DecidedIds)
    <3>1. u \in Seq(Writes) /\ Len(u) = 1 /\ u[1].step = "execute"
      BY RunWrites
    <3> HIDE DEF u, Writes
    <3>2. \A i \in DOMAIN u : u[i].step # "record"
      BY <3>1
    <3> QED BY <3>2, NoRecordBacked
  <2>3. Backed(SaveState \o Event, DecidedIds)
    BY SaveBacked, BothBacked
  <2>4. Backed(todo, DecidedIds)
    BY <2>1, <2>2, <2>3
  <2>5. c.seen = cmd[p].seen /\ c.todo = todo
    BY <1>0 DEF InFlight
  <2>6. cmd' = [cmd EXCEPT ![p] = c] /\ UNCHANGED stores
    BY <1>3, <2>1 DEF run_review_gate
  <2> HIDE DEF c
  <2> QED BY <2>4, <2>5, <2>6, RunKeepsDecisions
<1> QED BY <1>1, <1>2, <1>3

(* The log gets a decision. *)
LEMMA DecisionDecided ==
  ASSUME TypeInv, DecisionInv, NEW p \in Procs, append_knowledge_decision(p) PROVE DecisionInv'
<1>1. next(p, "decision") /\ busy(p) /\ decisions' = Append(decisions, written(p))
      /\ done(p) /\ UNCHANGED registry
  BY DEF append_knowledge_decision, next
<1>2. decisions \in Seq(Decision) /\ written(p) \in Decision
  BY <1>1, WrittenType DEF TypeInv, StoresTyped
<1>3. /\ \A k \in DOMAIN decisions : k \in DOMAIN decisions' /\ decisions'[k] = decisions[k]
      /\ Len(decisions) + 1 \in DOMAIN decisions' /\ decisions'[Len(decisions) + 1] = written(p)
  BY <1>1, <1>2
<1>4. DecidedIds \subseteq DecidedIds'
  BY <1>3 DEF DecidedIds, Promotions
<1>5. Promotes(Head(cmd[p].todo)) => Head(cmd[p].todo).of.object \in DecidedIds'
  BY <1>3 DEF DecidedIds, Promotions, Promotes, written
<1>6. cmd[p] \in InFlight /\ proceed(p, cmd[p])
  BY <1>1 DEF TypeInv, done
<1>7. DOMAIN cmd[p].seen \subseteq Decided(DecidedIds') /\ DOMAIN registry' \subseteq Decided(DecidedIds')
  BY <1>1, <1>4 DEF DecisionInv, Decided
<1> QED BY <1>1, <1>4, <1>5, <1>6, <1>7, DoneKeepsDecisions

(* The registry is read and written with a record whose promotion is      *)
(* logged by then.                                                         *)
LEMMA RegistryDecided ==
  ASSUME TypeInv, DecisionInv, NEW p \in Procs,
         register_canonical_proposal(p) \/ write_registry(p)
  PROVE  DecisionInv'
<1>0. cmd[p] \in InFlight
  BY DEF TypeInv
<1>1. ASSUME register_canonical_proposal(p) PROVE DecisionInv'
  <2> DEFINE id == written(p).id
             c == [cmd[p] EXCEPT !.seen = registry, !.registered = @ \cup {id}]
  <2>1. next(p, "read_registry") /\ busy(p) /\ UNCHANGED stores
    BY <1>1 DEF register_canonical_proposal, next
  <2>2. UNCHANGED <<decisions, registry>>
    BY <2>1 DEF stores
  <2>3. CASE fail(p)
    BY <2>2, <2>3, EndKeepsDecisions DEF fail
  <2>4. CASE proceed(p, c)
    <3>1. written(p) \in Records
      BY <2>1, WrittenType DEF RecordSteps
    <3>2. id \in Nat /\ registry \in Registries
      BY <3>1 DEF Records, TypeInv, StoresTyped
    <3> HIDE DEF id
    <3>3. c \in InFlight /\ c.todo = cmd[p].todo /\ c.seen = registry
      BY <1>0, <3>2 DEF InFlight
    <3>4. DecidedIds' = DecidedIds
      BY <2>2, SameDecisions
    <3>5. DOMAIN c.seen \subseteq Decided(DecidedIds') /\ DOMAIN registry' \subseteq Decided(DecidedIds')
      BY <2>2, <3>3, <3>4 DEF DecisionInv
    <3>6. ~Promotes(Head(c.todo))
      BY <2>1, <3>3 DEF next, Promotes
    <3> HIDE DEF c
    <3> QED BY <2>1, <2>4, <3>3, <3>4, <3>5, <3>6, DoneKeepsDecisions
  <2> QED BY <1>1, <2>3, <2>4 DEF register_canonical_proposal
<1>2. ASSUME write_registry(p) PROVE DecisionInv'
  <2> DEFINE c == [cmd[p] EXCEPT !.seen = Nothing]
  <2>1. next(p, "record") /\ busy(p) /\ UNCHANGED decisions /\ proceed(p, c)
        /\ registry' = append_canonical_record(cmd[p].seen, written(p))
    BY <1>2 DEF write_registry, next
  <2>2. written(p) \in Records /\ cmd[p].seen \in Registries
    BY <1>0, <2>1, WrittenType DEF RecordSteps, InFlight
  <2>3. DOMAIN registry' = DOMAIN cmd[p].seen \cup {written(p).id}
    BY <2>1, <2>2, AppendedIsRegistry
  <2>4. written(p).id \in Decided(DecidedIds)
    <3>1. cmd[p].todo \in Seq(Writes) /\ cmd[p].todo # <<>>
      BY <2>1, WrittenType
    <3>2. 1 \in DOMAIN cmd[p].todo /\ cmd[p].todo[1] = Head(cmd[p].todo)
      BY <3>1
    <3>3. Backed(cmd[p].todo, DecidedIds) /\ Head(cmd[p].todo).step = "record"
      BY <2>1 DEF DecisionInv, next
    <3> QED BY <3>2, <3>3 DEF Backed, written, Decided
  <2>5. DecidedIds' = DecidedIds
    BY <2>1, SameDecisions
  <2>6. c \in InFlight /\ c.todo = cmd[p].todo /\ c.seen = Nothing
    <3>1. Nothing \in Registries
      BY NothingIsList
    <3> HIDE DEF Nothing
    <3> QED BY <1>0, <3>1 DEF InFlight
  <2>7. DOMAIN c.seen \subseteq Decided(DecidedIds') /\ DOMAIN registry' \subseteq Decided(DecidedIds')
    BY <2>3, <2>4, <2>5, <2>6, NothingIsList DEF DecisionInv
  <2>8. ~Promotes(Head(c.todo))
    BY <2>1, <2>6 DEF next, Promotes
  <2> HIDE DEF c
  <2> QED BY <2>1, <2>5, <2>6, <2>7, <2>8, DoneKeepsDecisions
<1> QED BY <1>1, <1>2

(* The writes of anything else, and what ends a command.                   *)
LEMMA OtherStepDecided ==
  ASSUME TypeInv, DecisionInv, NEW p \in Procs,
         \/ write_state(p) \/ mirror_state(p) \/ replace_task_knowledge(p) \/ mirror_store(p)
         \/ save_knowledge_index(p) \/ persist_wiki_entry_from_record(p)
         \/ _refresh_canonical_derivatives(p) \/ append_canonical_reuse_evaluation(p)
         \/ summarize(p) \/ save_canonical_reuse_regression(p) \/ append_event(p)
         \/ mirror_event(p) \/ apply_atomic_text_updates(p) \/ RollBack(p) \/ Crash(p)
  PROVE  DecisionInv'
<1>0. cmd[p] \in InFlight
  BY DEF TypeInv
<1>1. CASE busy(p) /\ ~next(p, "decision") /\ done(p) /\ UNCHANGED <<decisions, registry>>
  BY <1>0, <1>1, WriteKeepsDecisions DEF done
<1>2. CASE cmd' = [cmd EXCEPT ![p] = Idle] /\ UNCHANGED <<decisions, registry>>
  BY <1>2, EndKeepsDecisions
<1>3. ASSUME write_state(p) \/ mirror_state(p) \/ mirror_store(p) \/ save_knowledge_index(p)
             \/ _refresh_canonical_derivatives(p) \/ append_canonical_reuse_evaluation(p)
             \/ save_canonical_reuse_regression(p) \/ append_event(p) \/ mirror_event(p)
      PROVE  DecisionInv'
  BY <1>1, <1>3 DEF write_state, mirror_state, mirror_store, save_knowledge_index,
     _refresh_canonical_derivatives, append_canonical_reuse_evaluation,
     save_canonical_reuse_regression, append_event, mirror_event, next
<1>4. ASSUME replace_task_knowledge(p) PROVE DecisionInv'
  BY <1>1, <1>2, <1>4 DEF replace_task_knowledge, next, fail
<1>5. ASSUME apply_atomic_text_updates(p) PROVE DecisionInv'
  <2>1. PICK swap \in DOMAIN FileOf : next(p, swap)
    BY <1>5 DEF apply_atomic_text_updates
  <2>2. swap # "decision"
    BY DEF FileOf
  <2>3. busy(p) /\ ~next(p, "decision") /\ done(p) /\ UNCHANGED <<decisions, registry>>
    BY <1>5, <2>1, <2>2 DEF apply_atomic_text_updates, next
  <2> QED BY <1>1, <2>3
<1>6. ASSUME RollBack(p) \/ Crash(p) PROVE DecisionInv'
  BY <1>2, <1>6 DEF RollBack, fail, Crash, stores
<1>7. ASSUME persist_wiki_entry_from_record(p) PROVE DecisionInv'
  <2>1. \E list : proceed(p, [cmd[p] EXCEPT !.list = list])
    BY <1>7 DEF persist_wiki_entry_from_record
  <2> DEFINE c(list) == [cmd[p] EXCEPT !.list = list]
  <2>2. PICK list \in Lists : proceed(p, c(list))
    <3> DEFINE view == _merge_task_knowledge_views(load_task_knowledge_view, written(p).id,
                         build_wiki_entry_from_canonical_record(written(p)))
               mirrored == Head(Tail(cmd[p].todo)).step = "mirror_wiki"
    <3>1. proceed(p, c(IF mirrored THEN view ELSE cmd[p].list))
      BY <1>7 DEF persist_wiki_entry_from_record
    <3>2. written(p) \in Records
      BY <1>7, WrittenType DEF RecordSteps, persist_wiki_entry_from_record, next
    <3>3. written(p).id \in Nat
      BY <3>2 DEF Records
    <3>4. view \in Lists
      BY <3>2, <3>3, WikiEntryType, ViewIsList, MergedIsList DEF TypeInv
    <3>5. cmd[p].list \in Lists
      BY <1>0 DEF InFlight
    <3> HIDE DEF c, view, mirrored
    <3> QED BY <3>1, <3>4, <3>5
  <2>3. c(list) \in InFlight /\ c(list).todo = cmd[p].todo /\ c(list).seen = cmd[p].seen
    BY <1>0 DEF InFlight
  <2>4. busy(p) /\ ~next(p, "decision") /\ UNCHANGED <<decisions, registry>>
    BY <1>7 DEF persist_wiki_entry_from_record, next
  <2> HIDE DEF c
  <2> QED BY <2>2, <2>3, <2>4, WriteKeepsDecisions
<1>8. ASSUME summarize(p) PROVE DecisionInv'
  <2> DEFINE said == build_canonical_reuse_evaluation_summary(evaluation.records)
             c == [cmd[p] EXCEPT !.said = said]
  <2>1. said \in Summaries
    BY SummaryType DEF TypeInv, StoresTyped
  <2> HIDE DEF said
  <2>2. c \in InFlight /\ c.todo = cmd[p].todo /\ c.seen = cmd[p].seen
    BY <1>0, <2>1 DEF InFlight
  <2>3. busy(p) /\ ~next(p, "decision") /\ UNCHANGED <<decisions, registry>> /\ proceed(p, c)
    BY <1>8 DEF summarize, next, stores, said
  <2> HIDE DEF c
  <2> QED BY <2>2, <2>3, WriteKeepsDecisions
<1> QED BY <1>3, <1>4, <1>5, <1>6, <1>7, <1>8

LEMMA InitDecided == ASSUME Init, TypeInv PROVE DecisionInv
<1>1. \A p \in Procs : cmd[p].todo = <<>> /\ DOMAIN cmd[p].seen = {}
  BY IdleType, IdleDecided DEF Init
<1>2. DOMAIN registry = {}
  BY NothingIsList DEF Init
<1> QED BY <1>1, <1>2 DEF DecisionInv, Backed

LEMMA NextDecided == ASSUME TypeInv, DecisionInv, [Next]_vars PROVE DecisionInv'
<1>1. CASE UNCHANGED vars
  BY <1>1 DEF vars, DecisionInv, DecidedIds, Promotions
<1>2. ASSUME NEW p \in Procs, Command(p)
      PROVE  DecisionInv'
  BY <1>2, DecideDecided, run_taskDecided, OtherCommandDecided
<1>3. ASSUME NEW p \in Procs, Step(p)
      PROVE  DecisionInv'
  BY <1>3, OtherStepDecided, DecisionDecided, RegistryDecided, RoundDecided DEF Step
<1>4. ASSUME NEW p \in Procs, Crash(p)
      PROVE  DecisionInv'
  BY <1>4, OtherStepDecided
<1> QED BY <1>1, <1>2, <1>3, <1>4 DEF Next

(* Whatever crashes, fails or overlaps, an object of the task has a        *)
(* canonical record only if the log of decisions says it was promoted: in  *)
(* every command the decision is appended before the record, and a process *)
(* that rewrites the registry from an older reading adds no other.         *)
THEOREM RecordsHaveDecisions == Spec => []RecordHasDecision
<1>1. Init => TypeInv /\ DecisionInv
  BY InitType, InitDecided
<1>2. TypeInv /\ DecisionInv /\ [Next]_vars => TypeInv' /\ DecisionInv'
  BY NextType, NextDecided
<1>3. DecisionInv => RecordHasDecision
  BY DEF DecisionInv, RecordHasDecision, Decided, DecidedIds
<1> QED BY <1>1, <1>2, <1>3, PTL DEF Spec

-----------------------------------------------------------------------------
(* Commands that do not overlap *)

Steady == "overlap" \notin trouble
Alone == \A p, q \in Procs : busy(p) /\ busy(q) => p = q
AloneInv == Steady => Alone

(* Nothing undoes a disturbance.                                           *)
LEMMA TroubleStays ==
  ASSUME TypeInv, Next
  PROVE  /\ trouble \subseteq trouble'
         /\ crashes' = crashes \/ crashes' # 0
<1>1. ASSUME NEW p \in Procs, Command(p) PROVE trouble \subseteq trouble' /\ crashes' = crashes
  BY <1>1, CommandBegins DEF begin
<1>2. ASSUME NEW p \in Procs, Step(p) PROVE trouble \subseteq trouble' /\ crashes' = crashes
  BY <1>2 DEF Step, write_state, mirror_state, replace_task_knowledge, mirror_store,
     save_knowledge_index, append_knowledge_decision, register_canonical_proposal,
     write_registry, persist_wiki_entry_from_record, _refresh_canonical_derivatives,
     append_canonical_reuse_evaluation, summarize, save_canonical_reuse_regression,
     append_event, mirror_event, execute, build_knowledge_store_write_plan,
     apply_atomic_text_updates, RollBack, run_review_gate, fail, stores
<1>3. ASSUME NEW p \in Procs, Crash(p) PROVE trouble \subseteq trouble' /\ crashes' # 0
  BY <1>3 DEF Crash, TypeInv, CountsTyped
<1> QED BY <1>1, <1>2, <1>3 DEF Next

LEMMA SteadyBefore == ASSUME TypeInv, Next, Steady' PROVE Steady
  BY TroubleStays DEF Steady

(* A step is one of a command that begins, with no other one in flight, or *)
(* of the one that is in flight.                                           *)
LEMMA StepIsBusy ==
  ASSUME NEW p \in Procs, Step(p) \/ Crash(p) PROVE busy(p)
  BY DEF Step, write_state, mirror_state, replace_task_knowledge, mirror_store,
     save_knowledge_index, append_knowledge_decision, register_canonical_proposal,
     write_registry, persist_wiki_entry_from_record, _refresh_canonical_derivatives,
     append_canonical_reuse_evaluation, summarize, save_canonical_reuse_regression,
     append_event, mirror_event, execute, build_knowledge_store_write_plan,
     apply_atomic_text_updates, RollBack, run_review_gate, Crash, next

LEMMA StepIsOwn ==
  ASSUME TypeInv, NEW p \in Procs, Step(p) \/ Crash(p)
  PROVE  \E c : cmd' = [cmd EXCEPT ![p] = c]
<1>1. ASSUME NEW c, proceed(p, c) PROVE \E d : cmd' = [cmd EXCEPT ![p] = d]
  BY <1>1 DEF proceed
<1>2. ASSUME fail(p) PROVE \E d : cmd' = [cmd EXCEPT ![p] = d]
  BY <1>2 DEF fail
<1> QED BY <1>1, <1>2 DEF Step, write_state, mirror_state, replace_task_knowledge, mirror_store,
     save_knowledge_index, append_knowledge_decision, register_canonical_proposal,
     write_registry, persist_wiki_entry_from_record, _refresh_canonical_derivatives,
     append_canonical_reuse_evaluation, summarize, save_canonical_reuse_regression,
     append_event, mirror_event, execute, build_knowledge_store_write_plan,
     apply_atomic_text_updates, RollBack, run_review_gate, Crash, done

(* The steps of a command, and whether one of them always comes before     *)
(* another one.                                                            *)
Names(todo) == {todo[k].step : k \in DOMAIN todo}
Leads(todo, a, b) ==
  \A k \in DOMAIN todo : todo[k].step = b => \E j \in 1 .. k - 1 : todo[j].step = a

(* What a command that mirrors a file has written to SQLite, or writes     *)
(* before: the state, the entries of the knowledge store, a wiki entry.    *)
MirrorReady(c, row, entries, mirror) ==
  /\ "mirror_state" \in Names(c.todo) => row # None \/ Head(c.todo).step = "state"
  /\ "mirror_store" \in Names(c.todo) =>
       /\ Names(c.todo) \cap {"wiki", "mirror_wiki", "swap_knowledge"} = {}
       /\ IF c.list = Nothing THEN entries = Nothing /\ mirror = Nothing
          ELSE entries # Nothing \/ Leads(c.todo, "store", "mirror_store")
  /\ "mirror_wiki" \in Names(c.todo) =>
       /\ "store" \notin Names(c.todo)
       /\ entries # Nothing \/ Leads(c.todo, "wiki", "mirror_wiki")

(* A migration writes first what the files hold and SQLite does not.       *)
MigrationReady(c, row, file, entries, mirror) ==
  c.authority = "migration" =>
    /\ \A k \in DOMAIN c.todo :
         c.todo[k].step \in IF k = 1 THEN {"state", "store", "copy_event"} ELSE {"copy_event"}
    /\ Head(c.todo).step = "state" => row = None /\ c.list = file
    /\ Head(c.todo).step = "store" => entries = Nothing /\ c.list = mirror

(* The state of a task is written before anything else of it.              *)
Ready(c, row, file, entries, mirror) ==
  /\ row = None /\ file = None => Head(c.todo).step = "state"
  /\ MirrorReady(c, row, entries, mirror)
  /\ MigrationReady(c, row, file, entries, mirror)
Early(row, file, entries, mirror) ==
  row = None /\ file = None => entries = Nothing /\ mirror = Nothing

MirrorInv ==
  Steady =>
    /\ Early(state, files.state, store, files.knowledge)
    /\ \A p \in Procs : busy(p) => Ready(cmd[p], state, files.state, store, files.knowledge)

LEMMA NamesOf ==
  ASSUME NEW s \in Seq(Writes), NEW t \in Seq(Writes)
  PROVE  /\ s \o t \in Seq(Writes) /\ Names(s \o t) = Names(s) \cup Names(t)
         /\ s # <<>> => s \o t # <<>> /\ Head(s \o t) = Head(s)
         /\ \A a, b : Leads(s, a, b) /\ b \notin Names(t) => Leads(s \o t, a, b)
<1> DEFINE u == s \o t
<1>1. /\ u \in Seq(Writes) /\ (s # <<>> => u # <<>> /\ Head(u) = Head(s))
      /\ \A i \in DOMAIN u : IF i <= Len(s) THEN i \in DOMAIN s /\ u[i] = s[i]
                              ELSE i - Len(s) \in DOMAIN t /\ u[i] = t[i - Len(s)]
      /\ DOMAIN s = 1 .. Len(s) /\ Len(s) \in Nat /\ DOMAIN t = 1 .. Len(t) /\ Len(t) \in Nat
      /\ DOMAIN u = 1 .. Len(s) + Len(t)
  BY Joined
<1>2. /\ \A j \in DOMAIN t : j + Len(s) \in DOMAIN u /\ u[j + Len(s)] = t[j]
      /\ \A j \in DOMAIN s : j \in DOMAIN u /\ u[j] = s[j]
  OBVIOUS
<1> HIDE DEF u
<1>3. Names(u) = Names(s) \cup Names(t)
  <2>1. \A n \in Names(u) : n \in Names(s) \cup Names(t)
    BY <1>1 DEF Names
  <2>2. \A n \in Names(s) \cup Names(t) : n \in Names(u)
    BY <1>2 DEF Names
  <2> QED BY <2>1, <2>2
<1>4. ASSUME NEW a, NEW b, Leads(s, a, b), b \notin Names(t)
      PROVE  Leads(u, a, b)
  <2> SUFFICES ASSUME NEW k \in DOMAIN u, u[k].step = b
               PROVE  \E j \in 1 .. k - 1 : u[j].step = a
    BY DEF Leads
  <2>1. k <= Len(s) /\ k \in DOMAIN s /\ u[k] = s[k]
    BY <1>1, <1>4 DEF Names
  <2>2. PICK j \in 1 .. k - 1 : s[j].step = a
    BY <1>4, <2>1 DEF Leads
  <2>3. j \in DOMAIN s
    BY <1>1, <2>1
  <2> QED BY <1>2, <2>2, <2>3
<1> QED BY <1>1, <1>3, <1>4 DEF u

LEMMA NamesOfTail ==
  ASSUME NEW todo \in Seq(Writes), todo # <<>>
  PROVE  /\ Names(Tail(todo)) \subseteq Names(todo) /\ Head(todo).step \in Names(todo)
         /\ \A a, b : Leads(todo, a, b) =>
              Head(todo).step # b /\ (Head(todo).step = a \/ Leads(Tail(todo), a, b))
<1>1. /\ Tail(todo) \in Seq(Writes) /\ Len(Tail(todo)) = Len(todo) - 1
      /\ \A i \in DOMAIN Tail(todo) : i + 1 \in DOMAIN todo /\ Tail(todo)[i] = todo[i + 1]
      /\ Head(todo) = todo[1] /\ 1 \in DOMAIN todo /\ Len(todo) \in Nat
      /\ DOMAIN todo = 1 .. Len(todo) /\ DOMAIN Tail(todo) = 1 .. Len(todo) - 1
  BY TailElements
<1>2. Names(Tail(todo)) \subseteq Names(todo) /\ Head(todo).step \in Names(todo)
  BY <1>1 DEF Names
<1>3. ASSUME NEW a, NEW b, Leads(todo, a, b)
      PROVE  Head(todo).step # b /\ (Head(todo).step = a \/ Leads(Tail(todo), a, b))
  <2>1. Head(todo).step # b
    BY <1>1, <1>3 DEF Leads
  <2>2. ASSUME Head(todo).step # a
        PROVE  Leads(Tail(todo), a, b)
    <3> SUFFICES ASSUME NEW k \in DOMAIN Tail(todo), Tail(todo)[k].step = b
                 PROVE  \E j \in 1 .. k - 1 : Tail(todo)[j].step = a
      BY DEF Leads
    <3>1. k + 1 \in DOMAIN todo /\ todo[k + 1].step = b
      BY <1>1
    <3>2. PICK j \in 1 .. (k + 1) - 1 : todo[j].step = a
      BY <1>3, <3>1 DEF Leads
    <3>3. j # 1
      BY <1>1, <2>2, <3>2
    <3>4. j - 1 \in 1 .. k - 1 /\ j - 1 \in DOMAIN Tail(todo) /\ (j - 1) + 1 = j
      BY <1>1, <3>3
    <3>5. Tail(todo)[j - 1] = todo[j]
      BY <1>1, <3>4
    <3> QED BY <3>2, <3>4, <3>5
  <2> QED BY <2>1, <2>2
<1> QED BY <1>2, <1>3

(* What a command that goes on after a step has written.                   *)
LEMMA ReadyAfter ==
  ASSUME NEW c \in InFlight, c.todo # <<>>, NEW c1, c1.todo = Tail(c.todo), Tail(c.todo) # <<>>,
         c1.authority = c.authority, NEW n, n = Head(c.todo).step,
         c1.list = c.list \/ n = "wiki",
         NEW row, NEW file, NEW entries, NEW mirror,
         NEW row1, NEW file1, NEW entries1, NEW mirror1,
         Ready(c, row, file, entries, mirror),
         n = "state" \/ row # None => row1 # None,
         file # None => row1 # None \/ file1 # None,
         n = "store" => entries1 = c.list, n = "wiki" => entries1 # Nothing,
         n \notin {"store", "wiki"} => entries1 = entries,
         n = "mirror_store" => mirror1 = c.list,
         n \notin {"mirror_store", "mirror_wiki", "swap_knowledge"} => mirror1 = mirror
  PROVE  Ready(c1, row1, file1, entries1, mirror1)
<1>1. c.todo \in Seq(Writes)
  BY DEF InFlight
<1>2. /\ Names(c1.todo) \subseteq Names(c.todo) /\ n \in Names(c.todo)
      /\ \A a, b : Leads(c.todo, a, b) => n # b /\ (n = a \/ Leads(c1.todo, a, b))
  BY <1>1, NamesOfTail
<1>3. /\ \A i \in DOMAIN c1.todo : i + 1 \in DOMAIN c.todo /\ c1.todo[i] = c.todo[i + 1]
      /\ c1.todo \in Seq(Writes) /\ 1 \in DOMAIN c1.todo /\ Head(c1.todo) = c1.todo[1]
      /\ DOMAIN c1.todo \subseteq Nat \ {0}
  BY <1>1, TailElements
<1>4. row # None \/ file # None \/ n = "state"
  BY DEF Ready
<1>5. row1 # None \/ file1 # None
  BY <1>4
<1>6. MirrorReady(c, row, entries, mirror)
  BY DEF Ready
<1>7. MirrorReady(c1, row1, entries1, mirror1)
  <2>1. "mirror_state" \in Names(c1.todo) => row1 # None
    BY <1>2, <1>6 DEF MirrorReady
  <2>2. ASSUME "mirror_store" \in Names(c1.todo)
        PROVE  /\ Names(c1.todo) \cap {"wiki", "mirror_wiki", "swap_knowledge"} = {}
               /\ IF c1.list = Nothing THEN entries1 = Nothing /\ mirror1 = Nothing
                  ELSE entries1 # Nothing \/ Leads(c1.todo, "store", "mirror_store")
    <3>1. /\ Names(c.todo) \cap {"wiki", "mirror_wiki", "swap_knowledge"} = {}
          /\ IF c.list = Nothing THEN entries = Nothing /\ mirror = Nothing
             ELSE entries # Nothing \/ Leads(c.todo, "store", "mirror_store")
      BY <1>2, <1>6, <2>2 DEF MirrorReady
    <3>2. n \notin {"wiki", "mirror_wiki", "swap_knowledge"} /\ c1.list = c.list
      BY <1>2, <3>1
    <3>3. CASE c.list = Nothing
      BY <1>2, <3>1, <3>2, <3>3
    <3>4. CASE c.list # Nothing
      <4>1. entries # Nothing => entries1 # Nothing
        BY <3>2, <3>4
      <4>2. Leads(c.todo, "store", "mirror_store") =>
              entries1 # Nothing \/ Leads(c1.todo, "store", "mirror_store")
        BY <1>2, <3>4
      <4> QED BY <1>2, <3>1, <3>2, <3>4, <4>1, <4>2
    <3> QED BY <3>3, <3>4
  <2>3. ASSUME "mirror_wiki" \in Names(c1.todo)
        PROVE  /\ "store" \notin Names(c1.todo)
               /\ entries1 # Nothing \/ Leads(c1.todo, "wiki", "mirror_wiki")
    <3>1. "store" \notin Names(c.todo) /\ (entries # Nothing \/ Leads(c.todo, "wiki", "mirror_wiki"))
      BY <1>2, <1>6, <2>3 DEF MirrorReady
    <3>2. entries # Nothing => entries1 # Nothing
      BY <1>2, <3>1
    <3>3. Leads(c.todo, "wiki", "mirror_wiki") =>
            entries1 # Nothing \/ Leads(c1.todo, "wiki", "mirror_wiki")
      BY <1>2
    <3> QED BY <1>2, <3>1, <3>2, <3>3
  <2> QED BY <2>1, <2>2, <2>3 DEF MirrorReady
<1>8. MigrationReady(c1, row1, file1, entries1, mirror1)
  <2> SUFFICES ASSUME c1.authority = "migration"
               PROVE  /\ \A k \in DOMAIN c1.todo : c1.todo[k].step = "copy_event"
                      /\ Head(c1.todo).step = "copy_event"
    BY Zenon DEF MigrationReady
  <2>1. \A k \in DOMAIN c.todo :
          c.todo[k].step \in IF k = 1 THEN {"state", "store", "copy_event"} ELSE {"copy_event"}
    BY DEF Ready, MigrationReady
  <2>2. \A k \in DOMAIN c1.todo : c1.todo[k].step = "copy_event"
    BY <1>3, <2>1
  <2> QED BY <1>3, <2>2
<1> QED BY <1>5, <1>7, <1>8 DEF Ready

With(c, todo) == [c EXCEPT !.todo = todo]

(* A command that begins in peace is the only one.                         *)
LEMMA BeginAlone ==
  ASSUME TypeInv, NEW p \in Procs, NEW what, NEW todo \in Seq(Writes), NEW c \in InFlight,
         begin(p, what, todo, c), Steady'
  PROVE  /\ Steady /\ UNCHANGED stores /\ \A q \in Procs : ~busy(q)
         /\ cmd' = [cmd EXCEPT ![p] = With(c, todo)]
         /\ \A q \in Procs \ {p} : cmd'[q] = cmd[q]
         /\ cmd'[p] = With(c, todo)
         /\ With(c, todo) \in InFlight
<1> DEFINE overlaps == \E q \in Procs : busy(q)
<1>1. trouble' = trouble \cup (IF overlaps THEN {"overlap"} ELSE {}) \cup ({what} \cap {"refresh"})
  BY DEF begin
<1>2. Steady /\ ~overlaps
  BY <1>1 DEF Steady
<1>3. cmd' = [cmd EXCEPT ![p] = With(c, todo)] /\ UNCHANGED stores
  BY DEF begin, With
<1>4. cmd \in [Procs -> InFlight] /\ With(c, todo) \in InFlight
  BY DEF TypeInv, InFlight, With
<1> HIDE DEF InFlight
<1> QED BY <1>2, <1>3, <1>4

LEMMA NextAlone == ASSUME TypeInv, AloneInv, [Next]_vars PROVE AloneInv'
<1>1. CASE UNCHANGED vars
  BY <1>1 DEF vars, AloneInv, Steady, Alone, busy
<1>2. ASSUME NEW p \in Procs, Command(p), Steady'
      PROVE  Alone'
  <2>1. PICK what, todo, c : begin(p, what, todo, c)
    BY <1>2, CommandBegins
  <2>2. trouble' = trouble \cup (IF \E q \in Procs : busy(q) THEN {"overlap"} ELSE {})
                           \cup ({what} \cap {"refresh"})
    BY <2>1 DEF begin
  <2>3. \A q \in Procs : ~busy(q)
    BY <1>2, <2>2 DEF Steady
  <2>4. \A q \in Procs \ {p} : cmd'[q] = cmd[q]
    BY <2>1 DEF begin, TypeInv
  <2> QED BY <2>3, <2>4 DEF Alone, busy
<1>3. ASSUME NEW p \in Procs, Step(p) \/ Crash(p), Steady'
      PROVE  Alone'
  <2>1. busy(p) /\ Alone
    BY <1>3, StepIsBusy, SteadyBefore DEF AloneInv, Next
  <2>2. PICK c : cmd' = [cmd EXCEPT ![p] = c]
    BY <1>3, StepIsOwn
  <2>3. \A q \in Procs \ {p} : cmd'[q] = cmd[q]
    BY <2>2 DEF TypeInv
  <2> QED BY <2>1, <2>3 DEF Alone, busy
<1> QED BY <1>1, <1>2, <1>3 DEF AloneInv, Next

(* What a step of the only command, or its beginning, has to establish.    *)
LEMMA StepReady ==
  ASSUME TypeInv, AloneInv, Steady, NEW p \in Procs, busy(p), NEW c,
         cmd' = [cmd EXCEPT ![p] = c],
         Early(state', files'.state, store', files'.knowledge),
         c.todo # <<>> => Ready(c, state', files'.state, store', files'.knowledge)
  PROVE  MirrorInv'
<1>1. cmd'[p] = c /\ \A q \in Procs \ {p} : cmd'[q] = cmd[q]
  BY DEF TypeInv
<1>2. \A q \in Procs \ {p} : cmd[q].todo = <<>>
  BY DEF AloneInv, Alone, busy
<1>3. ASSUME NEW q \in Procs, cmd'[q].todo # <<>>
      PROVE  Ready(cmd'[q], state', files'.state, store', files'.knowledge)
  <2>1. q = p
    BY <1>1, <1>2, <1>3
  <2> QED BY <1>1, <1>3, <2>1
<1>4. ASSUME NEW q \in Procs, busy(q)'
      PROVE  Ready(cmd[q], state, files.state, store, files.knowledge)'
  BY <1>3, <1>4 DEF busy
<1>5. Early(state, files.state, store, files.knowledge)'
  OBVIOUS
<1> QED BY <1>4, <1>5 DEF MirrorInv

LEMMA BeginReady ==
  ASSUME TypeInv, MirrorInv, NEW p \in Procs, NEW what, NEW todo \in Seq(Writes), NEW c \in InFlight,
         begin(p, what, todo, c),
         Early(state, files.state, store, files.knowledge) =>
           Ready(With(c, todo), state, files.state, store, files.knowledge)
  PROVE  MirrorInv'
<1> SUFFICES ASSUME Steady'
             PROVE  /\ Early(state, files.state, store, files.knowledge)'
                    /\ \A q \in Procs : busy(q)' =>
                         Ready(cmd[q], state, files.state, store, files.knowledge)'
  BY DEF MirrorInv
<1> DEFINE d == With(c, todo)
<1>1. /\ Steady /\ UNCHANGED stores /\ \A q \in Procs : ~busy(q)
      /\ cmd'[p] = d /\ \A q \in Procs \ {p} : cmd'[q] = cmd[q]
  <2> HIDE DEF d
  <2>1. Steady /\ UNCHANGED stores /\ \A q \in Procs : ~busy(q)
    BY BeginAlone
  <2>2. cmd' = [cmd EXCEPT ![p] = d]
    BY BeginAlone DEF d
  <2>3. cmd'[p] = d /\ \A q \in Procs \ {p} : cmd'[q] = cmd[q]
    BY <2>2 DEF TypeInv
  <2> QED BY <2>1, <2>3
<1>2. Early(state, files.state, store, files.knowledge) /\ Ready(d, state, files.state, store, files.knowledge)
  BY <1>1 DEF MirrorInv
<1>3. state' = state /\ files' = files /\ store' = store
  BY <1>1 DEF stores
<1>4. Ready(d, state', files'.state, store', files'.knowledge)
      /\ Early(state', files'.state, store', files'.knowledge)
  BY <1>2, <1>3
<1> HIDE DEF d
<1>5. ASSUME NEW q \in Procs, busy(q)'
      PROVE  Ready(cmd[q], state, files.state, store, files.knowledge)'
  <2>1. q = p
    BY <1>1, <1>5 DEF busy
  <2>2. Ready(cmd'[q], state', files'.state, store', files'.knowledge)
    BY <1>1, <1>4, <2>1
  <2> QED BY <2>2
<1> QED BY <1>4, <1>5

(* A write of a command that goes on.                                      *)
LEMMA WriteReady ==
  ASSUME TypeInv, AloneInv, MirrorInv, Steady, NEW p \in Procs, busy(p),
         NEW c \in InFlight, c.todo = cmd[p].todo, c.authority = cmd[p].authority,
         NEW n, n = Head(cmd[p].todo).step, c.list = cmd[p].list \/ n = "wiki", proceed(p, c),
         n = "state" \/ state # None => state' # None,
         files.state # None => state' # None \/ files'.state # None,
         n = "store" => store' = cmd[p].list, n = "wiki" => store' # Nothing,
         n \notin {"store", "wiki"} => store' = store,
         n = "mirror_store" => files'.knowledge = cmd[p].list,
         n \notin {"mirror_store", "mirror_wiki", "swap_knowledge"} =>
           files'.knowledge = files.knowledge
  PROVE  MirrorInv'
<1>1. /\ Ready(cmd[p], state, files.state, store, files.knowledge)
      /\ cmd[p] \in InFlight /\ cmd[p].todo # <<>>
  BY DEF MirrorInv, TypeInv, busy
<1>2. cmd' = [cmd EXCEPT ![p] = After(c)] /\ After(c) \in InFlight
  BY <1>1, AfterType DEF proceed, After
<1>3. /\ After(c).todo = Tail(c.todo)
      /\ After(c).todo # <<>> => After(c).list = c.list /\ After(c).authority = c.authority
  BY <1>1, AfterType
<1>4. After(c).todo # <<>> => Ready(After(c), state', files'.state, store', files'.knowledge)
  BY <1>1, <1>3, ReadyAfter
<1>5. Early(state', files'.state, store', files'.knowledge)
  <2>1. state # None \/ files.state # None \/ n = "state"
    BY <1>1 DEF Ready
  <2> QED BY <2>1 DEF Early
<1> QED BY <1>2, <1>4, <1>5, StepReady

LEMMA NamesOfSteps ==
  ASSUME NEW names \in Seq(Plain \cup LibrarianSteps)
  PROVE  /\ Steps(names) \in Seq(Writes) /\ Names(Steps(names)) = {names[k] : k \in DOMAIN names}
         /\ \A a, b : (\A k \in DOMAIN names : names[k] = b => \E j \in 1 .. k - 1 : names[j] = a)
                      => Leads(Steps(names), a, b)
         /\ names # <<>> => Steps(names) # <<>> /\ Head(Steps(names)).step = Head(names)
<1> DEFINE s == Steps(names)
<1>1. /\ s \in Seq(Writes) /\ DOMAIN s = DOMAIN names /\ DOMAIN names = 1 .. Len(names)
      /\ Len(names) \in Nat /\ \A k \in DOMAIN s : s[k].step = names[k]
      /\ names # <<>> => s # <<>> /\ Head(s).step = Head(names)
  <2>1. /\ s \in Seq(Writes) /\ Len(s) = Len(names) /\ \A k \in DOMAIN s : s[k].step = names[k]
        /\ names # <<>> => s # <<>> /\ Head(s).step = Head(names)
    BY AnyStepsType
  <2> HIDE DEF s
  <2> QED BY <2>1
<1> HIDE DEF s
<1>2. Names(s) = {names[k] : k \in DOMAIN names}
  BY <1>1 DEF Names
<1>3. ASSUME NEW a, NEW b,
             \A k \in DOMAIN names : names[k] = b => \E j \in 1 .. k - 1 : names[j] = a
      PROVE  Leads(s, a, b)
  <2> SUFFICES ASSUME NEW k \in DOMAIN s, s[k].step = b
               PROVE  \E j \in 1 .. k - 1 : s[j].step = a
    BY DEF Leads
  <2>1. PICK j \in 1 .. k - 1 : names[j] = a
    BY <1>1, <1>3
  <2>2. j \in DOMAIN s
    BY <1>1
  <2> QED BY <1>1, <2>1, <2>2
<1> QED BY <1>1, <1>2, <1>3 DEF s

LEMMA NamesOfRecord ==
  ASSUME NEW record \in Records
  PROVE  Record(record) \in Seq(Writes) /\ Names(Record(record)) = {"read_registry", "record"}
<1>1. Record(record) \in Seq(Writes)
  BY RecordWrites, UserIsWrites
<1>2. Write("read_registry", record).step = "read_registry" /\ Write("record", record).step = "record"
  BY DEF Write
<1>3. Names(Record(record)) = {"read_registry", "record"}
  BY <1>2 DEF Record, Names
<1> QED BY <1>1, <1>3

LEMMA SaveNames ==
  /\ SaveState \in Seq(Writes) /\ Names(SaveState) = {"state", "mirror_state"}
  /\ SaveState # <<>> /\ Head(SaveState).step = "state"
  /\ SaveKnowledge \in Seq(Writes)
  /\ Names(SaveKnowledge) = {"state", "mirror_state", "store", "mirror_store", "derived"}
  /\ SaveKnowledge # <<>> /\ Head(SaveKnowledge).step = "state"
  /\ Leads(SaveKnowledge, "store", "mirror_store")
  /\ Canon \in Seq(Writes) /\ Names(Canon) = {"canon"}
  /\ Event \in Seq(Writes) /\ Names(Event) = {"event", "mirror_event"}
<1> DEFINE a == <<"state", "mirror_state">>
           b == <<"state", "mirror_state", "store", "mirror_store", "derived">>
           d == <<"canon">>
           e == <<"event", "mirror_event">>
           values(t) == {t[k] : k \in DOMAIN t}
<1>1. /\ a \in Seq(Plain \cup LibrarianSteps) /\ b \in Seq(Plain \cup LibrarianSteps)
      /\ d \in Seq(Plain \cup LibrarianSteps) /\ e \in Seq(Plain \cup LibrarianSteps)
  BY DEF Plain
<1>2. /\ values(a) = {"state", "mirror_state"} /\ a # <<>> /\ Head(a) = "state"
      /\ values(d) = {"canon"} /\ values(e) = {"event", "mirror_event"}
  BY Zenon, SMT
<1>3. values(b) = {"state", "mirror_state", "store", "mirror_store", "derived"}
      /\ b # <<>> /\ Head(b) = "state"
  OBVIOUS
<1>4. \A k \in DOMAIN b : b[k] = "mirror_store" => \E j \in 1 .. k - 1 : b[j] = "store"
  <2> SUFFICES ASSUME NEW k \in DOMAIN b, b[k] = "mirror_store"
               PROVE  \E j \in 1 .. k - 1 : b[j] = "store"
    OBVIOUS
  <2>1. k = 4
    OBVIOUS
  <2>2. 3 \in 1 .. k - 1 /\ b[3] = "store"
    BY <2>1
  <2> QED BY <2>2
<1>5. SaveState = Steps(a) /\ SaveKnowledge = Steps(b) /\ Canon = Steps(d) /\ Event = Steps(e)
  BY DEF SaveState, SaveKnowledge, Canon, Event
<1> HIDE DEF a, b, d, e
<1>6. Leads(Steps(b), "store", "mirror_store")
  BY <1>1, <1>4, NamesOfSteps
<1> QED BY <1>1, <1>2, <1>3, <1>5, <1>6, NamesOfSteps

LEMMA Begun ==
  ASSUME NEW c \in InFlight, NEW todo \in Seq(Writes), c.authority # "migration",
         NEW row, NEW file, NEW entries, NEW mirror, Early(row, file, entries, mirror),
         row # None \/ file # None \/ Head(todo).step = "state",
         "mirror_state" \in Names(todo) => Head(todo).step = "state",
         "mirror_store" \in Names(todo) =>
           /\ Names(todo) \cap {"wiki", "mirror_wiki", "swap_knowledge"} = {}
           /\ Leads(todo, "store", "mirror_store")
           /\ c.list # Nothing \/ (row = None /\ file = None),
         "mirror_wiki" \in Names(todo) =>
           "store" \notin Names(todo) /\ Leads(todo, "wiki", "mirror_wiki")
  PROVE  Ready(With(c, todo), row, file, entries, mirror)
<1> DEFINE d == With(c, todo)
<1>1. d.todo = todo /\ d.list = c.list /\ d.authority = c.authority
  BY DEF InFlight, With
<1> HIDE DEF d
<1>2. MirrorReady(d, row, entries, mirror)
  BY <1>1 DEF MirrorReady, Early
<1>3. MigrationReady(d, row, file, entries, mirror)
  BY <1>1 DEF MigrationReady
<1> QED BY <1>1, <1>2, <1>3 DEF Ready, d

LEMMA IdleSet ==
  ASSUME NEW list, NEW authority
  PROVE  /\ [Idle EXCEPT !.list = list].list = list
         /\ [Idle EXCEPT !.list = list].authority = "task-state"
         /\ [Idle EXCEPT !.authority = authority].authority = authority
         /\ [Idle EXCEPT !.list = list, !.authority = authority].list = list
         /\ [Idle EXCEPT !.list = list, !.authority = authority].authority = authority
  BY DEF Idle

(* Saving the state and, in some commands, the knowledge.                  *)
LEMMA SaveReady ==
  ASSUME TypeInv, MirrorInv, NEW p \in Procs, NEW what, NEW todo \in Seq(Writes), NEW c \in InFlight,
         begin(p, what, todo, c), c.authority # "migration", Head(todo).step = "state",
         Names(todo) \cap {"wiki", "mirror_wiki", "swap_knowledge"} = {},
         "mirror_store" \in Names(todo) =>
           /\ Leads(todo, "store", "mirror_store")
           /\ c.list # Nothing \/ load_state = None
  PROVE  MirrorInv'
<1>1. load_state = None => state = None /\ files.state = None
  BY DEF load_state, task_exists
<1>2. Early(state, files.state, store, files.knowledge) =>
        Ready(With(c, todo), state, files.state, store, files.knowledge)
  <2> SUFFICES ASSUME Early(state, files.state, store, files.knowledge)
               PROVE  Ready(With(c, todo), state, files.state, store, files.knowledge)
    OBVIOUS
  <2>1. "mirror_store" \in Names(todo) =>
          /\ Leads(todo, "store", "mirror_store")
          /\ c.list # Nothing \/ (state = None /\ files.state = None)
    BY <1>1
  <2>2. "mirror_wiki" \notin Names(todo)
    OBVIOUS
  <2> QED BY <2>1, <2>2, Begun
<1> QED BY <1>2, BeginReady

NonEmptyCaptures == \A req \in Requests : req.items # <<>>

LEMMA create_taskReady ==
  ASSUME TypeInv, MirrorInv, NEW p \in Procs, create_task(p) PROVE MirrorInv'
<1>1. PICK req \in Created :
        begin(p, "create", SaveKnowledge \o Canon \o Event,
              [Idle EXCEPT !.list = build_knowledge_objects(req, 1),
                           !.authority = capture_authority(req)])
  BY DEF create_task
<1>2. req \in Captures
  BY KnowledgeAssumption
<1>3. build_knowledge_objects(req, 1) \in Lists /\ capture_authority(req) \in Authorities
  BY <1>2, BuiltIsList, CaptureAuthority
<1> DEFINE c == [Idle EXCEPT !.list = build_knowledge_objects(req, 1),
                             !.authority = capture_authority(req)]
           todo == SaveKnowledge \o Canon \o Event
<1>4. c \in InFlight /\ c.authority = capture_authority(req)
  BY <1>3, IdleWith, IdleSet
<1>5. c.authority # "migration"
  BY <1>4 DEF capture_authority
<1>6. /\ SaveKnowledge \o Canon \in Seq(Writes) /\ SaveKnowledge \o Canon # <<>>
      /\ Head(SaveKnowledge \o Canon).step = "state"
      /\ Names(SaveKnowledge \o Canon) =
           {"state", "mirror_state", "store", "mirror_store", "derived", "canon"}
      /\ Leads(SaveKnowledge \o Canon, "store", "mirror_store")
  BY SaveNames, NamesOf
<1>7. /\ todo \in Seq(Writes) /\ Head(todo).step = "state"
      /\ Names(todo) = {"state", "mirror_state", "store", "mirror_store", "derived", "canon",
                        "event", "mirror_event"}
      /\ Leads(todo, "store", "mirror_store")
  <2>1. /\ todo \in Seq(Writes) /\ Head(todo) = Head(SaveKnowledge \o Canon)
        /\ Names(todo) = Names(SaveKnowledge \o Canon) \cup Names(Event)
        /\ Leads(todo, "store", "mirror_store")
    BY <1>6, SaveNames, NamesOf
  <2> HIDE DEF todo
  <2> QED BY <1>6, <2>1, SaveNames
<1>8. begin(p, "create", todo, c) /\ load_state = None
  BY <1>1 DEF create_task
<1> HIDE DEF c, todo
<1> QED BY <1>4, <1>5, <1>7, <1>8, SaveReady

LEMMA append_task_knowledge_captureReady ==
  ASSUME NonEmptyCaptures, TypeInv, MirrorInv, NEW p \in Procs, append_task_knowledge_capture(p)
  PROVE  MirrorInv'
<1> DEFINE start == Cardinality(DOMAIN load_state) + 1
           new(req) == build_knowledge_objects(req, start)
           list(req) == Extended(load_state, new(req))
           c(req) == [Idle EXCEPT !.list = list(req), !.authority = capture_authority(req)]
           todo == SaveKnowledge \o Event
<1>1. PICK req \in Requests : begin(p, "capture", todo, c(req))
  BY DEF append_task_knowledge_capture
<1>2. req \in Captures /\ capture_authority(req) \in Authorities
  BY KnowledgeAssumption, CaptureAuthority
<1>3. load_state \in Lists
  BY KnownIsList DEF TypeInv, append_task_knowledge_capture
<1>4. start \in Nat \ {0}
  <2>1. IsFiniteSet(DOMAIN load_state)
    BY <1>3, ListType
  <2>2. Cardinality(DOMAIN load_state) \in Nat
    BY <2>1, FS_CardinalityType
  <2> QED BY <2>2
<1> HIDE DEF start
<1>5. new(req) \in Lists /\ DOMAIN new(req) = start .. start + Len(req.items) - 1
  BY <1>2, <1>4, BuiltIsList
<1>6. start \in DOMAIN new(req)
  <2>1. req.items \in Seq(Texts) /\ req.items # <<>>
    BY <1>2 DEF Captures, NonEmptyCaptures
  <2>2. Len(req.items) \in Nat \ {0}
    BY <2>1
  <2> QED BY <1>4, <1>5, <2>2
<1> HIDE DEF new
<1>7. list(req) \in Lists /\ start \in DOMAIN list(req)
  BY <1>3, <1>5, <1>6, ExtendedIsList
<1>8. list(req) # Nothing
  BY <1>7, NothingIsList
<1> HIDE DEF list
<1>9. c(req) \in InFlight /\ c(req).list = list(req) /\ c(req).authority = capture_authority(req)
  BY <1>2, <1>7, IdleWith, IdleSet
<1>10. c(req).authority # "migration"
  BY <1>9 DEF capture_authority
<1>11. /\ todo \in Seq(Writes) /\ Head(todo).step = "state"
       /\ Names(todo) = {"state", "mirror_state", "store", "mirror_store", "derived",
                         "event", "mirror_event"}
       /\ Leads(todo, "store", "mirror_store")
  <2>1. /\ todo \in Seq(Writes) /\ Head(todo) = Head(SaveKnowledge)
        /\ Names(todo) = Names(SaveKnowledge) \cup Names(Event)
        /\ Leads(todo, "store", "mirror_store")
    BY SaveNames, NamesOf
  <2> HIDE DEF todo
  <2> QED BY <2>1, SaveNames
<1> HIDE DEF c, todo
<1> QED BY <1>1, <1>8, <1>9, <1>10, <1>11, SaveReady

LEMMA decide_task_knowledgeReady ==
  ASSUME TypeInv, MirrorInv, NEW p \in Procs, decide_task_knowledge(p) PROVE MirrorInv'
<1>1. PICK d \in Decision, record \in Records, c \in Starting :
        /\ c.list \in Lists /\ d.object \in DOMAIN c.list /\ c.authority # "migration"
        /\ begin(p, "decide", Deciding(d, record), c)
  BY DecideBegins
<1> DEFINE todo == Deciding(d, record)
           logged == <<Write("decision", d)>>
           middle == Middle(d, record)
           early == SaveKnowledge \o logged
           most == early \o middle
           nearly == most \o Canon
<1>2. logged \in Seq(Writes) /\ Names(logged) = {"decision"}
  <2>1. logged \in Seq(Writes)
    BY DecisionWrite, UserIsWrites
  <2>2. Write("decision", d).step = "decision"
    BY DEF Write
  <2> QED BY <2>1, <2>2 DEF Names
<1>3. middle \in Seq(Writes) /\ Names(middle) \subseteq {"read_registry", "record"}
  <2>1. CASE PromotesCanonical(d)
    BY <2>1, NamesOfRecord DEF Middle
  <2>2. CASE ~PromotesCanonical(d)
    BY <2>2 DEF Names, Middle
  <2> QED BY <2>1, <2>2
<1>4. todo = early \o middle \o Canon \o Event
  BY DEF Deciding
<1> HIDE DEF logged, middle, todo
<1>5. /\ early \in Seq(Writes) /\ early # <<>> /\ Head(early).step = "state"
      /\ Names(early) = Names(SaveKnowledge) \cup Names(logged)
      /\ Leads(early, "store", "mirror_store")
  BY <1>2, SaveNames, NamesOf
<1> HIDE DEF early
<1>6. /\ most \in Seq(Writes) /\ most # <<>> /\ Head(most).step = "state"
      /\ Names(most) = Names(early) \cup Names(middle)
      /\ Leads(most, "store", "mirror_store")
  BY <1>3, <1>5, NamesOf
<1> HIDE DEF most
<1>7. /\ nearly \in Seq(Writes) /\ nearly # <<>> /\ Head(nearly).step = "state"
      /\ Names(nearly) = Names(most) \cup Names(Canon)
      /\ Leads(nearly, "store", "mirror_store")
  BY <1>6, SaveNames, NamesOf
<1> HIDE DEF nearly
<1>8. /\ todo = nearly \o Event /\ nearly \o Event \in Seq(Writes)
      /\ Head(nearly \o Event).step = "state"
      /\ Names(nearly \o Event) = Names(nearly) \cup Names(Event)
      /\ Leads(nearly \o Event, "store", "mirror_store")
  BY <1>4, <1>7, SaveNames, NamesOf DEF nearly, most
<1>9. Names(todo) \subseteq {"state", "mirror_state", "store", "mirror_store", "derived",
          "decision", "read_registry", "record", "canon", "event", "mirror_event"}
  BY <1>2, <1>3, <1>5, <1>6, <1>7, <1>8, SaveNames
<1>10. c \in InFlight /\ c.list # Nothing
  BY <1>1, NothingIsList DEF Starting
<1>11. /\ todo \in Seq(Writes) /\ Head(todo).step = "state"
       /\ Names(todo) \cap {"wiki", "mirror_wiki", "swap_knowledge"} = {}
       /\ Leads(todo, "store", "mirror_store")
  BY <1>8, <1>9
<1>12. begin(p, "decide", todo, c)
  BY <1>1 DEF todo
<1> QED BY <1>1, <1>10, <1>11, <1>12, SaveReady

(* The other commands that save the state, and those that do not.          *)
LEMMA StateOnlyReady ==
  ASSUME TypeInv, MirrorInv, NEW p \in Procs,
         update_task_planning_handoff(p) \/ run_task(p)
  PROVE  MirrorInv'
<1>0. load_state \in Lists
  BY KnownIsList DEF TypeInv, update_task_planning_handoff, run_task
<1>1. ASSUME update_task_planning_handoff(p) PROVE MirrorInv'
  <2> DEFINE c == [Idle EXCEPT !.list = load_state]
             todo == SaveState \o Event
  <2>1. c \in InFlight /\ c.authority # "migration"
    BY <1>0, IdleWith, IdleSet DEF Authorities
  <2>2. /\ todo \in Seq(Writes) /\ Head(todo).step = "state"
        /\ Names(todo) = Names(SaveState) \cup Names(Event)
    BY SaveNames, NamesOf
  <2>3. begin(p, "handoff", todo, c)
    BY <1>1 DEF update_task_planning_handoff
  <2> HIDE DEF c, todo
  <2>4. Names(todo) \subseteq {"state", "mirror_state", "event", "mirror_event"}
    BY <2>2, SaveNames
  <2> QED BY <2>1, <2>2, <2>3, <2>4, SaveReady
<1>2. ASSUME run_task(p) PROVE MirrorInv'
  <2> DEFINE c(wanted) == [Idle EXCEPT !.list = load_state, !.wanted = wanted,
                                       !.authority = "librarian"]
             u == Steps(<<"execute">>)
             todo == SaveState \o u
  <2>1. PICK wanted \in {PromotionReady(load_state), {}} : begin(p, "run", todo, c(wanted))
    BY <1>2 DEF run_task
  <2>2. wanted \in SUBSET Nat
    <3>1. DOMAIN load_state \in SUBSET Nat
      BY <1>0, ListType
    <3> QED BY <3>1 DEF PromotionReady
  <2>3. c(wanted) \in InFlight /\ c(wanted).authority = "librarian"
    <3>1. Idle \in InFlight
      BY IdleType
    <3> HIDE DEF Idle
    <3> QED BY <3>1, <1>0, <2>2 DEF InFlight, Authorities
  <2>4. u \in Seq(Writes) /\ Names(u) = {"execute"}
    <3> DEFINE e == <<"execute">>
    <3>1. e \in Seq(Plain \cup LibrarianSteps) /\ {e[k] : k \in DOMAIN e} = {"execute"}
      BY DEF LibrarianSteps
    <3> HIDE DEF e
    <3>2. Steps(e) \in Seq(Writes) /\ Names(Steps(e)) = {"execute"}
      BY <3>1, NamesOfSteps
    <3> QED BY <3>2 DEF e
  <2> HIDE DEF u
  <2>5. /\ todo \in Seq(Writes) /\ Head(todo).step = "state"
        /\ Names(todo) = Names(SaveState) \cup Names(u)
    BY <2>4, SaveNames, NamesOf
  <2> HIDE DEF c, todo
  <2>6. Names(todo) \subseteq {"state", "mirror_state", "execute"}
    BY <2>4, <2>5, SaveNames
  <2> QED BY <2>1, <2>3, <2>5, <2>6, SaveReady
<1> QED BY <1>1, <1>2

(* A staged promotion and refreshed evidence come to the store alone.      *)
LEMMA StoreOnlyReady ==
  ASSUME TypeInv, MirrorInv, NEW p \in Procs,
         promote_stage_candidate_command(p) \/ refresh_wiki_evidence_command(p)
  PROVE  MirrorInv'
<1>0. load_state # None => state # None \/ files.state # None
  BY DEF load_state, task_exists
<1>1. ASSUME promote_stage_candidate_command(p) PROVE MirrorInv'
  <2> DEFINE a == <<Write("wiki", StagedRecord)>>
             m == Steps(<<"mirror_wiki">>)
             r == Record(StagedRecord)
             x == a \o m
             y == x \o r
             todo == y \o Canon
             c == [Idle EXCEPT !.authority = "operator-gated"]
  <2>1. begin(p, "stage", todo, c) /\ load_state # None
    BY <1>1 DEF promote_stage_candidate_command
  <2>2. c \in InFlight /\ c.authority # "migration"
    BY NothingIsList, IdleWith, IdleSet DEF Authorities
  <2>3. m \in Seq(Writes) /\ Names(m) = {"mirror_wiki"}
    <3> DEFINE e == <<"mirror_wiki">>
    <3>1. e \in Seq(Plain \cup LibrarianSteps) /\ {e[k] : k \in DOMAIN e} = {"mirror_wiki"}
      BY DEF Plain
    <3> HIDE DEF e
    <3>2. Steps(e) \in Seq(Writes) /\ Names(Steps(e)) = {"mirror_wiki"}
      BY <3>1, NamesOfSteps
    <3> QED BY <3>2 DEF e
  <2>4. a \in Seq(Writes) /\ Names(a) = {"wiki"}
    <3>1. a \in Seq(Writes)
      BY StagedRecordType, RecordWrites, UserIsWrites
    <3>2. Write("wiki", StagedRecord).step = "wiki"
      BY DEF Write
    <3> QED BY <3>1, <3>2 DEF Names
  <2>5. r \in Seq(Writes) /\ Names(r) = {"read_registry", "record"}
    BY StagedRecordType, NamesOfRecord
  <2>6. Leads(x, "wiki", "mirror_wiki")
    <3>1. DOMAIN x = 1 .. 2 /\ x[1] = Write("wiki", StagedRecord)
      <4>1. Len(m) = 1
        <5>1. <<"mirror_wiki">> \in Seq(Plain \cup LibrarianSteps) /\ Len(<<"mirror_wiki">>) = 1
          BY DEF Plain
        <5> QED BY <5>1, AnyStepsType
      <4>2. Len(a) = 1 /\ 1 \in DOMAIN a /\ a[1] = Write("wiki", StagedRecord)
        OBVIOUS
      <4> HIDE DEF a, m
      <4> HIDE DEF Writes
      <4>3. a \in Seq(Writes) /\ m \in Seq(Writes)
        BY <2>3, <2>4
      <4>4. /\ x \in Seq(Writes) /\ Len(x) = Len(a) + Len(m)
            /\ \A i \in DOMAIN x :
                 IF i <= Len(a) THEN i \in DOMAIN a /\ x[i] = a[i]
                 ELSE i - Len(a) \in DOMAIN m /\ x[i] = m[i - Len(a)]
        BY <4>3, Joined
      <4> HIDE DEF x
      <4> QED BY <4>1, <4>2, <4>4
    <3>2. x[1].step = "wiki"
      BY <3>1 DEF Write
    <3> HIDE DEF x
    <3>3. ASSUME NEW k \in DOMAIN x, x[k].step = "mirror_wiki"
          PROVE  \E j \in 1 .. k - 1 : x[j].step = "wiki"
      <4>1. k = 2 /\ 1 \in 1 .. k - 1
        BY <3>1, <3>2, <3>3
      <4> QED BY <3>2, <4>1
    <3> QED BY <3>3 DEF Leads
  <2> HIDE DEF a, m, r
  <2>7. x \in Seq(Writes) /\ Names(x) = Names(a) \cup Names(m)
    BY <2>3, <2>4, NamesOf
  <2> HIDE DEF x
  <2>8. y \in Seq(Writes) /\ Names(y) = Names(x) \cup Names(r) /\ Leads(y, "wiki", "mirror_wiki")
    BY <2>5, <2>6, <2>7, NamesOf
  <2> HIDE DEF y
  <2>9. /\ todo \in Seq(Writes) /\ Names(todo) = Names(y) \cup Names(Canon)
        /\ Leads(todo, "wiki", "mirror_wiki")
    BY <2>8, SaveNames, NamesOf
  <2> HIDE DEF c, todo
  <2>10. Names(todo) = {"wiki", "mirror_wiki", "read_registry", "record", "canon"}
    BY <2>3, <2>4, <2>5, <2>7, <2>8, <2>9, SaveNames
  <2>11. Early(state, files.state, store, files.knowledge) =>
           Ready(With(c, todo), state, files.state, store, files.knowledge)
    BY <1>0, <2>1, <2>2, <2>9, <2>10, Begun
  <2> QED BY <2>1, <2>2, <2>9, <2>11, BeginReady
<1>2. ASSUME refresh_wiki_evidence_command(p) PROVE MirrorInv'
  <2> DEFINE view == Known(load_task_knowledge_view)
             new(i, source) == [view EXCEPT ![i] = refresh_evidence(@, source)]
             c(i, source) == [Idle EXCEPT !.list = new(i, source)]
             names == <<"store", "mirror_store">>
             todo == Steps(names)
  <2>1. PICK i \in DOMAIN view, source \in Sources : begin(p, "refresh", todo, c(i, source))
    BY <1>2 DEF refresh_wiki_evidence_command
  <2>2. view \in Lists /\ load_state # None
    BY <1>2, KnownIsList DEF TypeInv, refresh_wiki_evidence_command
  <2>3. refresh_evidence(view[i], source) \in KnowledgeObject
    BY <2>2, ListType, RefreshedObject
  <2> HIDE DEF view
  <2>4. new(i, source) \in Lists /\ DOMAIN new(i, source) = DOMAIN view
    BY <2>2, <2>3, ReplacedIsList
  <2>5. new(i, source) # Nothing
    BY <2>4, NothingIsList
  <2> HIDE DEF new
  <2>6. /\ c(i, source) \in InFlight /\ c(i, source).list = new(i, source)
        /\ c(i, source).authority # "migration"
    BY <2>4, IdleWith, IdleSet DEF Authorities
  <2>7. /\ todo \in Seq(Writes) /\ Names(todo) = {"store", "mirror_store"}
        /\ Leads(todo, "store", "mirror_store")
    <3>1. /\ names \in Seq(Plain \cup LibrarianSteps)
          /\ {names[k] : k \in DOMAIN names} = {"store", "mirror_store"}
          /\ \A k \in DOMAIN names : names[k] = "mirror_store" =>
               \E j \in 1 .. k - 1 : names[j] = "store"
      BY DEF Plain
    <3> HIDE DEF names
    <3> QED BY <3>1, NamesOfSteps
  <2> HIDE DEF c, todo
  <2>8. Early(state, files.state, store, files.knowledge) =>
          Ready(With(c(i, source), todo), state, files.state, store, files.knowledge)
    BY <1>0, <2>2, <2>5, <2>6, <2>7, Begun
  <2> QED BY <2>1, <2>6, <2>7, <2>8, BeginReady
<1> QED BY <1>1, <1>2

LEMMA evaluate_task_canonical_reuseReady ==
  ASSUME TypeInv, MirrorInv, NEW p \in Procs, evaluate_task_canonical_reuse(p) PROVE MirrorInv'
<1> DEFINE e(j) == build_canonical_reuse_evaluation_record(j)
           a(j) == <<Write("evaluation", e(j))>>
           names == <<"summarize", "baseline">>
           m == Steps(names)
           x(j) == a(j) \o m
           todo(j) == x(j) \o Event
<1>1. PICK j \in Judgments : begin(p, "evaluate", todo(j), Idle)
  BY DEF evaluate_task_canonical_reuse
<1>2. e(j) \in Evaluated
  BY KnowledgeAssumption DEF build_canonical_reuse_evaluation_record, Evaluated,
                             resolve_canonical_reuse_citations
<1> HIDE DEF e
<1>3. a(j) \in Seq(Writes) /\ Names(a(j)) = {"evaluation"}
  <2>1. a(j) \in Seq(Writes)
    BY <1>2, EvaluationWrite, UserIsWrites
  <2>2. Write("evaluation", e(j)).step = "evaluation"
    BY DEF Write
  <2> QED BY <2>1, <2>2 DEF Names
<1>4. m \in Seq(Writes) /\ Names(m) = {"summarize", "baseline"}
  <2>1. /\ names \in Seq(Plain \cup LibrarianSteps)
        /\ {names[k] : k \in DOMAIN names} = {"summarize", "baseline"}
    BY DEF Plain
  <2> HIDE DEF names
  <2> QED BY <2>1, NamesOfSteps
<1> HIDE DEF a, m
<1>5. x(j) \in Seq(Writes) /\ Names(x(j)) = Names(a(j)) \cup Names(m)
  BY <1>3, <1>4, NamesOf
<1> HIDE DEF x
<1>6. todo(j) \in Seq(Writes) /\ Names(todo(j)) = Names(x(j)) \cup Names(Event)
  BY <1>5, SaveNames, NamesOf
<1> HIDE DEF todo
<1>7. Names(todo(j)) = {"evaluation", "summarize", "baseline", "event", "mirror_event"}
  BY <1>3, <1>4, <1>5, <1>6, SaveNames
<1>8. state # None \/ files.state # None
  BY DEF load_state, task_exists, evaluate_task_canonical_reuse
<1>9. Idle \in InFlight /\ Idle.authority # "migration"
  BY IdleType DEF Idle
<1>10. Early(state, files.state, store, files.knowledge) =>
         Ready(With(Idle, todo(j)), state, files.state, store, files.knowledge)
  BY <1>6, <1>7, <1>8, <1>9, Begun
<1> QED BY <1>1, <1>6, <1>9, <1>10, BeginReady

(* What the files hold is migrated when SQLite does not hold it.           *)
LEMMA MigrationsReady ==
  ASSUME TypeInv, MirrorInv, NEW p \in Procs,
         migrate_file_tasks_to_sqlite(p) \/ migrate_file_knowledge_to_sqlite(p)
  PROVE  MirrorInv'
<1>1. ASSUME migrate_file_tasks_to_sqlite(p) PROVE MirrorInv'
  <2> DEFINE copies == [e \in 1 .. events.file |-> "copy_event"]
             names == <<"state">> \o copies
             todo == Steps(names)
             c == [Idle EXCEPT !.list = files.state, !.authority = "migration"]
             d == With(c, todo)
  <2>1. begin(p, "migrate", todo, c) /\ state = None /\ files.state # None
    BY <1>1 DEF migrate_file_tasks_to_sqlite, task_exists
  <2>2. c \in InFlight /\ c.list = files.state
    <3>1. files.state \in Lists
      BY <1>1 DEF TypeInv, StoresTyped, Files, migrate_file_tasks_to_sqlite
    <3> QED BY <3>1, IdleWith, IdleSet DEF Authorities
  <2>3. /\ names \in Seq(Plain \cup LibrarianSteps) /\ names # <<>> /\ Head(names) = "state"
        /\ \A k \in DOMAIN names : names[k] = IF k = 1 THEN "state" ELSE "copy_event"
    <3>1. events.file \in Nat
      BY DEF TypeInv, StoresTyped
    <3>2. copies \in Seq(Plain \cup LibrarianSteps) /\ \A k \in DOMAIN copies : copies[k] = "copy_event"
      BY <3>1 DEF Plain
    <3>3. <<"state">> \in Seq(Plain \cup LibrarianSteps)
      BY DEF Plain
    <3> HIDE DEF copies
    <3>4. Len(<<"state">>) = 1 /\ <<"state">>[1] = "state" /\ <<"state">> # <<>> /\ Head(<<"state">>) = "state"
      OBVIOUS
    <3> QED BY <3>2, <3>3, <3>4, Joined
  <2> HIDE DEF names
  <2>4. /\ todo \in Seq(Writes) /\ Names(todo) \subseteq {"state", "copy_event"}
        /\ Head(todo).step = "state"
    BY <2>3, NamesOfSteps
  <2>5. \A k \in DOMAIN todo : todo[k].step = IF k = 1 THEN "state" ELSE "copy_event"
    BY <2>3, AnyStepsType
  <2> HIDE DEF c, todo
  <2>6. d.todo = todo /\ d.list = files.state
    BY <2>2 DEF InFlight, With
  <2> HIDE DEF d
  <2>7. MirrorReady(d, state, store, files.knowledge)
    BY <2>4, <2>6 DEF MirrorReady
  <2>8. MigrationReady(d, state, files.state, store, files.knowledge)
    BY <2>1, <2>4, <2>5, <2>6 DEF MigrationReady
  <2>9. Ready(d, state, files.state, store, files.knowledge)
    BY <2>1, <2>7, <2>8 DEF Ready
  <2> QED BY <2>1, <2>2, <2>4, <2>9, BeginReady DEF d
<1>2. ASSUME migrate_file_knowledge_to_sqlite(p) PROVE MirrorInv'
  <2> DEFINE names == <<"store">>
             todo == Steps(names)
             c == [Idle EXCEPT !.list = files.knowledge, !.authority = "migration"]
             d == With(c, todo)
  <2>1. begin(p, "migrate", todo, c) /\ store = Nothing /\ files.knowledge # Nothing
    BY <1>2 DEF migrate_file_knowledge_to_sqlite, task_has_knowledge
  <2>2. c \in InFlight /\ c.list = files.knowledge
    <3>1. files.knowledge \in Lists
      BY DEF TypeInv, StoresTyped, Files
    <3> QED BY <3>1, IdleWith, IdleSet DEF Authorities
  <2>3. /\ names \in Seq(Plain \cup LibrarianSteps) /\ names # <<>> /\ Head(names) = "store"
        /\ \A k \in DOMAIN names : k = 1 /\ names[k] = "store"
    BY DEF Plain
  <2> HIDE DEF names
  <2>4. /\ todo \in Seq(Writes) /\ Names(todo) \subseteq {"store"} /\ Head(todo).step = "store"
    BY <2>3, NamesOfSteps
  <2>5. \A k \in DOMAIN todo : k = 1 /\ todo[k].step = "store"
    BY <2>3, AnyStepsType
  <2> HIDE DEF c, todo
  <2>6. d.todo = todo /\ d.list = files.knowledge
    BY <2>2 DEF InFlight, With
  <2> HIDE DEF d
  <2>7. MirrorReady(d, state, store, files.knowledge)
    BY <2>4, <2>6 DEF MirrorReady
  <2>8. MigrationReady(d, state, files.state, store, files.knowledge)
    BY <2>1, <2>4, <2>5, <2>6 DEF MigrationReady
  <2>9. Early(state, files.state, store, files.knowledge) =>
          Ready(d, state, files.state, store, files.knowledge)
    BY <2>1, <2>7, <2>8 DEF Ready, Early
  <2> QED BY <2>1, <2>2, <2>4, <2>9, BeginReady DEF d
<1> QED BY <1>1, <1>2

(* A command that ends or is cut off.                                      *)
LEMMA EndReady ==
  ASSUME TypeInv, AloneInv, MirrorInv, Steady, NEW p \in Procs, busy(p),
         cmd' = [cmd EXCEPT ![p] = Idle],
         UNCHANGED <<state, store, files>> \/ state' # None
  PROVE  MirrorInv'
<1>1. Early(state', files'.state, store', files'.knowledge)
  BY DEF MirrorInv, Early
<1> QED BY <1>1, IdleType, StepReady

(* A write that is not of the state, the entries or their mirrors.         *)
LEMMA QuietReady ==
  ASSUME TypeInv, AloneInv, MirrorInv, Steady, NEW p \in Procs, busy(p),
         NEW c \in InFlight, c.todo = cmd[p].todo, c.authority = cmd[p].authority,
         c.list = cmd[p].list, proceed(p, c),
         \A n \in {"state", "store", "wiki", "mirror_store"} : ~next(p, n),
         UNCHANGED <<state, store>>, files'.state = files.state,
         files'.knowledge = files.knowledge
  PROVE  MirrorInv'
<1>1. PICK n : n = Head(cmd[p].todo).step
  OBVIOUS
<1>2. n \notin {"state", "store", "wiki", "mirror_store"}
  BY <1>1 DEF next
<1> QED BY <1>1, <1>2, WriteReady

LEMMA SameFiles ==
  ASSUME TypeInv, NEW v, files' = [files EXCEPT !.derived = v] \/ files' = [files EXCEPT !.canon = v]
  PROVE  files'.state = files.state /\ files'.knowledge = files.knowledge
  BY DEF TypeInv, StoresTyped, Files

LEMMA QuietStepReady ==
  ASSUME TypeInv, AloneInv, MirrorInv, Steady, NEW p \in Procs,
         \/ save_knowledge_index(p) \/ append_knowledge_decision(p)
         \/ _refresh_canonical_derivatives(p) \/ append_canonical_reuse_evaluation(p)
         \/ save_canonical_reuse_regression(p) \/ append_event(p) \/ mirror_event(p)
  PROVE  MirrorInv'
<1>0. cmd[p] \in InFlight /\ busy(p) /\ done(p) /\ UNCHANGED <<state, store>>
  BY StepIsBusy DEF Step, TypeInv, save_knowledge_index, append_knowledge_decision,
     _refresh_canonical_derivatives, append_canonical_reuse_evaluation,
     save_canonical_reuse_regression, append_event, mirror_event
<1>1. \A n \in {"state", "store", "wiki", "mirror_store"} : ~next(p, n)
  BY DEF save_knowledge_index, append_knowledge_decision, _refresh_canonical_derivatives,
     append_canonical_reuse_evaluation, save_canonical_reuse_regression, append_event,
     mirror_event, next
<1>2. files'.state = files.state /\ files'.knowledge = files.knowledge
  <2>1. \/ UNCHANGED files
        \/ \E v : files' = [files EXCEPT !.derived = v] \/ files' = [files EXCEPT !.canon = v]
    BY DEF save_knowledge_index, append_knowledge_decision, _refresh_canonical_derivatives,
       append_canonical_reuse_evaluation, save_canonical_reuse_regression, append_event,
       mirror_event
  <2> QED BY <2>1, SameFiles
<1> QED BY <1>0, <1>1, <1>2, QuietReady DEF done

LEMMA LocalStepReady ==
  ASSUME TypeInv, AloneInv, MirrorInv, Steady, NEW p \in Procs,
         register_canonical_proposal(p) \/ write_registry(p) \/ summarize(p)
  PROVE  MirrorInv'
<1>0. cmd[p] \in InFlight /\ busy(p)
  BY StepIsBusy DEF Step, TypeInv
<1>1. \A n \in {"state", "store", "wiki", "mirror_store"} : ~next(p, n)
  BY DEF register_canonical_proposal, write_registry, summarize, next
<1>2. UNCHANGED <<state, store, files>>
  BY DEF register_canonical_proposal, write_registry, summarize, stores
<1>3. CASE cmd' = [cmd EXCEPT ![p] = Idle]
  BY <1>0, <1>2, <1>3, EndReady
<1>4. ASSUME NEW seen \in Registries, NEW registered \in SUBSET Nat, NEW said \in Summaries \cup {None},
             proceed(p, [cmd[p] EXCEPT !.seen = seen, !.registered = registered, !.said = said])
      PROVE  MirrorInv'
  <2> DEFINE c == [cmd[p] EXCEPT !.seen = seen, !.registered = registered, !.said = said]
  <2>1. /\ c \in InFlight /\ c.todo = cmd[p].todo /\ c.authority = cmd[p].authority
        /\ c.list = cmd[p].list
    BY <1>0 DEF InFlight
  <2>2. proceed(p, c)
    BY <1>4
  <2> HIDE DEF c
  <2> QED BY <1>0, <1>1, <1>2, <2>1, <2>2, QuietReady
<1>5. cmd[p].seen \in Registries /\ cmd[p].registered \in SUBSET Nat
      /\ cmd[p].said \in Summaries \cup {None} /\ registry \in Registries
  BY <1>0 DEF InFlight, TypeInv, StoresTyped
<1>6. ASSUME register_canonical_proposal(p) PROVE MirrorInv'
  <2> DEFINE id == written(p).id
  <2>1. CASE id \in cmd[p].registered
    BY <1>3, <1>6, <2>1 DEF register_canonical_proposal, fail
  <2>2. CASE id \notin cmd[p].registered
    <3>1. written(p) \in Records
      BY <1>0, <1>6, WrittenType DEF register_canonical_proposal, RecordSteps
    <3>2. id \in Nat
      BY <3>1 DEF Records
    <3>3. proceed(p, [cmd[p] EXCEPT !.seen = registry, !.registered = cmd[p].registered \cup {id}])
      BY <1>6, <2>2 DEF register_canonical_proposal
    <3> DEFINE old == cmd[p]  said == cmd[p].said  registered == cmd[p].registered \cup {id}
    <3>4. [old EXCEPT !.seen = registry, !.registered = registered]
            = [old EXCEPT !.seen = registry, !.registered = registered, !.said = said]
      BY <1>0 DEF InFlight
    <3>5. registered \in SUBSET Nat
      BY <1>5, <3>2
    <3> QED BY <1>4, <1>5, <3>3, <3>4, <3>5
  <2> QED BY <2>1, <2>2
<1>7. ASSUME write_registry(p) PROVE MirrorInv'
  <2> DEFINE old == cmd[p]  said == cmd[p].said  registered == cmd[p].registered
  <2>1. [old EXCEPT !.seen = Nothing]
          = [old EXCEPT !.seen = Nothing, !.registered = registered, !.said = said]
    BY <1>0 DEF InFlight
  <2> QED BY <1>4, <1>5, <1>7, <2>1, NothingIsList DEF write_registry
<1>8. ASSUME summarize(p) PROVE MirrorInv'
  <2> DEFINE old == cmd[p]  seen == cmd[p].seen  registered == cmd[p].registered
             said == build_canonical_reuse_evaluation_summary(evaluation.records)
  <2>1. said \in Summaries
    BY SummaryType DEF TypeInv, StoresTyped
  <2>2. proceed(p, [old EXCEPT !.said = said])
    BY <1>8 DEF summarize
  <2> HIDE DEF said
  <2>3. [old EXCEPT !.said = said]
          = [old EXCEPT !.seen = seen, !.registered = registered, !.said = said]
    BY <1>0 DEF InFlight
  <2> QED BY <1>4, <1>5, <2>1, <2>2, <2>3
<1> QED BY <1>6, <1>7, <1>8

(* The writes of the state, the entries and their mirrors.                 *)
LEMMA StateStepReady ==
  ASSUME None \notin Lists, TypeInv, AloneInv, MirrorInv, Steady, NEW p \in Procs,
         write_state(p) \/ mirror_state(p) \/ replace_task_knowledge(p) \/ mirror_store(p)
  PROVE  MirrorInv'
<1>0. cmd[p] \in InFlight /\ busy(p)
  BY StepIsBusy DEF Step, TypeInv
<1>1. cmd[p].list \in Lists /\ cmd[p].list # None
  BY <1>0 DEF InFlight
<1>2. files \in Files
  BY DEF TypeInv, StoresTyped
<1> DEFINE list == cmd[p].list
<1>3. ASSUME write_state(p) PROVE MirrorInv'
  <2>1. next(p, "state") /\ state' = list /\ done(p) /\ UNCHANGED <<store, files>>
    BY <1>3 DEF write_state
  <2>2. Head(cmd[p].todo).step = "state"
    BY <2>1 DEF next
  <2> QED BY <1>0, <1>1, <2>1, <2>2, WriteReady DEF done
<1>4. ASSUME mirror_state(p) PROVE MirrorInv'
  <2>1. /\ next(p, "mirror_state") /\ files' = [files EXCEPT !.state = list] /\ done(p)
        /\ UNCHANGED <<state, store>>
    BY <1>4 DEF mirror_state
  <2>2. Head(cmd[p].todo).step = "mirror_state"
    BY <2>1 DEF next
  <2>3. files'.state = list /\ files'.knowledge = files.knowledge
    BY <1>2, <2>1 DEF Files
  <2> QED BY <1>0, <1>1, <2>1, <2>2, <2>3, WriteReady DEF done
<1>5. ASSUME replace_task_knowledge(p) PROVE MirrorInv'
  <2>1. next(p, "store") /\ UNCHANGED <<state, files>>
    BY <1>5 DEF replace_task_knowledge
  <2>2. CASE fail(p) /\ UNCHANGED store
    BY <1>0, <2>1, <2>2, EndReady DEF fail
  <2>3. CASE store' = list /\ done(p)
    <3>1. Head(cmd[p].todo).step = "store"
      BY <2>1 DEF next
    <3> QED BY <1>0, <2>1, <2>3, <3>1, WriteReady DEF done
  <2> QED BY <1>5, <2>2, <2>3 DEF replace_task_knowledge
<1>6. ASSUME mirror_store(p) PROVE MirrorInv'
  <2>1. /\ next(p, "mirror_store") \/ next(p, "mirror_wiki")
        /\ files' = [files EXCEPT !.knowledge = list] /\ done(p) /\ UNCHANGED <<state, store>>
    BY <1>6 DEF mirror_store
  <2>2. PICK n : n = Head(cmd[p].todo).step
    OBVIOUS
  <2>3. n \in {"mirror_store", "mirror_wiki"}
    BY <2>1, <2>2 DEF next
  <2>4. files'.state = files.state /\ files'.knowledge = list
    BY <1>2, <2>1 DEF Files
  <2> QED BY <1>0, <2>1, <2>2, <2>3, <2>4, WriteReady DEF done
<1> QED BY <1>3, <1>4, <1>5, <1>6

LEMMA persist_wiki_entry_from_recordReady ==
  ASSUME TypeInv, AloneInv, MirrorInv, Steady, NEW p \in Procs,
         persist_wiki_entry_from_record(p)
  PROVE  MirrorInv'
<1> DEFINE id == written(p).id
           entry == build_wiki_entry_from_canonical_record(written(p))
           view == _merge_task_knowledge_views(load_task_knowledge_view, id, entry)
           mirrored == Head(Tail(cmd[p].todo)).step = "mirror_wiki"
           list == IF mirrored THEN view ELSE cmd[p].list
           c == [cmd[p] EXCEPT !.list = list]
<1>1. /\ next(p, "wiki") /\ store' = view /\ proceed(p, [cmd[p] EXCEPT !.list = list])
      /\ UNCHANGED <<state, files>>
  BY DEF persist_wiki_entry_from_record
<1>2. cmd[p] \in InFlight /\ busy(p) /\ Head(cmd[p].todo).step = "wiki"
  BY <1>1 DEF TypeInv, next
<1>3. written(p) \in Records
  BY <1>1, <1>2, WrittenType DEF RecordSteps
<1>4. id \in Nat
  BY <1>3 DEF Records
<1>5. id \in DOMAIN view
  BY DEF _merge_task_knowledge_views
<1>6. view \in Lists
  BY <1>3, <1>4, WikiEntryType, ViewIsList, MergedIsList DEF TypeInv
<1> HIDE DEF view
<1>7. view # Nothing
  BY <1>5, NothingIsList
<1>8. list \in Lists
  BY <1>2, <1>6 DEF InFlight
<1> HIDE DEF list
<1>9. c \in InFlight /\ c.todo = cmd[p].todo /\ c.authority = cmd[p].authority
  BY <1>2, <1>8 DEF InFlight
<1>10. proceed(p, c)
  BY <1>1
<1> HIDE DEF c
<1> QED BY <1>1, <1>2, <1>7, <1>9, <1>10, WriteReady

(* The librarian's rounds: a run has saved the state before.               *)
LEMMA RunnerSaved ==
  ASSUME TypeInv, NEW p \in Procs, NEW n \in LibrarianSteps, next(p, n)
  PROVE  state \in Lists /\ load_state \in Lists
<1>1. cmd[p].todo \in Seq(Writes) /\ cmd[p].todo # <<>> /\ Head(cmd[p].todo).step = n
  BY DEF TypeInv, InFlight, next, busy
<1>2. 1 \in DOMAIN cmd[p].todo /\ cmd[p].todo[1].step = n
  BY <1>1
<1>3. RunnerKnows(cmd[p], state, load_state)
  BY DEF TypeInv
<1>4. n # "state"
  BY DEF LibrarianSteps, Swapped
<1> QED BY <1>1, <1>2, <1>3, <1>4 DEF RunnerKnows

LEMMA ExecuteBatch ==
  ASSUME TypeInv, NEW p \in Procs, execute(p)
  PROVE  /\ Known(load_task_knowledge_view) \in Lists
         /\ LibrarianAgent(Known(load_task_knowledge_view), cmd[p].wanted, registry)
              \in Batches(Known(load_task_knowledge_view), registry)
<1>1. load_state \in Lists
  BY RunnerSaved DEF execute, LibrarianSteps
<1>2. Known(load_task_knowledge_view) \in Lists
  BY <1>1, ViewIsList DEF TypeInv, Known
<1> QED BY <1>2, LibrarianBatch DEF TypeInv, StoresTyped

LEMMA RunnerReady ==
  ASSUME None \notin Lists, TypeInv, AloneInv, MirrorInv, Steady, NEW p \in Procs,
         NEW n \in LibrarianSteps, next(p, n), UNCHANGED stores,
         NEW c, cmd' = [cmd EXCEPT ![p] = c], c.authority = cmd[p].authority,
         Names(c.todo) \cap {"mirror_store", "mirror_wiki"} = {}
  PROVE  MirrorInv'
<1>1. state # None /\ state' = state
  BY RunnerSaved DEF stores
<1>2. Early(state', files'.state, store', files'.knowledge)
  BY <1>1 DEF Early
<1>3. c.authority # "migration"
  <2>1. cmd[p].todo \in Seq(Writes) /\ busy(p) /\ cmd[p].todo # <<>> /\ Head(cmd[p].todo).step = n
    BY DEF TypeInv, InFlight, next, busy
  <2>2. MigrationReady(cmd[p], state, files.state, store, files.knowledge)
    BY <2>1 DEF MirrorInv, Ready
  <2>3. 1 \in DOMAIN cmd[p].todo /\ cmd[p].todo[1].step \notin {"state", "store", "copy_event"}
    BY <2>1 DEF LibrarianSteps, Swapped
  <2> QED BY <2>2, <2>3 DEF MigrationReady
<1>4. MirrorReady(c, state', store', files'.knowledge)
  BY <1>1 DEF MirrorReady
<1>5. MigrationReady(c, state', files'.state, store', files'.knowledge)
  BY <1>3 DEF MigrationReady
<1>6. Ready(c, state', files'.state, store', files'.knowledge)
  BY <1>1, <1>4, <1>5 DEF Ready
<1>7. busy(p)
  BY DEF next
<1> QED BY <1>2, <1>6, <1>7, StepReady

LEMMA RoundReady ==
  ASSUME None \notin Lists, TypeInv, AloneInv, MirrorInv, Steady, NEW p \in Procs,
         execute(p) \/ build_knowledge_store_write_plan(p) \/ run_review_gate(p)
  PROVE  MirrorInv'
<1>0. cmd[p] \in InFlight
  BY DEF TypeInv
<1>1. ASSUME execute(p) PROVE MirrorInv'
  <2> DEFINE batch == LibrarianAgent(Known(load_task_knowledge_view), cmd[p].wanted, registry)
             todo == _apply_librarian_side_effects(batch.records)
             c == [cmd[p] EXCEPT !.list = batch.list, !.round = @ + 1, !.todo = todo]
  <2>1. next(p, "execute") /\ cmd' = [cmd EXCEPT ![p] = c] /\ UNCHANGED stores
    BY <1>1 DEF execute
  <2>2. batch.records \in Seq(Records)
    BY <1>1, ExecuteBatch DEF Batches, Batch
  <2> HIDE DEF batch
  <2>3. \A i \in DOMAIN todo : todo[i].step \in RecordSteps \cup {"decision", "plan"}
    BY <2>2, SideEffectWrites
  <2> HIDE DEF todo
  <2>4. c.authority = cmd[p].authority /\ c.todo = todo
    BY <1>0 DEF InFlight
  <2> HIDE DEF c
  <2>5. Names(c.todo) \cap {"mirror_store", "mirror_wiki"} = {}
    BY <2>3, <2>4 DEF Names, RecordSteps
  <2> QED BY <2>1, <2>4, <2>5, RunnerReady DEF LibrarianSteps
<1>2. ASSUME build_knowledge_store_write_plan(p) PROVE MirrorInv'
  <2> DEFINE planned == [knowledge |-> cmd[p].list, state |-> cmd[p].list,
                         derived |-> Derived(cmd[p].list), canon |-> Active(registry)]
             names == Swaps \o <<"store", "review">>
             todo == Steps(names)
             c == [cmd[p] EXCEPT !.original = files, !.planned = planned, !.todo = todo]
  <2>1. next(p, "plan") /\ cmd' = [cmd EXCEPT ![p] = c] /\ UNCHANGED stores
    BY <1>2 DEF build_knowledge_store_write_plan
  <2>2. Names(todo) \cap {"mirror_store", "mirror_wiki"} = {}
    <3> DEFINE P == (Plain \cup LibrarianSteps) \ {"mirror_store", "mirror_wiki"}
    <3>1. Swaps \in Seq(P) /\ <<"store", "review">> \in Seq(P)
      BY DEF Swaps, LibrarianSteps, Swapped, Plain
    <3> HIDE DEF P
    <3>2. names \in Seq(P)
      BY <3>1
    <3> HIDE DEF names
    <3>3. \A k \in DOMAIN names : names[k] \notin {"mirror_store", "mirror_wiki"}
      BY <3>2 DEF P
    <3>4. names \in Seq(Plain \cup LibrarianSteps)
      BY <3>2 DEF P
    <3> QED BY <3>3, <3>4, NamesOfSteps
  <2> HIDE DEF planned, todo
  <2>3. c.authority = cmd[p].authority /\ c.todo = todo
    BY <1>0 DEF InFlight
  <2> HIDE DEF c
  <2> QED BY <2>1, <2>2, <2>3, RunnerReady DEF LibrarianSteps
<1>3. ASSUME run_review_gate(p) PROVE MirrorInv'
  <2>1. PICK todo \in {Steps(<<"execute">>), SaveState \o Event} :
          cmd' = [cmd EXCEPT ![p] = [@ EXCEPT !.todo = todo, !.planned = None, !.original = None]]
    BY <1>3 DEF run_review_gate
  <2> DEFINE c == [cmd[p] EXCEPT !.todo = todo, !.planned = None, !.original = None]
             u == Steps(<<"execute">>)
  <2>2. Names(u) \cap {"mirror_store", "mirror_wiki"} = {}
    <3>1. u \in Seq(Writes) /\ Len(u) = 1 /\ u[1].step = "execute"
      BY RunWrites
    <3> HIDE DEF u, Writes
    <3> QED BY <3>1 DEF Names
  <2>3. Names(SaveState \o Event) \cap {"mirror_store", "mirror_wiki"} = {}
    <3>1. Names(SaveState \o Event) = Names(SaveState) \cup Names(Event)
      BY SaveNames, NamesOf
    <3> QED BY <3>1, SaveNames
  <2>4. Names(todo) \cap {"mirror_store", "mirror_wiki"} = {}
    BY <2>1, <2>2, <2>3
  <2>5. c.authority = cmd[p].authority /\ c.todo = todo
    BY <1>0 DEF InFlight
  <2>6. next(p, "review") /\ cmd' = [cmd EXCEPT ![p] = c] /\ UNCHANGED stores
    BY <1>3, <2>1 DEF run_review_gate
  <2> HIDE DEF c
  <2> QED BY <2>4, <2>5, <2>6, RunnerReady DEF LibrarianSteps
<1> QED BY <1>1, <1>2, <1>3

LEMMA SwapReady ==
  ASSUME None \notin Lists, TypeInv, AloneInv, MirrorInv, Steady, NEW p \in Procs,
         apply_atomic_text_updates(p) \/ RollBack(p)
  PROVE  MirrorInv'
<1>0. cmd[p] \in InFlight
  BY DEF TypeInv
<1>1. PICK swap \in DOMAIN FileOf : next(p, swap)
  BY DEF apply_atomic_text_updates, RollBack
<1>2. state # None /\ busy(p)
  BY <1>1, SwapIsPlanned DEF next
<1>3. ASSUME RollBack(p) PROVE MirrorInv'
  BY <1>2, <1>3, EndReady DEF RollBack, fail
<1>4. ASSUME apply_atomic_text_updates(p) PROVE MirrorInv'
  <2>1. PICK named \in DOMAIN FileOf :
          /\ next(p, named) /\ done(p) /\ UNCHANGED <<state, store>>
          /\ files' = [files EXCEPT ![FileOf[named]] = cmd[p].planned[FileOf[named]]]
    BY <1>4 DEF apply_atomic_text_updates
  <2>2. named \in Swapped /\ Head(cmd[p].todo).step = named
    BY <2>1 DEF FileOf, Swapped, next
  <2>3. named # "swap_knowledge" => files'.knowledge = files.knowledge
    <3>1. named # "swap_knowledge" => FileOf[named] \in {"state", "derived", "canon"}
      BY DEF FileOf
    <3>2. files \in Files
      BY DEF TypeInv, StoresTyped
    <3> QED BY <2>1, <3>1, <3>2 DEF Files
  <2>4. named \notin {"state", "store", "wiki", "mirror_store", "mirror_wiki"}
    BY <2>2 DEF Swapped
  <2> QED BY <1>0, <1>2, <2>1, <2>2, <2>3, <2>4, WriteReady DEF done
<1> QED BY <1>3, <1>4

LEMMA InitReady == ASSUME None \notin Lists, Init, TypeInv PROVE MirrorInv
<1>1. \A p \in Procs : ~busy(p)
  BY IdleType DEF Init, busy
<1>2. files.state # None \/ files.knowledge = Nothing
  <2>1. CASE files = [state |-> None, knowledge |-> Nothing, derived |-> Derived(Nothing), canon |-> {}]
    BY <2>1
  <2> DEFINE list == build_knowledge_objects(LegacyRequest, 1)
  <2>2. CASE files = [state |-> list, knowledge |-> list, derived |-> Derived(list), canon |-> {}]
    <3>1. list \in Lists
      BY KnowledgeAssumption, BuiltIsList
    <3> HIDE DEF list
    <3>2. files.state = list
      BY <2>2
    <3> QED BY <3>1, <3>2
  <2> QED BY <2>1, <2>2 DEF Init
<1> QED BY <1>1, <1>2 DEF MirrorInv, Early, Init

LEMMA NextReady ==
  ASSUME None \notin Lists, NonEmptyCaptures, TypeInv, AloneInv, MirrorInv, [Next]_vars
  PROVE  MirrorInv'
<1>1. CASE UNCHANGED vars
  BY <1>1 DEF vars, MirrorInv, Steady, busy
<1>2. ASSUME NEW p \in Procs, Command(p)
      PROVE  MirrorInv'
  BY <1>2, create_taskReady, append_task_knowledge_captureReady, decide_task_knowledgeReady,
     StateOnlyReady, StoreOnlyReady, evaluate_task_canonical_reuseReady, MigrationsReady DEF Command
<1>3. ASSUME NEW p \in Procs, Step(p) \/ Crash(p), Steady
      PROVE  MirrorInv'
  <2>1. busy(p)
    BY <1>3, StepIsBusy
  <2>2. ASSUME Crash(p) PROVE MirrorInv'
    BY <1>3, <2>1, <2>2, EndReady DEF Crash, stores
  <2>3. ASSUME Step(p) PROVE MirrorInv'
    BY <1>3, <2>3, QuietStepReady, LocalStepReady, StateStepReady,
       persist_wiki_entry_from_recordReady, RoundReady, SwapReady DEF Step
  <2> QED BY <1>3, <2>2, <2>3
<1>4. ASSUME NEW p \in Procs, Step(p) \/ Crash(p), ~Steady
      PROVE  MirrorInv'
  <2>1. ~Steady'
    BY <1>4, SteadyBefore DEF Next
  <2> QED BY <2>1 DEF MirrorInv
<1> QED BY <1>1, <1>2, <1>3, <1>4 DEF Next

(* A step of a command does what the next item of its list names. *)
LEMMA StepNamed ==
  ASSUME NEW p \in Procs, Step(p)
  PROVE  /\ next(p, "mirror_state") => mirror_state(p)
         /\ next(p, "mirror_store") \/ next(p, "mirror_wiki") => mirror_store(p)
         /\ next(p, "state") => write_state(p)
         /\ next(p, "store") => replace_task_knowledge(p)
         /\ next(p, "copy_event") => append_event(p)
<1> DEFINE n == Head(cmd[p].todo).step
           five == {"mirror_state", "mirror_store", "mirror_wiki", "state", "store", "copy_event"}
<1>1. \A m : next(p, m) => n = m
  BY DEF next
<1> HIDE DEF n
<1>2. ASSUME \/ save_knowledge_index(p) \/ append_knowledge_decision(p)
             \/ register_canonical_proposal(p) \/ write_registry(p)
             \/ persist_wiki_entry_from_record(p) \/ _refresh_canonical_derivatives(p)
             \/ append_canonical_reuse_evaluation(p) \/ summarize(p)
             \/ save_canonical_reuse_regression(p)
      PROVE  n \notin five
  <2>1. \E m \in {"derived", "decision", "read_registry", "record", "wiki", "canon", "evaluation",
                  "summarize", "baseline"} : next(p, m)
    BY <1>2, Zenon DEF save_knowledge_index, append_knowledge_decision, register_canonical_proposal,
       write_registry, persist_wiki_entry_from_record, _refresh_canonical_derivatives,
       append_canonical_reuse_evaluation, summarize, save_canonical_reuse_regression
  <2> QED BY <1>1, <2>1
<1>3. ASSUME \/ mirror_event(p) \/ execute(p) \/ build_knowledge_store_write_plan(p)
             \/ apply_atomic_text_updates(p) \/ RollBack(p) \/ run_review_gate(p)
      PROVE  n \notin five
  <2>1. \E m \in {"mirror_event", "execute", "plan", "review"} \cup DOMAIN FileOf : next(p, m)
    BY <1>3 DEF mirror_event, execute, build_knowledge_store_write_plan,
       apply_atomic_text_updates, RollBack, run_review_gate
  <2> QED BY <1>1, <2>1 DEF FileOf
<1>4. (write_state(p) => n = "state") /\ (mirror_state(p) => n = "mirror_state")
  BY <1>1 DEF write_state, mirror_state
<1>5. replace_task_knowledge(p) => n = "store"
  BY <1>1 DEF replace_task_knowledge
<1>6. mirror_store(p) => n \in {"mirror_store", "mirror_wiki"}
  BY <1>1 DEF mirror_store
<1>7. append_event(p) => n \in {"event", "copy_event"}
  BY <1>1 DEF append_event
<1>8. \/ write_state(p) \/ mirror_state(p) \/ replace_task_knowledge(p)
      \/ mirror_store(p) \/ append_event(p) \/ n \notin five
  BY <1>2, <1>3 DEF Step
<1> QED BY <1>1, <1>4, <1>5, <1>6, <1>7, <1>8

(* What the program loads depends on the four places below only. *)
LEMMA SameView ==
  ASSUME state' = state, store' = store,
         state # None \/ files'.state = files.state,
         store # Nothing \/ files'.knowledge = files.knowledge
  PROVE  load_state' = load_state /\ load_task_knowledge_view' = load_task_knowledge_view
BY DEF load_state, load_task_knowledge_view, task_exists, task_has_knowledge

LEMMA MirrorStep ==
  ASSUME TypeInv, MirrorInv, Steady, NEW p \in Procs, Step(p),
         next(p, "mirror_state") \/ next(p, "mirror_store") \/ next(p, "mirror_wiki")
  PROVE  load_state' = load_state /\ load_task_knowledge_view' = load_task_knowledge_view
<1> DEFINE c == cmd[p]
<1>1. busy(p) /\ c.todo \in Seq(Writes) /\ c.todo # <<>> /\ files \in Files
  BY DEF next, busy, TypeInv, InFlight, StoresTyped
<1>2. MirrorReady(c, state, store, files.knowledge)
  BY <1>1 DEF MirrorInv, Ready
<1>3. /\ Head(c.todo).step \in Names(c.todo)
      /\ \A a, b : Leads(c.todo, a, b) => Head(c.todo).step # b
  BY <1>1, NamesOfTail
<1>4. CASE next(p, "mirror_state")
  <2>1. Head(c.todo).step = "mirror_state"
    BY <1>4 DEF next
  <2>2. state # None
    BY <1>2, <1>3, <2>1 DEF MirrorReady
  <2>3. UNCHANGED <<state, store>> /\ files' = [files EXCEPT !.state = cmd[p].list]
    BY <1>4, StepNamed DEF mirror_state
  <2>4. files'.knowledge = files.knowledge
    BY <1>1, <2>3 DEF Files
  <2> QED BY <2>2, <2>3, <2>4, SameView
<1>5. CASE next(p, "mirror_store") \/ next(p, "mirror_wiki")
  <2>1. Head(c.todo).step \in {"mirror_store", "mirror_wiki"}
    BY <1>5 DEF next
  <2>2. UNCHANGED <<state, store>> /\ files' = [files EXCEPT !.knowledge = cmd[p].list]
    BY <1>5, StepNamed DEF mirror_store
  <2>3. files'.state = files.state /\ files'.knowledge = cmd[p].list
    BY <1>1, <2>2 DEF Files
  <2>4. store # Nothing \/ files'.knowledge = files.knowledge
    BY <1>2, <1>3, <2>1, <2>3 DEF MirrorReady
  <2> QED BY <2>2, <2>3, <2>4, SameView
<1> QED BY <1>4, <1>5

LEMMA MigrationStep ==
  ASSUME TypeInv, MirrorInv, Steady, NEW p \in Procs, Step(p), cmd[p].authority = "migration"
  PROVE  load_state' = load_state /\ load_task_knowledge_view' = load_task_knowledge_view
<1> DEFINE c == cmd[p]
<1>1. busy(p) /\ c.todo \in Seq(Writes) /\ c.todo # <<>>
  BY StepIsBusy DEF busy, TypeInv, InFlight
<1>2. MigrationReady(c, state, files.state, store, files.knowledge)
  BY <1>1 DEF MirrorInv, Ready
<1>3. 1 \in DOMAIN c.todo /\ Head(c.todo) = c.todo[1]
  BY <1>1
<1>4. Head(c.todo).step \in {"state", "store", "copy_event"}
  BY <1>2, <1>3 DEF MigrationReady
<1>5. CASE Head(c.todo).step = "state"
  <2>1. state = None /\ c.list = files.state
    BY <1>2, <1>5 DEF MigrationReady
  <2>2. write_state(p)
    BY <1>1, <1>5, StepNamed DEF next
  <2>3. state' = files.state /\ UNCHANGED <<store, files>>
    BY <2>1, <2>2 DEF write_state
  <2> QED BY <2>1, <2>3 DEF load_state, load_task_knowledge_view, task_exists, task_has_knowledge
<1>6. CASE Head(c.todo).step = "store"
  <2>1. store = Nothing /\ c.list = files.knowledge
    BY <1>2, <1>6 DEF MigrationReady
  <2>2. replace_task_knowledge(p)
    BY <1>1, <1>6, StepNamed DEF next
  <2>3. store' = files.knowledge /\ UNCHANGED <<state, files>>
    BY <2>1, <2>2 DEF replace_task_knowledge, is_canonical_knowledge_write_authorized
  <2> QED BY <2>1, <2>3 DEF load_state, load_task_knowledge_view, task_exists, task_has_knowledge
<1>7. CASE Head(c.todo).step = "copy_event"
  <2>1. append_event(p)
    BY <1>1, <1>7, StepNamed DEF next
  <2>2. UNCHANGED <<state, store, files>>
    BY <2>1 DEF append_event
  <2> QED BY <2>2, SameView
<1> QED BY <1>4, <1>5, <1>6, <1>7

Secondary(p) ==
  /\ "overlap" \notin trouble
  /\ \/ next(p, "mirror_state") \/ next(p, "mirror_store") \/ next(p, "mirror_wiki")
     \/ busy(p) /\ cmd[p].authority = "migration"
  => load_state' = load_state /\ load_task_knowledge_view' = load_task_knowledge_view

LEMMA NextSecondary ==
  ASSUME TypeInv, AloneInv, MirrorInv, [Next]_vars
  PROVE  \A p \in Procs : Secondary(p)
<1> SUFFICES ASSUME NEW p \in Procs, Steady,
                    \/ next(p, "mirror_state") \/ next(p, "mirror_store") \/ next(p, "mirror_wiki")
                    \/ busy(p) /\ cmd[p].authority = "migration"
             PROVE  load_state' = load_state /\ load_task_knowledge_view' = load_task_knowledge_view
  BY DEF Secondary, Steady
<1>1. busy(p) /\ Alone
  BY DEF next, AloneInv
<1>2. CASE UNCHANGED stores
  BY <1>2, SameView DEF stores
<1>3. UNCHANGED vars => UNCHANGED stores
  BY DEF vars, stores
<1>4. ASSUME NEW q \in Procs, Command(q) PROVE UNCHANGED stores
  BY <1>4, Zenon DEF Command, create_task, update_task_planning_handoff,
     append_task_knowledge_capture, decide_task_knowledge, promote_stage_candidate_command,
     run_task, refresh_wiki_evidence_command, evaluate_task_canonical_reuse,
     migrate_file_tasks_to_sqlite, migrate_file_knowledge_to_sqlite, begin
<1>5. ASSUME NEW q \in Procs, Crash(q) PROVE UNCHANGED stores
  BY <1>5 DEF Crash
<1>6. ASSUME NEW q \in Procs, Step(q)
      PROVE  load_state' = load_state /\ load_task_knowledge_view' = load_task_knowledge_view
  <2>1. q = p
    BY <1>1, <1>6, StepIsBusy DEF Alone
  <2>2. Step(p)
    BY <1>6, <2>1
  <2> QED BY <2>2, MirrorStep, MigrationStep
<1> QED BY <1>2, <1>3, <1>4, <1>5, <1>6 DEF Next

(* The order of writes decides what is lost by a crash: SQLite before its  *)
(* mirror, so that neither a mirror, whenever it is written, nor a         *)
(* migration, wherever it is cut off, changes what the program loads. Two  *)
(* facts carry it: AloneInv, that commands which do not overlap run one at *)
(* a time, and MirrorInv, what a command in flight has written before the  *)
(* mirror it is to write next, with what a migration has found missing.    *)
(* A capture of no object at all, on a task that has knowledge, would be   *)
(* the exception: NonEmptyCaptures leaves it out.                          *)
THEOREM MirrorsStaySecondary ==
  ASSUME None \notin Lists, NonEmptyCaptures
  PROVE  Spec => MirrorsAreSecondary
<1>1. Init => TypeInv /\ AloneInv /\ MirrorInv
  <2>1. Init => AloneInv
    BY IdleType DEF Init, AloneInv, Alone, busy
  <2> QED BY <2>1, InitType, InitReady
<1>2. TypeInv /\ AloneInv /\ MirrorInv /\ [Next]_vars => TypeInv' /\ AloneInv' /\ MirrorInv'
  BY NextType, NextAlone, NextReady
<1>3. TypeInv /\ AloneInv /\ MirrorInv /\ [Next]_vars => [\A p \in Procs : Secondary(p)]_vars
  BY NextSecondary
<1> QED BY <1>1, <1>2, <1>3, PTL DEF Spec, MirrorsAreSecondary, Secondary

-----------------------------------------------------------------------------
(* What the librarian supersedes *)

(* The records that a run has still to write are new to the registry and   *)
(* differ from each other, and the registry is read right before each.     *)
FreshWrites(c, reg) ==
  c.authority = "librarian" =>
    /\ \A k \in DOMAIN c.todo : c.todo[k].step = "record" =>
         /\ c.todo[k].of.status = "active" /\ NewTo(reg, c.todo[k].of)
         /\ IF k = 1 THEN c.seen = reg ELSE c.todo[k - 1].step = "read_registry"
    /\ \A k, l \in DOMAIN c.todo :
         k # l /\ c.todo[k].step = "record" /\ c.todo[l].step = "record" =>
           c.todo[k].of.id # c.todo[l].of.id /\ c.todo[k].of.key # c.todo[l].of.key
FreshInv == Steady => \A p \in Procs : busy(p) => FreshWrites(cmd[p], registry)

LEMMA StepFresh ==
  ASSUME TypeInv, AloneInv, Steady, NEW p \in Procs, busy(p), NEW c,
         cmd' = [cmd EXCEPT ![p] = c], c.todo # <<>> => FreshWrites(c, registry')
  PROVE  FreshInv'
<1>1. cmd'[p] = c /\ \A q \in Procs \ {p} : cmd'[q] = cmd[q]
  BY DEF TypeInv
<1>2. \A q \in Procs \ {p} : cmd[q].todo = <<>>
  BY DEF AloneInv, Alone, busy
<1>3. ASSUME NEW q \in Procs, cmd'[q].todo # <<>>
      PROVE  FreshWrites(cmd'[q], registry')
  <2>1. q = p
    BY <1>1, <1>2, <1>3
  <2> QED BY <1>1, <1>3, <2>1
<1>4. ASSUME NEW q \in Procs, busy(q)'
      PROVE  FreshWrites(cmd[q], registry)'
  BY <1>3, <1>4 DEF busy
<1> QED BY <1>4 DEF FreshInv

LEMMA NoRecordFresh ==
  ASSUME NEW c, NEW reg,
         c.authority # "librarian" \/ \A k \in DOMAIN c.todo : c.todo[k].step # "record"
  PROVE  FreshWrites(c, reg)
  BY DEF FreshWrites

(* A step that writes no record leaves the later ones as new as they were. *)
LEMMA FreshAfter ==
  ASSUME NEW c \in InFlight, c.todo # <<>>, NEW reg, NEW d \in InFlight, d.todo = c.todo,
         d.authority = c.authority, FreshWrites(c, reg), Head(c.todo).step # "record",
         Head(c.todo).step = "read_registry" => d.seen = reg
  PROVE  FreshWrites(After(d), reg)
<1>0. c.todo \in Seq(Writes)
  BY DEF InFlight
<1>1. /\ After(d).todo = Tail(c.todo)
      /\ After(d).todo # <<>> => After(d).authority = c.authority /\ After(d).seen = d.seen
      /\ After(d).todo = <<>> => After(d) = Idle
  BY AfterType
<1>2. CASE After(d).todo = <<>>
  <2>1. After(d) = Idle
    BY <1>1, <1>2
  <2>2. After(d).authority = "task-state"
    BY <2>1 DEF Idle
  <2> QED BY <2>2, NoRecordFresh
<1>3. CASE After(d).todo # <<>> /\ c.authority = "librarian"
  <2> DEFINE t == Tail(c.todo)
  <2>1. /\ t \in Seq(Writes) /\ DOMAIN t \subseteq Nat \ {0}
        /\ \A k \in DOMAIN t : k + 1 \in DOMAIN c.todo /\ t[k] = c.todo[k + 1]
        /\ \A k \in DOMAIN t : k # 1 => k - 1 \in DOMAIN t
        /\ Head(c.todo) = c.todo[1]
    BY <1>0, TailElements
  <2> HIDE DEF t
  <2>2. ASSUME NEW k \in DOMAIN t, t[k].step = "record"
        PROVE  /\ t[k].of.status = "active" /\ NewTo(reg, t[k].of)
               /\ IF k = 1 THEN After(d).seen = reg ELSE t[k - 1].step = "read_registry"
    <3>1. k + 1 \in DOMAIN c.todo /\ t[k] = c.todo[k + 1] /\ k \in Nat /\ k # 0
      BY <2>1
    <3>2. /\ t[k].of.status = "active" /\ NewTo(reg, t[k].of)
          /\ c.todo[k].step = "read_registry"
      BY <1>3, <2>2, <3>1 DEF FreshWrites
    <3>3. CASE k = 1
      BY <1>1, <1>3, <2>1, <3>2, <3>3
    <3>4. CASE k # 1
      <4>1. k - 1 \in DOMAIN t /\ t[k - 1] = c.todo[(k - 1) + 1] /\ (k - 1) + 1 = k
        BY <2>1, <3>1, <3>4
      <4> QED BY <3>2, <3>4, <4>1
    <3> QED BY <3>3, <3>4
  <2>3. ASSUME NEW k \in DOMAIN t, NEW l \in DOMAIN t, k # l, t[k].step = "record", t[l].step = "record"
        PROVE  t[k].of.id # t[l].of.id /\ t[k].of.key # t[l].of.key
    <3>1. /\ k + 1 \in DOMAIN c.todo /\ t[k] = c.todo[k + 1]
          /\ l + 1 \in DOMAIN c.todo /\ t[l] = c.todo[l + 1] /\ k + 1 # l + 1
      BY <2>1, <2>3
    <3> QED BY <1>3, <2>3, <3>1 DEF FreshWrites
  <2>4. After(d).todo = t
    BY <1>1 DEF t
  <2> QED BY <2>2, <2>3, <2>4 DEF FreshWrites
<1> QED BY <1>1, <1>2, <1>3, NoRecordFresh

(* Writing a record that is new takes no active one away, and the others   *)
(* stay new.                                                               *)
LEMMA RecordAfter ==
  ASSUME NEW c \in InFlight, c.todo # <<>>, NEW reg \in Registries, NEW d \in InFlight,
         d.todo = c.todo, d.authority = c.authority, FreshWrites(c, reg),
         c.authority = "librarian", Head(c.todo).step = "record"
  PROVE  LET new == append_canonical_record(c.seen, Head(c.todo).of)
         IN Active(reg) \subseteq Active(new) /\ FreshWrites(After(d), new)
<1> DEFINE r == Head(c.todo).of
           new == append_canonical_record(reg, r)
           t == Tail(c.todo)
<1>0. c.todo \in Seq(Writes)
  BY DEF InFlight
<1>1. /\ After(d).todo = t
      /\ After(d).todo # <<>> => After(d).authority = c.authority
      /\ After(d).todo = <<>> => After(d) = Idle
  BY AfterType
<1>2. /\ t \in Seq(Writes) /\ DOMAIN t \subseteq Nat \ {0}
      /\ \A k \in DOMAIN t : k + 1 \in DOMAIN c.todo /\ t[k] = c.todo[k + 1]
      /\ \A k \in DOMAIN t : k # 1 => k - 1 \in DOMAIN t
      /\ Head(c.todo) = c.todo[1] /\ 1 \in DOMAIN c.todo /\ c.todo[1] \in Writes
  BY <1>0, TailElements
<1>3. r \in Records
  BY <1>2 DEF Writes, RecordSteps, Plain, LibrarianSteps, Swapped
<1>4. c.seen = reg /\ NewTo(reg, r) /\ r.status = "active"
  BY <1>2 DEF FreshWrites
<1> HIDE DEF t
<1>5. \A k \in DOMAIN t : t[k].step = "record" =>
        t[k].of.status = "active" /\ NewTo(reg, t[k].of) /\ c.todo[k].step = "read_registry"
        /\ t[k].of.id # r.id /\ t[k].of.key # r.key
  <2> TAKE k \in DOMAIN t
  <2> HAVE t[k].step = "record"
  <2>1. k + 1 \in DOMAIN c.todo /\ t[k] = c.todo[k + 1] /\ k \in Nat /\ k + 1 # 1 /\ (k + 1) - 1 = k
    BY <1>2
  <2> QED BY <1>2, <2>1 DEF FreshWrites
<1> HIDE DEF r
<1>6. /\ Active(new) = Active(reg) \cup {r.id} /\ new[r.id] = r
      /\ \A a \in Active(reg) : new[a] = reg[a]
  BY <1>3, <1>4, AppendNew
<1> HIDE DEF new
<1>7. \A q : NewTo(reg, q) /\ q.id # r.id /\ q.key # r.key => NewTo(new, q)
  BY <1>6 DEF NewTo
<1>8. CASE t = <<>>
  <2>1. After(d).authority = "task-state"
    BY <1>1, <1>8 DEF Idle
  <2> QED BY <1>4, <1>6, <2>1, NoRecordFresh DEF new, r
<1>9. CASE t # <<>>
  <2>1. ASSUME NEW k \in DOMAIN t, t[k].step = "record"
        PROVE  /\ t[k].of.status = "active" /\ NewTo(new, t[k].of)
               /\ IF k = 1 THEN After(d).seen = new ELSE t[k - 1].step = "read_registry"
    <3>1. /\ t[k].of.status = "active" /\ NewTo(reg, t[k].of) /\ c.todo[k].step = "read_registry"
          /\ t[k].of.id # r.id /\ t[k].of.key # r.key
      BY <1>5, <2>1
    <3>2. k # 1
      BY <1>2, <3>1
    <3>3. k - 1 \in DOMAIN t /\ t[k - 1] = c.todo[(k - 1) + 1] /\ (k - 1) + 1 = k
      BY <1>2, <3>2
    <3> QED BY <1>7, <3>1, <3>2, <3>3
  <2>2. ASSUME NEW k \in DOMAIN t, NEW l \in DOMAIN t, k # l, t[k].step = "record", t[l].step = "record"
        PROVE  t[k].of.id # t[l].of.id /\ t[k].of.key # t[l].of.key
    <3>1. /\ k + 1 \in DOMAIN c.todo /\ t[k] = c.todo[k + 1]
          /\ l + 1 \in DOMAIN c.todo /\ t[l] = c.todo[l + 1] /\ k + 1 # l + 1
      BY <1>2, <2>2
    <3> QED BY <2>2, <3>1 DEF FreshWrites
  <2>3. FreshWrites(After(d), new)
    BY <1>1, <2>1, <2>2 DEF FreshWrites
  <2> QED BY <1>4, <1>6, <2>3 DEF new, r
<1> QED BY <1>8, <1>9

(* The records of a batch, in the writes that apply it. *)
LEMMA ApplyRecords ==
  ASSUME NEW records \in Seq(Records)
  PROVE  LET s == Apply(records)
             at(k) == (k - 1) \div 3 + 1
         IN /\ \A k \in DOMAIN s : s[k].step = "record" =>
                 /\ k - 1 \in DOMAIN s /\ s[k - 1].step = "read_registry"
                 /\ at(k) \in DOMAIN records /\ s[k].of = records[at(k)]
            /\ \A k, l \in DOMAIN s :
                 k # l /\ s[k].step = "record" /\ s[l].step = "record" => at(k) # at(l)
<1> DEFINE s == Apply(records)
           at(k) == (k - 1) \div 3 + 1
           m(k) == ((k - 1) % 3) + 1
           name(i) == <<"read_registry", "record", "wiki">>[i]
           n == 3 * Len(records)
<1>1. /\ s \in Seq(Writes) /\ Len(s) = n
      /\ \A k \in DOMAIN s : /\ at(k) \in DOMAIN records /\ s[k].of = records[at(k)]
                             /\ s[k].step = name(m(k))
  BY ApplyWrites
<1>2. DOMAIN s = 1 .. n /\ n \in Nat
  BY <1>1
<1>3. name(1) = "read_registry" /\ name(2) = "record" /\ name(3) = "wiki"
  OBVIOUS
<1> HIDE DEF s, name, n
<1>4. \A k \in 1 .. n : m(k) \in {1, 2, 3}
  BY <1>2, Z3
<1>5. \A k \in 1 .. n : m(k) = 2 => k - 1 \in 1 .. n /\ m(k - 1) = 1
  BY <1>2, Z3
<1>6. \A k, l \in 1 .. n : k # l /\ m(k) = 2 /\ m(l) = 2 => at(k) # at(l)
  BY <1>2, Z3
<1> HIDE DEF at, m
<1>7. \A k \in DOMAIN s : s[k].step = "record" => m(k) = 2
  BY <1>1, <1>2, <1>3, <1>4
<1>8. ASSUME NEW k \in DOMAIN s, s[k].step = "record"
      PROVE  /\ k - 1 \in DOMAIN s /\ s[k - 1].step = "read_registry"
             /\ at(k) \in DOMAIN records /\ s[k].of = records[at(k)]
  BY <1>1, <1>2, <1>3, <1>5, <1>7, <1>8
<1>9. ASSUME NEW k \in DOMAIN s, NEW l \in DOMAIN s, k # l, s[k].step = "record", s[l].step = "record"
      PROVE  at(k) # at(l)
  BY <1>2, <1>6, <1>7, <1>9
<1> QED BY <1>8, <1>9 DEF s, at

LEMMA SideEffectRecords ==
  ASSUME NEW records \in Seq(Records)
  PROVE  LET s == _apply_librarian_side_effects(records)
         IN /\ \A k \in DOMAIN s : s[k].step = "record" =>
                 /\ k # 1 /\ s[k - 1].step = "read_registry"
                 /\ \E i \in DOMAIN records : s[k].of = records[i]
            /\ \A k, l \in DOMAIN s :
                 k # l /\ s[k].step = "record" /\ s[l].step = "record" =>
                   \E i, j \in DOMAIN records : i # j /\ s[k].of = records[i] /\ s[l].of = records[j]
<1> DEFINE a == Decide(records)  b == Apply(records)  c == Steps(<<"plan">>)
           ab == a \o b  s == ab \o c
           at(k) == (k - 1) \div 3 + 1
           n == Len(a)
<1>1. /\ a \in Seq(Writes) /\ b \in Seq(Writes) /\ c \in Seq(Writes)
      /\ \A k \in DOMAIN a : a[k].step = "decision"
      /\ \A k \in DOMAIN c : c[k].step = "plan"
  BY DecideWrites, ApplyWrites, PlanWrite
<1>2. /\ \A k \in DOMAIN b : b[k].step = "record" =>
           /\ k - 1 \in DOMAIN b /\ b[k - 1].step = "read_registry"
           /\ at(k) \in DOMAIN records /\ b[k].of = records[at(k)]
      /\ \A k, l \in DOMAIN b :
           k # l /\ b[k].step = "record" /\ b[l].step = "record" => at(k) # at(l)
  BY ApplyRecords
<1> HIDE DEF a, b, c, at
<1>3. /\ n \in Nat /\ ab \in Seq(Writes) /\ Len(ab) = n + Len(b) /\ Len(b) \in Nat
      /\ DOMAIN b = 1 .. Len(b) /\ DOMAIN ab = 1 .. Len(ab)
      /\ \A i \in DOMAIN ab : IF i <= n THEN i \in DOMAIN a /\ ab[i] = a[i]
                              ELSE i - n \in DOMAIN b /\ ab[i] = b[i - n]
  BY <1>1, Joined
<1> HIDE DEF ab, n
<1>4. /\ DOMAIN s = 1 .. Len(ab) + Len(c) /\ Len(c) \in Nat
      /\ \A i \in DOMAIN s : IF i <= Len(ab) THEN i \in DOMAIN ab /\ s[i] = ab[i]
                             ELSE i - Len(ab) \in DOMAIN c /\ s[i] = c[i - Len(ab)]
  <2>1. ab \in Seq(Writes) /\ c \in Seq(Writes)
    BY <1>1, <1>3
  <2> QED BY <2>1, Joined
<1> HIDE DEF s
<1>5. ASSUME NEW k \in DOMAIN s, s[k].step = "record"
      PROVE  /\ k \in Nat /\ k - n \in DOMAIN b /\ s[k] = b[k - n]
  <2>1. k \in DOMAIN ab /\ s[k] = ab[k] /\ k \in Nat
    BY <1>1, <1>4, <1>5
  <2> QED BY <1>1, <1>3, <1>5, <2>1
<1>6. ASSUME NEW k \in DOMAIN s, s[k].step = "record"
      PROVE  /\ k # 1 /\ s[k - 1].step = "read_registry"
             /\ \E i \in DOMAIN records : s[k].of = records[i]
  <2>1. k \in Nat /\ k - n \in DOMAIN b /\ s[k] = b[k - n]
    BY <1>5, <1>6
  <2>2. /\ (k - n) - 1 \in DOMAIN b /\ b[(k - n) - 1].step = "read_registry"
        /\ at(k - n) \in DOMAIN records /\ s[k].of = records[at(k - n)]
    BY <1>2, <1>6, <2>1
  <2>3. k - 1 > n /\ k - 1 <= Len(ab) /\ k - 1 \in DOMAIN s /\ k - 1 \in DOMAIN ab
        /\ (k - 1) - n = (k - n) - 1
    BY <1>3, <1>4, <2>1, <2>2
  <2>4. s[k - 1] = b[(k - n) - 1]
    BY <1>3, <1>4, <2>3
  <2> QED BY <1>3, <2>2, <2>3, <2>4
<1>7. ASSUME NEW k \in DOMAIN s, NEW l \in DOMAIN s, k # l, s[k].step = "record", s[l].step = "record"
      PROVE  \E i, j \in DOMAIN records : i # j /\ s[k].of = records[i] /\ s[l].of = records[j]
  <2>1. /\ k \in Nat /\ k - n \in DOMAIN b /\ s[k] = b[k - n]
        /\ l \in Nat /\ l - n \in DOMAIN b /\ s[l] = b[l - n]
    BY <1>5, <1>7
  <2>2. k - n # l - n
    BY <1>3, <1>7, <2>1
  <2>3. at(k - n) # at(l - n)
    BY <1>2, <1>7, <2>1, <2>2
  <2>4. /\ at(k - n) \in DOMAIN records /\ s[k].of = records[at(k - n)]
        /\ at(l - n) \in DOMAIN records /\ s[l].of = records[at(l - n)]
    BY <1>2, <1>7, <2>1
  <2> QED BY <2>3, <2>4
<1>8. _apply_librarian_side_effects(records) = s
  BY DEF _apply_librarian_side_effects, s, ab, a, b, c
<1> QED BY <1>6, <1>7, <1>8

LEMMA DoneFresh ==
  ASSUME TypeInv, AloneInv, FreshInv, Steady, NEW p \in Procs, busy(p),
         NEW d \in InFlight, d.todo = cmd[p].todo, d.authority = cmd[p].authority,
         proceed(p, d), registry' = registry, Head(cmd[p].todo).step # "record",
         Head(cmd[p].todo).step = "read_registry" => d.seen = registry
  PROVE  FreshInv'
<1>1. cmd[p] \in InFlight /\ cmd[p].todo # <<>> /\ FreshWrites(cmd[p], registry)
  BY DEF TypeInv, FreshInv, busy
<1>2. FreshWrites(After(d), registry')
  BY <1>1, FreshAfter
<1>3. cmd' = [cmd EXCEPT ![p] = After(d)]
  BY DEF proceed, After
<1> QED BY <1>2, <1>3, StepFresh

LEMMA EndFresh ==
  ASSUME TypeInv, AloneInv, Steady, NEW p \in Procs, busy(p), cmd' = [cmd EXCEPT ![p] = Idle]
  PROVE  FreshInv'
  BY IdleType, StepFresh

LEMMA OtherStepFresh ==
  ASSUME TypeInv, AloneInv, FreshInv, Steady, NEW p \in Procs,
         \/ write_state(p) \/ mirror_state(p) \/ replace_task_knowledge(p) \/ mirror_store(p)
         \/ save_knowledge_index(p) \/ append_knowledge_decision(p)
         \/ persist_wiki_entry_from_record(p) \/ _refresh_canonical_derivatives(p)
         \/ append_canonical_reuse_evaluation(p) \/ summarize(p)
         \/ save_canonical_reuse_regression(p) \/ append_event(p) \/ mirror_event(p)
         \/ apply_atomic_text_updates(p) \/ RollBack(p) \/ Crash(p)
  PROVE  FreshInv'
<1> DEFINE Other == busy(p) /\ Head(cmd[p].todo).step \notin {"record", "read_registry"}
                    /\ UNCHANGED registry
<1>0. cmd[p] \in InFlight /\ busy(p)
  BY StepIsBusy DEF TypeInv, Step
<1>1. CASE Other /\ done(p)
  BY <1>0, <1>1, DoneFresh DEF done
<1>2. CASE cmd' = [cmd EXCEPT ![p] = Idle]
  BY <1>0, <1>2, EndFresh
<1>3. ASSUME \/ write_state(p) \/ mirror_state(p) \/ mirror_store(p) \/ save_knowledge_index(p)
             \/ append_knowledge_decision(p) \/ _refresh_canonical_derivatives(p)
             \/ append_canonical_reuse_evaluation(p) \/ save_canonical_reuse_regression(p)
             \/ append_event(p) \/ mirror_event(p)
      PROVE  FreshInv'
  BY <1>1, <1>3 DEF write_state, mirror_state, mirror_store, save_knowledge_index,
     append_knowledge_decision, _refresh_canonical_derivatives,
     append_canonical_reuse_evaluation, save_canonical_reuse_regression, append_event,
     mirror_event, next
<1>4. ASSUME replace_task_knowledge(p) PROVE FreshInv'
  BY <1>1, <1>2, <1>4 DEF replace_task_knowledge, next, fail
<1>5. ASSUME apply_atomic_text_updates(p) PROVE FreshInv'
  <2>1. PICK swap \in DOMAIN FileOf : next(p, swap)
    BY <1>5 DEF apply_atomic_text_updates
  <2>2. swap \notin {"record", "read_registry"}
    BY DEF FileOf
  <2>3. Other /\ done(p)
    BY <1>5, <2>1, <2>2 DEF apply_atomic_text_updates, next
  <2> QED BY <1>1, <2>3
<1>6. ASSUME RollBack(p) \/ Crash(p) PROVE FreshInv'
  BY <1>2, <1>6 DEF RollBack, fail, Crash
<1>7. ASSUME persist_wiki_entry_from_record(p) PROVE FreshInv'
  <2> DEFINE view == _merge_task_knowledge_views(load_task_knowledge_view, written(p).id,
                       build_wiki_entry_from_canonical_record(written(p)))
             mirrored == Head(Tail(cmd[p].todo)).step = "mirror_wiki"
             list == IF mirrored THEN view ELSE cmd[p].list
             c == [cmd[p] EXCEPT !.list = list]
  <2>1. proceed(p, c)
    BY <1>7 DEF persist_wiki_entry_from_record
  <2>2. written(p) \in Records
    BY <1>7, WrittenType DEF RecordSteps, persist_wiki_entry_from_record, next
  <2>3. written(p).id \in Nat
    BY <2>2 DEF Records
  <2>4. view \in Lists
    BY <2>2, <2>3, WikiEntryType, ViewIsList, MergedIsList DEF TypeInv
  <2>5. cmd[p].list \in Lists
    BY <1>0 DEF InFlight
  <2> HIDE DEF view, mirrored
  <2>6. list \in Lists
    BY <2>4, <2>5
  <2> HIDE DEF list
  <2>7. c \in InFlight /\ c.todo = cmd[p].todo /\ c.authority = cmd[p].authority
    BY <1>0, <2>6 DEF InFlight
  <2>8. Other
    BY <1>7 DEF persist_wiki_entry_from_record, next
  <2> HIDE DEF c
  <2> QED BY <2>1, <2>7, <2>8, DoneFresh
<1>8. ASSUME summarize(p) PROVE FreshInv'
  <2> DEFINE said == build_canonical_reuse_evaluation_summary(evaluation.records)
             c == [cmd[p] EXCEPT !.said = said]
  <2>1. said \in Summaries
    BY SummaryType DEF TypeInv, StoresTyped
  <2> HIDE DEF said
  <2>2. c \in InFlight /\ c.todo = cmd[p].todo /\ c.authority = cmd[p].authority
    BY <1>0, <2>1 DEF InFlight
  <2>3. Other /\ proceed(p, c)
    BY <1>8 DEF summarize, next, stores, said
  <2> HIDE DEF c
  <2> QED BY <2>2, <2>3, DoneFresh
<1> QED BY <1>3, <1>4, <1>5, <1>6, <1>7, <1>8

(* Reading the registry, and writing a record to what was read.            *)
LEMMA RegistryFresh ==
  ASSUME TypeInv, AloneInv, FreshInv, Steady, NEW p \in Procs,
         register_canonical_proposal(p) \/ write_registry(p)
  PROVE  /\ FreshInv'
         /\ next(p, "record") /\ cmd[p].authority = "librarian" =>
              Active(registry) \subseteq Active(registry')
<1>0. cmd[p] \in InFlight /\ busy(p) /\ registry \in Registries
  BY StepIsBusy DEF TypeInv, StoresTyped, Step
<1>1. ASSUME register_canonical_proposal(p)
      PROVE  FreshInv' /\ ~next(p, "record")
  <2> DEFINE id == written(p).id
             c == [cmd[p] EXCEPT !.seen = registry, !.registered = @ \cup {id}]
  <2>1. next(p, "read_registry") /\ registry' = registry
    BY <1>1 DEF register_canonical_proposal, stores
  <2>2. CASE fail(p)
    BY <1>0, <2>1, <2>2, EndFresh DEF fail, next
  <2>3. CASE proceed(p, c)
    <3>1. written(p) \in Records
      BY <1>0, <2>1, WrittenType DEF RecordSteps
    <3>2. id \in Nat
      BY <3>1 DEF Records
    <3> HIDE DEF id
    <3>3. /\ c \in InFlight /\ c.todo = cmd[p].todo /\ c.seen = registry
          /\ c.authority = cmd[p].authority
      BY <1>0, <3>2 DEF InFlight
    <3>4. Head(cmd[p].todo).step = "read_registry"
      BY <2>1 DEF next
    <3> HIDE DEF c
    <3>5. FreshInv'
      BY <1>0, <2>1, <2>3, <3>3, <3>4, DoneFresh
    <3> QED BY <3>4, <3>5 DEF next
  <2> QED BY <1>1, <2>2, <2>3 DEF register_canonical_proposal
<1>2. ASSUME write_registry(p)
      PROVE  /\ FreshInv'
             /\ cmd[p].authority = "librarian" => Active(registry) \subseteq Active(registry')
  <2> DEFINE c == [cmd[p] EXCEPT !.seen = Nothing]
             new == append_canonical_record(cmd[p].seen, Head(cmd[p].todo).of)
  <2>1. /\ Head(cmd[p].todo).step = "record" /\ proceed(p, c) /\ registry' = new
        /\ cmd[p].todo # <<>>
    BY <1>2 DEF write_registry, next, written, busy
  <2>2. c \in InFlight /\ c.todo = cmd[p].todo /\ c.authority = cmd[p].authority
    <3>1. Nothing \in Registries
      BY NothingIsList
    <3> HIDE DEF Nothing
    <3> QED BY <1>0, <3>1 DEF InFlight
  <2> HIDE DEF c
  <2>3. cmd' = [cmd EXCEPT ![p] = After(c)]
    BY <2>1 DEF proceed, After
  <2>4. CASE cmd[p].authority = "librarian"
    <3>1. FreshWrites(cmd[p], registry)
      BY <1>0 DEF FreshInv
    <3>2. Active(registry) \subseteq Active(new) /\ FreshWrites(After(c), new)
      BY <1>0, <2>1, <2>2, <2>4, <3>1, RecordAfter
    <3> HIDE DEF new
    <3> QED BY <1>0, <2>1, <2>3, <3>2, StepFresh
  <2>5. CASE cmd[p].authority # "librarian"
    <3>1. After(c).todo # <<>> => After(c).authority = c.authority
      BY <2>1, <2>2, AfterType
    <3>2. After(c).todo # <<>> => FreshWrites(After(c), registry')
      BY <2>2, <2>5, <3>1, NoRecordFresh
    <3> QED BY <1>0, <2>3, <2>5, <3>2, StepFresh
  <2> QED BY <2>4, <2>5
<1> QED BY <1>1, <1>2

(* What the librarian promotes in one batch is new, text and key.          *)
LEMMA executeFresh ==
  ASSUME TypeInv, AloneInv, FreshInv, Steady, NEW p \in Procs, execute(p)
  PROVE  FreshInv'
<1> DEFINE batch == LibrarianAgent(Known(load_task_knowledge_view), cmd[p].wanted, registry)
           records == batch.records
           todo == _apply_librarian_side_effects(records)
           c == [cmd[p] EXCEPT !.list = batch.list, !.round = @ + 1, !.todo = todo]
<1>0. cmd[p] \in InFlight /\ busy(p)
  BY StepIsBusy DEF TypeInv, Step
<1>1. cmd' = [cmd EXCEPT ![p] = c] /\ registry' = registry
  BY DEF execute, stores
<1>2. batch \in Batches(Known(load_task_knowledge_view), registry)
  BY ExecuteBatch
<1> HIDE DEF batch
<1>3. records \in Seq(Records) /\ Distinct(records) /\ Fresh(batch, registry)
  BY <1>2 DEF Batches, Batch, Fresh
<1>4. \A i \in DOMAIN records : records[i].status = "active" /\ NewTo(registry, records[i])
  BY <1>3 DEF Fresh, Active
<1>5. c.todo = todo
  BY <1>0 DEF InFlight
<1> HIDE DEF records
<1>6. /\ \A k \in DOMAIN todo : todo[k].step = "record" =>
           /\ k # 1 /\ todo[k - 1].step = "read_registry"
           /\ \E i \in DOMAIN records : todo[k].of = records[i]
      /\ \A k, l \in DOMAIN todo :
           k # l /\ todo[k].step = "record" /\ todo[l].step = "record" =>
             \E i, j \in DOMAIN records : i # j /\ todo[k].of = records[i] /\ todo[l].of = records[j]
  BY <1>3, SideEffectRecords
<1> HIDE DEF todo, c
<1>7. ASSUME NEW k \in DOMAIN todo, todo[k].step = "record"
      PROVE  /\ todo[k].of.status = "active" /\ NewTo(registry, todo[k].of)
             /\ IF k = 1 THEN c.seen = registry ELSE todo[k - 1].step = "read_registry"
  BY <1>4, <1>6, <1>7
<1>8. ASSUME NEW k \in DOMAIN todo, NEW l \in DOMAIN todo,
             k # l, todo[k].step = "record", todo[l].step = "record"
      PROVE  todo[k].of.id # todo[l].of.id /\ todo[k].of.key # todo[l].of.key
  BY <1>3, <1>6, <1>8 DEF Distinct
<1>9. FreshWrites(c, registry)
  BY <1>5, <1>7, <1>8 DEF FreshWrites
<1> QED BY <1>0, <1>1, <1>9, StepFresh

LEMMA RoundFresh ==
  ASSUME TypeInv, AloneInv, FreshInv, Steady, NEW p \in Procs,
         build_knowledge_store_write_plan(p) \/ run_review_gate(p)
  PROVE  FreshInv'
<1>0. cmd[p] \in InFlight /\ busy(p)
  BY StepIsBusy DEF TypeInv, Step
<1>1. ASSUME NEW c, NEW todo, c.todo = todo, "record" \notin Names(todo),
             cmd' = [cmd EXCEPT ![p] = c]
      PROVE  FreshInv'
  <2>1. \A k \in DOMAIN c.todo : c.todo[k].step # "record"
    BY <1>1 DEF Names
  <2>2. FreshWrites(c, registry')
    BY <2>1, NoRecordFresh
  <2> QED BY <1>0, <1>1, <2>2, StepFresh
<1>2. ASSUME build_knowledge_store_write_plan(p) PROVE FreshInv'
  <2> DEFINE planned == [knowledge |-> cmd[p].list, state |-> cmd[p].list,
                         derived |-> Derived(cmd[p].list), canon |-> Active(registry)]
             names == Swaps \o <<"store", "review">>
             todo == Steps(names)
             c == [cmd[p] EXCEPT !.original = files, !.planned = planned, !.todo = todo]
  <2>1. cmd' = [cmd EXCEPT ![p] = c]
    BY <1>2 DEF build_knowledge_store_write_plan
  <2>2. "record" \notin Names(todo)
    <3> DEFINE P == (Plain \cup LibrarianSteps) \ {"record"}
    <3>1. Swaps \in Seq(P) /\ <<"store", "review">> \in Seq(P)
      BY DEF Swaps, LibrarianSteps, Swapped, Plain
    <3> HIDE DEF P
    <3>2. names \in Seq(P)
      BY <3>1
    <3> HIDE DEF names
    <3>3. \A k \in DOMAIN names : names[k] # "record"
      BY <3>2 DEF P
    <3>4. names \in Seq(Plain \cup LibrarianSteps)
      BY <3>2 DEF P
    <3> QED BY <3>3, <3>4, NamesOfSteps
  <2> HIDE DEF planned, todo
  <2>3. c.todo = todo
    BY <1>0 DEF InFlight
  <2> HIDE DEF c
  <2> QED BY <1>1, <2>1, <2>2, <2>3
<1>3. ASSUME run_review_gate(p) PROVE FreshInv'
  <2>1. PICK todo \in {Steps(<<"execute">>), SaveState \o Event} :
          cmd' = [cmd EXCEPT ![p] = [@ EXCEPT !.todo = todo, !.planned = None, !.original = None]]
    BY <1>3 DEF run_review_gate
  <2> DEFINE c == [cmd[p] EXCEPT !.todo = todo, !.planned = None, !.original = None]
             u == Steps(<<"execute">>)
  <2>2. "record" \notin Names(u)
    <3>1. u \in Seq(Writes) /\ Len(u) = 1 /\ u[1].step = "execute"
      BY RunWrites
    <3> HIDE DEF u, Writes
    <3> QED BY <3>1 DEF Names
  <2>3. "record" \notin Names(SaveState \o Event)
    <3>1. Names(SaveState \o Event) = Names(SaveState) \cup Names(Event)
      BY SaveNames, NamesOf
    <3> QED BY <3>1, SaveNames
  <2>4. "record" \notin Names(todo)
    BY <2>1, <2>2, <2>3
  <2>5. c.todo = todo
    BY <1>0 DEF InFlight
  <2>6. cmd' = [cmd EXCEPT ![p] = c]
    BY <2>1
  <2> HIDE DEF c
  <2> QED BY <1>1, <2>4, <2>5, <2>6
<1> QED BY <1>2, <1>3

LEMMA BeginFresh ==
  ASSUME TypeInv, FreshInv, Steady', NEW p \in Procs, NEW what, NEW todo, NEW c,
         begin(p, what, todo, c),
         FreshWrites(With(c, todo), registry)
  PROVE  FreshInv'
<1> DEFINE overlaps == \E q \in Procs : busy(q)
<1>1. trouble' = trouble \cup (IF overlaps THEN {"overlap"} ELSE {}) \cup ({what} \cap {"refresh"})
  BY DEF begin
<1>2. ~overlaps
  BY <1>1 DEF Steady
<1>3. cmd' = [cmd EXCEPT ![p] = With(c, todo)] /\ registry' = registry
  BY DEF begin, With, stores
<1>4. cmd'[p] = With(c, todo) /\ \A q \in Procs \ {p} : cmd'[q] = cmd[q]
  BY <1>3 DEF TypeInv
<1>5. ASSUME NEW q \in Procs, cmd'[q].todo # <<>> PROVE FreshWrites(cmd'[q], registry')
  <2>1. q = p
    BY <1>2, <1>4, <1>5 DEF busy
  <2> QED BY <1>3, <1>4, <2>1
<1>6. ASSUME NEW q \in Procs, busy(q)' PROVE FreshWrites(cmd[q], registry)'
  BY <1>5, <1>6 DEF busy
<1> QED BY <1>6 DEF FreshInv

LEMMA WithIts ==
  ASSUME NEW c, {"todo", "authority"} \subseteq DOMAIN c, NEW todo
  PROVE  With(c, todo).todo = todo /\ With(c, todo).authority = c.authority
  BY DEF With

(* Only a run has the authority of the librarian. *)
LEMMA CommandFresh ==
  ASSUME TypeInv, FreshInv, Steady', NEW p \in Procs, Command(p)
  PROVE  FreshInv'
<1>1. ASSUME ~run_task(p) PROVE FreshInv'
  <2>1. PICK what, todo, c : c \in Starting /\ begin(p, what, todo, c)
    BY <1>1, UserCommandBegins
  <2>2. {"todo", "authority"} \subseteq DOMAIN c /\ c.authority # "librarian"
    BY <2>1 DEF Starting, InFlight
  <2>3. With(c, todo).authority # "librarian"
    BY <2>2, WithIts
  <2>4. FreshWrites(With(c, todo), registry)
    BY <2>3, NoRecordFresh
  <2> QED BY <2>1, <2>4, BeginFresh
<1>2. ASSUME run_task(p) PROVE FreshInv'
  <2> DEFINE todo == SaveState \o Steps(<<"execute">>)
             u == Steps(<<"execute">>)
  <2>1. PICK wanted : begin(p, "run", todo, [Idle EXCEPT !.list = load_state, !.wanted = wanted,
                                                         !.authority = "librarian"])
    BY <1>2 DEF run_task
  <2> DEFINE c == [Idle EXCEPT !.list = load_state, !.wanted = wanted, !.authority = "librarian"]
  <2>2. "record" \notin Names(u) /\ u \in Seq(Writes)
    <3>1. u \in Seq(Writes) /\ Len(u) = 1 /\ u[1].step = "execute"
      BY RunWrites
    <3> HIDE DEF u, Writes
    <3> QED BY <3>1 DEF Names
  <2> HIDE DEF u
  <2>3. Names(SaveState \o u) = Names(SaveState) \cup Names(u)
    BY <2>2, SaveNames, NamesOf
  <2>4. "record" \notin Names(todo)
    BY <2>2, <2>3, SaveNames DEF u
  <2> HIDE DEF todo
  <2>0. {"todo", "authority"} \subseteq DOMAIN c
    BY DEF Idle
  <2> HIDE DEF c
  <2>5. With(c, todo).todo = todo
    BY <2>0, WithIts
  <2>6. \A k \in DOMAIN With(c, todo).todo : With(c, todo).todo[k].step # "record"
    BY <2>4, <2>5 DEF Names
  <2>7. FreshWrites(With(c, todo), registry)
    BY <2>6, NoRecordFresh
  <2> QED BY <2>1, <2>7, BeginFresh DEF c
<1> QED BY <1>1, <1>2

LEMMA NextFresh == ASSUME TypeInv, AloneInv, FreshInv, [Next]_vars PROVE FreshInv'
<1>1. CASE UNCHANGED vars
  BY <1>1 DEF vars, FreshInv, Steady, busy
<1>2. ASSUME NEW p \in Procs, Command(p), Steady'
      PROVE  FreshInv'
  BY <1>2, CommandFresh
<1>3. ASSUME NEW p \in Procs, Step(p) \/ Crash(p), Steady'
      PROVE  FreshInv'
  <2>1. Steady
    BY <1>3, SteadyBefore DEF Next
  <2> QED BY <1>3, <2>1, OtherStepFresh, RegistryFresh, executeFresh, RoundFresh DEF Step
<1>4. CASE ~Steady'
  BY <1>4 DEF FreshInv
<1> QED BY <1>1, <1>2, <1>3, <1>4 DEF Next

KeepsActive(p) ==
  next(p, "record") /\ cmd[p].authority = "librarian" /\ "overlap" \notin trouble =>
    Active(registry) \subseteq Active(registry')

LEMMA NextKeepsActive ==
  ASSUME TypeInv, AloneInv, FreshInv, [Next]_vars
  PROVE  \A p \in Procs : KeepsActive(p)
<1> SUFFICES ASSUME NEW p \in Procs, Steady, next(p, "record"), cmd[p].authority = "librarian"
             PROVE  Active(registry) \subseteq Active(registry')
  BY DEF KeepsActive, Steady
<1>1. busy(p) /\ Alone
  BY DEF next, AloneInv
<1>2. CASE registry' = registry
  BY <1>2
<1>3. UNCHANGED vars => registry' = registry
  BY DEF vars
<1>4. ASSUME NEW q \in Procs, Command(q) PROVE registry' = registry
  <2>1. PICK what, todo, c : begin(q, what, todo, c)
    BY <1>4, CommandBegins
  <2> QED BY <2>1 DEF begin, stores
<1>5. ASSUME NEW q \in Procs, Step(q) \/ Crash(q), ~write_registry(q) PROVE registry' = registry
  BY <1>5, Zenon DEF Step, Crash, stores, write_state, mirror_state, replace_task_knowledge, mirror_store,
     save_knowledge_index, append_knowledge_decision, register_canonical_proposal,
     persist_wiki_entry_from_record, _refresh_canonical_derivatives,
     append_canonical_reuse_evaluation, summarize, save_canonical_reuse_regression,
     append_event, mirror_event, execute, build_knowledge_store_write_plan,
     apply_atomic_text_updates, RollBack, run_review_gate
<1>6. ASSUME NEW q \in Procs, write_registry(q)
      PROVE  Active(registry) \subseteq Active(registry')
  <2>1. q = p
    BY <1>1, <1>6 DEF Alone, write_registry, next
  <2>2. write_registry(p)
    BY <1>6, <2>1
  <2> QED BY <2>2, RegistryFresh
<1> QED BY <1>2, <1>3, <1>4, <1>5, <1>6 DEF Next

(* Where the operator's promotion of a second record of one key supersedes *)
(* the first, the librarian's never does: what skip_reason let through is  *)
(* new to the registry and to the rest of the batch (Fresh), and stays so  *)
(* until its write, since nothing else writes the registry while commands  *)
(* do not overlap and every record is written to the registry as it was    *)
(* read right before it (FreshInv).                                        *)
THEOREM LibrarianSupersedesNothing == Spec => LibrarianKeepsActive
<1>1. Init => TypeInv /\ AloneInv /\ FreshInv
  BY InitType, IdleType DEF Init, AloneInv, Alone, FreshInv, busy
<1>2. TypeInv /\ AloneInv /\ FreshInv /\ [Next]_vars => TypeInv' /\ AloneInv' /\ FreshInv'
  BY NextType, NextAlone, NextFresh
<1>3. TypeInv /\ AloneInv /\ FreshInv /\ [Next]_vars => [\A p \in Procs : KeepsActive(p)]_vars
  BY NextKeepsActive
<1> QED BY <1>1, <1>2, <1>3, PTL DEF Spec, LibrarianKeepsActive, KeepsActive

-----------------------------------------------------------------------------
(* The order of the steps of a command *)

Trailing == {"decision", "read_registry", "record", "canon", "event", "mirror_event"}

(* After a step of A comes a step b, and nothing but steps of B.           *)
Follows(todo, A, b) ==
  \A k \in DOMAIN todo : todo[k].step \in A => \E j \in DOMAIN todo : j > k /\ todo[j].step = b
Ends(todo, A, B) ==
  \A k, j \in DOMAIN todo : todo[k].step \in A /\ j > k => todo[j].step \in B
Within(todo, a, B) == a \in Names(todo) => Names(todo) \subseteq B

(* A wiki entry of a run is followed by its plan, the one of a staged      *)
(* candidate by its mirror; a record is written after the registry is read.*)
WikiFollowed(todo) ==
  \A k \in DOMAIN todo : todo[k].step = "wiki" =>
    \/ \E j \in DOMAIN todo : j > k /\ todo[j].step = "plan"
    \/ todo[k].of = StagedRecord /\ k + 1 \in DOMAIN todo /\ todo[k + 1].step = "mirror_wiki"
RecordsRead(todo) ==
  \A k \in DOMAIN todo : todo[k].step = "record" => k = 1 \/ todo[k - 1].step = "read_registry"

Shape(todo) ==
  /\ Ends(todo, {"execute", "plan", "review"}, {})
  /\ Ends(todo, {"derived", "mirror_wiki"}, Trailing)
  /\ Follows(todo, Swapped, "store") /\ Follows(todo, Swapped, "review")
  /\ Follows(todo, {"evaluation"}, "summarize") /\ Follows(todo, {"summarize"}, "baseline")
  /\ WikiFollowed(todo) /\ RecordsRead(todo)
  /\ Within(todo, "plan", {"decision", "plan"} \cup RecordSteps)
  /\ Within(todo, "review", {"store", "review"} \cup Swapped)
  /\ Within(todo, "derived", {"state", "mirror_state", "store", "mirror_store", "derived"}
                                \cup Trailing)
  /\ Within(todo, "mirror_wiki", {"wiki", "mirror_wiki"} \cup Trailing)
  /\ Within(todo, "execute", {"state", "mirror_state", "execute"})

(* The shape is that of the rest of a list, and of a list with more of the *)
(* writes that come last.                                                  *)
LEMMA TailPlaces ==
  ASSUME NEW todo \in Seq(Writes), todo # <<>>
  PROVE  /\ \A i \in DOMAIN Tail(todo) : i \in Nat \ {0} /\ i + 1 \in DOMAIN todo
                                        /\ Tail(todo)[i] = todo[i + 1]
         /\ \A j \in DOMAIN todo : j \in Nat /\ (j > 1 =>
              j - 1 \in DOMAIN Tail(todo) /\ Tail(todo)[j - 1] = todo[j])
  OBVIOUS

LEMMA FollowsTail ==
  ASSUME NEW todo \in Seq(Writes), todo # <<>>, NEW A, NEW b, Follows(todo, A, b)
  PROVE  Follows(Tail(todo), A, b)
<1> SUFFICES ASSUME NEW k \in DOMAIN Tail(todo), Tail(todo)[k].step \in A
             PROVE  \E j \in DOMAIN Tail(todo) : j > k /\ Tail(todo)[j].step = b
  BY DEF Follows
<1>1. k \in Nat \ {0} /\ k + 1 \in DOMAIN todo /\ todo[k + 1].step \in A
  BY TailPlaces
<1>2. PICK j \in DOMAIN todo : j > k + 1 /\ todo[j].step = b
  BY <1>1 DEF Follows
<1>3. j \in Nat /\ j > 1
  BY <1>1, <1>2, TailPlaces
<1>4. j - 1 \in DOMAIN Tail(todo) /\ Tail(todo)[j - 1] = todo[j] /\ j - 1 > k
  BY <1>1, <1>2, <1>3, TailPlaces
<1> QED BY <1>2, <1>4

LEMMA EndsTail ==
  ASSUME NEW todo \in Seq(Writes), todo # <<>>, NEW A, NEW B, Ends(todo, A, B)
  PROVE  Ends(Tail(todo), A, B)
<1> SUFFICES ASSUME NEW k \in DOMAIN Tail(todo), NEW j \in DOMAIN Tail(todo),
                    Tail(todo)[k].step \in A, j > k
             PROVE  Tail(todo)[j].step \in B
  BY DEF Ends
<1>1. /\ k \in Nat /\ k + 1 \in DOMAIN todo /\ todo[k + 1].step \in A
      /\ j \in Nat /\ j + 1 \in DOMAIN todo /\ Tail(todo)[j] = todo[j + 1]
  BY TailPlaces
<1>2. j + 1 > k + 1
  BY <1>1
<1> QED BY <1>1, <1>2 DEF Ends

LEMMA WithinTail ==
  ASSUME NEW todo \in Seq(Writes), todo # <<>>, NEW a, NEW B, Within(todo, a, B)
  PROVE  Within(Tail(todo), a, B)
<1>1. Names(Tail(todo)) \subseteq Names(todo)
  BY NamesOfTail
<1> QED BY <1>1 DEF Within

LEMMA ShapeTail ==
  ASSUME NEW todo \in Seq(Writes), todo # <<>>, Shape(todo)
  PROVE  Shape(Tail(todo))
<1>1. WikiFollowed(Tail(todo))
  <2> SUFFICES ASSUME NEW k \in DOMAIN Tail(todo), Tail(todo)[k].step = "wiki"
               PROVE  \/ \E j \in DOMAIN Tail(todo) : j > k /\ Tail(todo)[j].step = "plan"
                      \/ /\ Tail(todo)[k].of = StagedRecord /\ k + 1 \in DOMAIN Tail(todo)
                         /\ Tail(todo)[k + 1].step = "mirror_wiki"
    BY DEF WikiFollowed
  <2>1. k \in Nat \ {0} /\ k + 1 \in DOMAIN todo /\ Tail(todo)[k] = todo[k + 1]
    BY TailPlaces
  <2>2. CASE \E j \in DOMAIN todo : j > k + 1 /\ todo[j].step = "plan"
    <3>1. PICK j \in DOMAIN todo : j > k + 1 /\ todo[j].step = "plan"
      BY <2>2
    <3>2. j \in Nat /\ j > 1
      BY <2>1, <3>1, TailPlaces
    <3>3. j - 1 \in DOMAIN Tail(todo) /\ Tail(todo)[j - 1] = todo[j] /\ j - 1 > k
      BY <2>1, <3>1, <3>2, TailPlaces
    <3> QED BY <3>1, <3>3
  <2>3. CASE /\ todo[k + 1].of = StagedRecord /\ (k + 1) + 1 \in DOMAIN todo
             /\ todo[(k + 1) + 1].step = "mirror_wiki"
    <3>1. /\ ((k + 1) + 1) - 1 = k + 1 /\ (k + 1) + 1 > 1
      BY <2>1
    <3>2. k + 1 \in DOMAIN Tail(todo) /\ Tail(todo)[k + 1] = todo[(k + 1) + 1]
      BY <2>3, <3>1, TailPlaces
    <3> QED BY <2>1, <2>3, <3>2
  <2> QED BY <2>1, <2>2, <2>3 DEF Shape, WikiFollowed
<1>2. RecordsRead(Tail(todo))
  <2> SUFFICES ASSUME NEW k \in DOMAIN Tail(todo), Tail(todo)[k].step = "record", k # 1
               PROVE  Tail(todo)[k - 1].step = "read_registry"
    BY DEF RecordsRead
  <2>1. k \in Nat \ {0} /\ k + 1 \in DOMAIN todo /\ Tail(todo)[k] = todo[k + 1] /\ k + 1 # 1
        /\ (k + 1) - 1 = k /\ k > 1
    BY TailPlaces
  <2>2. todo[k].step = "read_registry"
    BY <2>1 DEF Shape, RecordsRead
  <2>3. k \in DOMAIN todo
    BY <2>1
  <2> QED BY <2>1, <2>2, <2>3, TailPlaces
<1> QED BY <1>1, <1>2, EndsTail, FollowsTail, WithinTail DEF Shape

LEMMA JoinPlaces ==
  ASSUME NEW s \in Seq(Writes), NEW t \in Seq(Writes)
  PROVE  /\ \A i \in DOMAIN (s \o t) : \/ i \in DOMAIN s /\ (s \o t)[i] = s[i]
                                      \/ /\ i > Len(s) /\ i - Len(s) \in DOMAIN t
                                         /\ (s \o t)[i] = t[i - Len(s)]
         /\ \A i \in DOMAIN s : i \in DOMAIN (s \o t) /\ (s \o t)[i] = s[i]
                                /\ i \in Nat \ {0} /\ i <= Len(s)
         /\ \A i \in DOMAIN (s \o t) : i \in Nat \ {0}
         /\ Len(s) \in Nat /\ DOMAIN s = 1 .. Len(s)
  OBVIOUS

LEMMA FollowsJoined ==
  ASSUME NEW s \in Seq(Writes), NEW t \in Seq(Writes), NEW A, NEW b, Follows(s, A, b),
         Names(t) \cap A = {}
  PROVE  Follows(s \o t, A, b)
<1> DEFINE u == s \o t
<1>1. /\ \A i \in DOMAIN u : \/ i \in DOMAIN s /\ u[i] = s[i]
                             \/ i - Len(s) \in DOMAIN t /\ u[i] = t[i - Len(s)]
      /\ \A i \in DOMAIN s : i \in DOMAIN u /\ u[i] = s[i]
  BY JoinPlaces
<1> HIDE DEF u
<1> SUFFICES ASSUME NEW k \in DOMAIN u, u[k].step \in A
             PROVE  \E j \in DOMAIN u : j > k /\ u[j].step = b
  BY DEF Follows, u
<1>2. k \in DOMAIN s /\ u[k] = s[k]
  BY <1>1 DEF Names
<1> QED BY <1>1, <1>2 DEF Follows

LEMMA EndsJoined ==
  ASSUME NEW s \in Seq(Writes), NEW t \in Seq(Writes), NEW A, NEW B, Ends(s, A, B),
         Names(t) \cap A = {}, Names(s) \cap A = {} \/ Names(t) \subseteq B
  PROVE  Ends(s \o t, A, B)
<1> DEFINE u == s \o t
<1>1. \A i \in DOMAIN u : \/ i \in DOMAIN s /\ u[i] = s[i]
                          \/ i - Len(s) \in DOMAIN t /\ u[i] = t[i - Len(s)]
  BY JoinPlaces
<1> HIDE DEF u
<1> SUFFICES ASSUME NEW k \in DOMAIN u, NEW j \in DOMAIN u, u[k].step \in A, j > k
             PROVE  u[j].step \in B
  BY DEF Ends, u
<1>2. k \in DOMAIN s /\ u[k] = s[k]
  BY <1>1 DEF Names
<1>3. Names(t) \subseteq B
  BY <1>2 DEF Names
<1> QED BY <1>1, <1>2, <1>3 DEF Ends, Names

LEMMA WithinJoined ==
  ASSUME NEW s \in Seq(Writes), NEW t \in Seq(Writes), NEW a, NEW B, Within(s, a, B),
         a \notin Names(t), a \notin Names(s) \/ Names(t) \subseteq B
  PROVE  Within(s \o t, a, B)
<1>1. Names(s \o t) = Names(s) \cup Names(t)
  BY NamesOf
<1> QED BY <1>1 DEF Within

(* Trailing steps may follow any command that the librarian has no part in.*)
LEMMA ShapeJoined ==
  ASSUME NEW s \in Seq(Writes), NEW t \in Seq(Writes), Shape(s), RecordsRead(t),
         Names(t) \subseteq Trailing, t # <<>> => Head(t).step # "record",
         Names(s) \cap {"execute", "plan", "review"} = {}
  PROVE  Shape(s \o t)
<1>1. /\ Ends(s \o t, {"execute", "plan", "review"}, {})
      /\ Ends(s \o t, {"derived", "mirror_wiki"}, Trailing)
  <2>1. Names(t) \cap {"execute", "plan", "review"} = {} /\ Names(t) \cap {"derived", "mirror_wiki"} = {}
    BY DEF Trailing
  <2> QED BY <2>1, EndsJoined DEF Shape
<1>2. /\ Follows(s \o t, Swapped, "store") /\ Follows(s \o t, Swapped, "review")
      /\ Follows(s \o t, {"evaluation"}, "summarize") /\ Follows(s \o t, {"summarize"}, "baseline")
  <2>1. /\ Names(t) \cap Swapped = {} /\ Names(t) \cap {"evaluation"} = {}
        /\ Names(t) \cap {"summarize"} = {}
    BY DEF Trailing, Swapped
  <2> QED BY <2>1, FollowsJoined DEF Shape
<1>3. /\ Within(s \o t, "plan", {"decision", "plan"} \cup RecordSteps)
      /\ Within(s \o t, "review", {"store", "review"} \cup Swapped)
      /\ Within(s \o t, "execute", {"state", "mirror_state", "execute"})
  <2>1. /\ "plan" \notin Names(t) /\ "review" \notin Names(t) /\ "execute" \notin Names(t)
        /\ "plan" \notin Names(s) /\ "review" \notin Names(s) /\ "execute" \notin Names(s)
    BY DEF Trailing
  <2> QED BY <2>1, WithinJoined DEF Shape
<1>4. /\ Within(s \o t, "derived",
                {"state", "mirror_state", "store", "mirror_store", "derived"} \cup Trailing)
      /\ Within(s \o t, "mirror_wiki", {"wiki", "mirror_wiki"} \cup Trailing)
  <2>1. "derived" \notin Names(t) /\ "mirror_wiki" \notin Names(t)
    BY DEF Trailing
  <2> QED BY <2>1, WithinJoined DEF Shape
<1> DEFINE u == s \o t
<1>5. /\ \A i \in DOMAIN u : \/ i \in DOMAIN s /\ u[i] = s[i]
                             \/ /\ i > Len(s) /\ i - Len(s) \in DOMAIN t
                                /\ u[i] = t[i - Len(s)]
      /\ \A i \in DOMAIN s : i \in DOMAIN u /\ u[i] = s[i] /\ i \in Nat \ {0} /\ i <= Len(s)
      /\ \A i \in DOMAIN u : i \in Nat \ {0}
      /\ Len(s) \in Nat /\ DOMAIN s = 1 .. Len(s)
  BY JoinPlaces
<1> HIDE DEF u
<1>6. WikiFollowed(u)
  <2> SUFFICES ASSUME NEW k \in DOMAIN u, u[k].step = "wiki"
               PROVE  \/ \E j \in DOMAIN u : j > k /\ u[j].step = "plan"
                      \/ /\ u[k].of = StagedRecord /\ k + 1 \in DOMAIN u
                         /\ u[k + 1].step = "mirror_wiki"
    BY DEF WikiFollowed
  <2>1. k \in DOMAIN s /\ u[k] = s[k]
    <3>1. "wiki" \notin Names(t)
      BY DEF Trailing
    <3> QED BY <1>5, <3>1 DEF Names
  <2>2. \/ \E j \in DOMAIN s : j > k /\ s[j].step = "plan"
        \/ s[k].of = StagedRecord /\ k + 1 \in DOMAIN s /\ s[k + 1].step = "mirror_wiki"
    BY <2>1 DEF Shape, WikiFollowed
  <2> QED BY <1>5, <2>1, <2>2
<1>7. RecordsRead(u)
  <2> SUFFICES ASSUME NEW k \in DOMAIN u, u[k].step = "record", k # 1
               PROVE  u[k - 1].step = "read_registry"
    BY DEF RecordsRead
  <2>1. CASE k \in DOMAIN s /\ u[k] = s[k]
    <3>1. s[k - 1].step = "read_registry"
      BY <2>1 DEF Shape, RecordsRead
    <3>2. k - 1 \in DOMAIN s
      BY <1>5, <2>1
    <3> QED BY <1>5, <3>1, <3>2
  <2>2. CASE k > Len(s) /\ k - Len(s) \in DOMAIN t /\ u[k] = t[k - Len(s)]
    <3>1. Head(t) = t[1]
      BY <2>2
    <3>2. k - Len(s) # 1
      BY <2>2, <3>1
    <3>3. t[(k - Len(s)) - 1].step = "read_registry"
      BY <2>2, <3>2 DEF RecordsRead
    <3>4. /\ (k - 1) - Len(s) \in DOMAIN t /\ (k - Len(s)) - 1 = (k - 1) - Len(s)
          /\ k - 1 > Len(s) /\ k - 1 \in DOMAIN u /\ k - 1 \notin DOMAIN s
      <4>1. DOMAIN t = 1 .. Len(t) /\ Len(t) \in Nat /\ DOMAIN u = 1 .. Len(s) + Len(t)
        BY DEF u
      <4> QED BY <1>5, <2>2, <3>2, <4>1
    <3> QED BY <1>5, <3>3, <3>4
  <2> QED BY <1>5, <2>1, <2>2
<1> QED BY <1>1, <1>2, <1>3, <1>4, <1>6, <1>7 DEF Shape, u

(* Steps with nothing to keep in order.                                    *)
LEMMA PlainShape ==
  ASSUME NEW todo, Names(todo) \subseteq {"state", "mirror_state", "store", "mirror_store",
           "copy_event", "canon", "event", "mirror_event", "decision", "read_registry"}
  PROVE  Shape(todo)
<1>1. \A k \in DOMAIN todo : todo[k].step \in {"state", "mirror_state", "store", "mirror_store",
           "copy_event", "canon", "event", "mirror_event", "decision", "read_registry"}
  BY DEF Names
<1>2. WikiFollowed(todo) /\ RecordsRead(todo)
  BY <1>1 DEF WikiFollowed, RecordsRead
<1>3. /\ Ends(todo, {"execute", "plan", "review"}, {})
      /\ Ends(todo, {"derived", "mirror_wiki"}, Trailing)
  BY <1>1 DEF Ends
<1>4. /\ Follows(todo, Swapped, "store") /\ Follows(todo, Swapped, "review")
      /\ Follows(todo, {"evaluation"}, "summarize") /\ Follows(todo, {"summarize"}, "baseline")
  BY <1>1 DEF Follows, Swapped
<1> QED BY <1>2, <1>3, <1>4 DEF Shape, Within

(* The lists of writes of the commands have the shape.                     *)
LEMMA SaveKnowledgeShape == Shape(SaveKnowledge)
<1> DEFINE b == <<"state", "mirror_state", "store", "mirror_store", "derived">>
           s == SaveKnowledge
<1>1. b \in Seq(Plain \cup LibrarianSteps) /\ Len(b) = 5
  BY DEF Plain
<1>2. \A k \in 1 .. 5 : b[k] \in {"state", "mirror_state", "store", "mirror_store", "derived"}
                        /\ (b[k] = "derived" => k = 5)
  OBVIOUS
<1>3. s = Steps(b)
  BY DEF SaveKnowledge
<1> HIDE DEF b, s
<1>4. s \in Seq(Writes) /\ Len(s) = 5 /\ \A k \in DOMAIN s : s[k].step = b[k]
  BY <1>1, <1>3, AnyStepsType
<1>5. DOMAIN s = 1 .. 5
  BY <1>4
<1>6. \A k \in DOMAIN s :
        /\ s[k].step \in {"state", "mirror_state", "store", "mirror_store", "derived"}
        /\ s[k].step = "derived" => k = 5
  BY <1>2, <1>4, <1>5
<1>7. WikiFollowed(s) /\ RecordsRead(s)
  BY <1>6 DEF WikiFollowed, RecordsRead
<1>8. /\ Ends(s, {"execute", "plan", "review"}, {})
      /\ Ends(s, {"derived", "mirror_wiki"}, Trailing)
  BY <1>5, <1>6 DEF Ends
<1>9. /\ Follows(s, Swapped, "store") /\ Follows(s, Swapped, "review")
      /\ Follows(s, {"evaluation"}, "summarize") /\ Follows(s, {"summarize"}, "baseline")
  BY <1>6 DEF Follows, Swapped
<1>10. Names(s) \subseteq {"state", "mirror_state", "store", "mirror_store", "derived"}
  BY <1>6 DEF Names
<1> QED BY <1>7, <1>8, <1>9, <1>10 DEF Shape, Within, s

(* A run saves the state and executes.                                     *)
LEMMA RunShape ==
  /\ Shape(Steps(<<"execute">>)) /\ Names(Steps(<<"execute">>)) = {"execute"}
  /\ Shape(SaveState \o Steps(<<"execute">>))
  /\ SaveState \o Steps(<<"execute">>) \in Seq(Writes)
  /\ Names(SaveState \o Steps(<<"execute">>)) = {"state", "mirror_state", "execute"}
<1> DEFINE u == Steps(<<"execute">>)  s == SaveState \o u
<1>1. u \in Seq(Writes) /\ Len(u) = 1 /\ u[1].step = "execute"
  BY RunWrites
<1> HIDE DEF u
<1>2. Names(u) = {"execute"} /\ DOMAIN u = {1}
  BY <1>1 DEF Names
<1>3. s \in Seq(Writes) /\ Names(s) = {"state", "mirror_state", "execute"}
  <2>1. SaveState \in Seq(Writes) /\ Names(SaveState) = {"state", "mirror_state"}
    BY SaveNames
  <2>2. s \in Seq(Writes) /\ Names(s) = Names(SaveState) \cup Names(u)
    BY <1>1, <2>1, NamesOf
  <2> HIDE DEF s
  <2> QED BY <1>2, <2>1, <2>2
<1>4. DOMAIN s = 1 .. 3 /\ \A k \in DOMAIN s : s[k].step = "execute" => k = 3
  <2>1. /\ SaveState \in Seq(Writes) /\ Len(SaveState) = 2
        /\ SaveState[1].step = "state" /\ SaveState[2].step = "mirror_state"
    BY RunWrites
  <2>2. /\ Len(s) = 3 /\ s \in Seq(Writes)
        /\ \A k \in DOMAIN s : IF k <= 2 THEN k \in DOMAIN SaveState /\ s[k] = SaveState[k]
                                ELSE k - 2 \in DOMAIN u /\ s[k] = u[k - 2]
    <3> DEFINE a == SaveState
    <3> HIDE DEF a
    <3>1. /\ Len(a \o u) = Len(a) + Len(u) /\ a \o u \in Seq(Writes)
          /\ \A k \in DOMAIN (a \o u) : IF k <= Len(a) THEN k \in DOMAIN a /\ (a \o u)[k] = a[k]
                                       ELSE k - Len(a) \in DOMAIN u /\ (a \o u)[k] = u[k - Len(a)]
      BY <1>1, <2>1, Joined DEF a
    <3> QED BY <1>1, <2>1, <3>1 DEF a
  <2> HIDE DEF s
  <2>3. DOMAIN s = 1 .. 3 /\ \A k \in DOMAIN s : k # 3 => k = 1 \/ k = 2
    BY <2>2
  <2>4. s[1].step = "state" /\ s[2].step = "mirror_state"
    BY <2>1, <2>2, <2>3
  <2> QED BY <2>3, <2>4
<1> HIDE DEF s
<1>5. ASSUME NEW t, Names(t) \subseteq {"state", "mirror_state", "execute"},
             \A k, j \in DOMAIN t : t[k].step = "execute" => ~(j > k)
      PROVE  Shape(t)
  <2>1. \A k \in DOMAIN t : t[k].step \in {"state", "mirror_state", "execute"}
    BY <1>5 DEF Names
  <2>2. WikiFollowed(t) /\ RecordsRead(t)
    BY <2>1 DEF WikiFollowed, RecordsRead
  <2>3. /\ Ends(t, {"execute", "plan", "review"}, {})
        /\ Ends(t, {"derived", "mirror_wiki"}, Trailing)
    BY <1>5, <2>1 DEF Ends
  <2>4. /\ Follows(t, Swapped, "store") /\ Follows(t, Swapped, "review")
        /\ Follows(t, {"evaluation"}, "summarize") /\ Follows(t, {"summarize"}, "baseline")
    BY <2>1 DEF Follows, Swapped
  <2> QED BY <1>5, <2>2, <2>3, <2>4 DEF Shape, Within
<1>6. Shape(u)
  BY <1>2, <1>5
<1>7. Shape(s)
  BY <1>3, <1>4, <1>5
<1> QED BY <1>2, <1>3, <1>6, <1>7 DEF u, s

(* The update of the files, of the store and the review.                   *)
LEMMA SwapsShape ==
  LET todo == Steps(Swaps \o <<"store", "review">>)
  IN /\ todo \in Seq(Writes) /\ Shape(todo) /\ Head(todo).step = "swap_knowledge"
     /\ Names(todo) = {"store", "review"} \cup Swapped
<1> DEFINE two == <<"store", "review">>
           names == Swaps \o two
           s == Steps(names)
           P == Plain \cup LibrarianSteps
<1>1. /\ Swaps \in Seq(P) /\ Len(Swaps) = 4 /\ Swaps # <<>> /\ Head(Swaps) = "swap_knowledge"
      /\ two \in Seq(P) /\ Len(two) = 2 /\ two[1] = "store" /\ two[2] = "review"
      /\ Swaps[1] = "swap_knowledge" /\ Swaps[2] = "swap_state" /\ Swaps[3] = "swap_derived"
      /\ Swaps[4] = "swap_canon"
  BY DEF Swaps, Plain, LibrarianSteps, Swapped
<1> HIDE DEF two, P
<1>2. /\ names \in Seq(P) /\ Len(names) = 6 /\ names # <<>> /\ Head(names) = "swap_knowledge"
      /\ \A k \in DOMAIN names : IF k <= 4 THEN k \in DOMAIN Swaps /\ names[k] = Swaps[k]
                                  ELSE k - 4 \in DOMAIN two /\ names[k] = two[k - 4]
  <2> DEFINE a == Swaps
  <2> HIDE DEF a
  <2>1. a \in Seq(P) /\ Len(a) = 4 /\ a # <<>> /\ Head(a) = "swap_knowledge"
    BY <1>1 DEF a
  <2>3. two \in Seq(P)
    BY <1>1
  <2>2. /\ Len(a \o two) = Len(a) + Len(two) /\ a \o two \in Seq(P)
        /\ a \o two # <<>> /\ Head(a \o two) = Head(a)
        /\ \A k \in DOMAIN (a \o two) :
             IF k <= Len(a) THEN k \in DOMAIN a /\ (a \o two)[k] = a[k]
             ELSE k - Len(a) \in DOMAIN two /\ (a \o two)[k] = two[k - Len(a)]
    BY <2>1, <2>3, Joined, Zenon
  <2> QED BY <1>1, <2>1, <2>2 DEF a
<1> HIDE DEF names
<1>3. /\ names[1] = "swap_knowledge" /\ names[2] = "swap_state" /\ names[3] = "swap_derived"
      /\ names[4] = "swap_canon" /\ names[5] = "store" /\ names[6] = "review"
  <2>1. DOMAIN names = 1 .. 6
    BY <1>2
  <2> QED BY <1>1, <1>2, <2>1
<1>4. \A k \in 1 .. 6 : /\ names[k] \in {"store", "review"} \cup Swapped
                        /\ names[k] = "review" => k = 6
                        /\ names[k] \in Swapped => k < 5
  <2>1. \A k \in 1 .. 6 : k \in {1, 2, 3, 4, 5, 6}
    OBVIOUS
  <2> QED BY <1>3, <2>1 DEF Swapped
<1> HIDE DEF s
<1>5. /\ s \in Seq(Writes) /\ Len(s) = 6 /\ \A k \in DOMAIN s : s[k].step = names[k]
      /\ Head(s).step = "swap_knowledge"
  BY <1>2, AnyStepsType DEF s, P
<1>6. DOMAIN s = 1 .. 6
  BY <1>5
<1>7. \A k \in DOMAIN s : /\ s[k].step \in {"store", "review"} \cup Swapped
                          /\ s[k].step = "review" => k = 6
                          /\ s[k].step \in Swapped => k < 5
  BY <1>4, <1>5, <1>6
<1>8. s[5].step = "store" /\ s[6].step = "review" /\ 5 \in DOMAIN s /\ 6 \in DOMAIN s
  BY <1>3, <1>5, <1>6
<1>9. Names(s) = {"store", "review"} \cup Swapped
  <2>1. Names(s) \subseteq {"store", "review"} \cup Swapped
    BY <1>7 DEF Names
  <2>2. /\ s[1].step = "swap_knowledge" /\ s[2].step = "swap_state" /\ s[3].step = "swap_derived"
        /\ s[4].step = "swap_canon" /\ {1, 2, 3, 4, 5, 6} \subseteq DOMAIN s
    BY <1>3, <1>5, <1>6
  <2> QED BY <1>8, <2>1, <2>2 DEF Names, Swapped
<1>10. WikiFollowed(s) /\ RecordsRead(s)
  BY <1>7 DEF WikiFollowed, RecordsRead, Swapped
<1>11. /\ Ends(s, {"execute", "plan", "review"}, {})
       /\ Ends(s, {"derived", "mirror_wiki"}, Trailing)
  BY <1>6, <1>7 DEF Ends, Swapped
<1>12. /\ Follows(s, Swapped, "store") /\ Follows(s, Swapped, "review")
       /\ Follows(s, {"evaluation"}, "summarize") /\ Follows(s, {"summarize"}, "baseline")
  <2>1. \A k \in DOMAIN s : s[k].step \in Swapped => 5 > k /\ 6 > k
    BY <1>6, <1>7
  <2> QED BY <1>7, <1>8, <2>1 DEF Follows, Swapped
<1>13. Shape(s)
  BY <1>9, <1>10, <1>11, <1>12 DEF Shape, Within, Swapped
<1> QED BY <1>5, <1>9, <1>13 DEF s, names, two

LEMMA SameElements ==
  ASSUME NEW s \in Seq(Writes), NEW t \in Seq(Writes), Len(s) = Len(t),
         \A i \in 1 .. Len(s) : s[i] = t[i]
  PROVE  s = t
  OBVIOUS

(* The entry of a staged candidate and its mirror.                         *)
LEMMA StagedShape ==
  LET todo == <<Write("wiki", StagedRecord)>> \o Steps(<<"mirror_wiki">>)
  IN todo \in Seq(Writes) /\ Shape(todo) /\ Names(todo) = {"wiki", "mirror_wiki"} /\ todo # <<>>
     /\ Head(todo).step = "wiki"
<1> DEFINE w == Write("wiki", StagedRecord)  v == Write("mirror_wiki", None)
           m == <<"mirror_wiki">>  s == <<w, v>>
<1>1. w \in Writes /\ v \in Writes /\ w.step = "wiki" /\ w.of = StagedRecord /\ v.step = "mirror_wiki"
  BY StagedRecordType DEF Write, Writes, RecordSteps, Plain
<1>2. Steps(m) = <<v>>
  <2>1. DOMAIN m = 1 .. 1 /\ m[1] = "mirror_wiki"
    OBVIOUS
  <2>2. Steps(m) = [k \in 1 .. 1 |-> v]
    BY <2>1 DEF Steps
  <2> QED BY <2>2
<1> HIDE DEF w, v
<1>3. <<w>> \o <<v>> = s
  <2>1. Len(<<w>> \o <<v>>) = 2 /\ <<w>> \o <<v>> \in Seq(Writes)
    BY <1>1
  <2>2. (<<w>> \o <<v>>)[1] = w /\ (<<w>> \o <<v>>)[2] = v
    BY <1>1
  <2>3. s \in Seq(Writes) /\ Len(s) = 2 /\ s[1] = w /\ s[2] = v
    BY <1>1
  <2> HIDE DEF s
  <2>4. \A i \in 1 .. 2 : (<<w>> \o <<v>>)[i] = s[i]
    BY <2>2, <2>3
  <2> QED BY <2>1, <2>3, <2>4, SameElements
<1>4. s \in Seq(Writes) /\ DOMAIN s = {1, 2} /\ s[1] = w /\ s[2] = v /\ s # <<>> /\ Head(s) = w
  BY <1>1
<1> HIDE DEF s
<1>5. Names(s) = {"wiki", "mirror_wiki"}
  BY <1>1, <1>4 DEF Names
<1>6. WikiFollowed(s)
  <2> SUFFICES ASSUME NEW k \in DOMAIN s, s[k].step = "wiki"
               PROVE  s[k].of = StagedRecord /\ k + 1 \in DOMAIN s /\ s[k + 1].step = "mirror_wiki"
    BY DEF WikiFollowed
  <2>1. k = 1
    BY <1>1, <1>4
  <2> QED BY <1>1, <1>4, <2>1
<1>7. RecordsRead(s)
  BY <1>1, <1>4 DEF RecordsRead
<1>8. /\ Ends(s, {"execute", "plan", "review"}, {})
      /\ Ends(s, {"derived", "mirror_wiki"}, Trailing)
  BY <1>1, <1>4 DEF Ends
<1>9. /\ Follows(s, Swapped, "store") /\ Follows(s, Swapped, "review")
      /\ Follows(s, {"evaluation"}, "summarize") /\ Follows(s, {"summarize"}, "baseline")
  BY <1>1, <1>4 DEF Follows, Swapped
<1>10. Shape(s)
  BY <1>5, <1>6, <1>7, <1>8, <1>9 DEF Shape, Within
<1> QED BY <1>1, <1>2, <1>3, <1>4, <1>5, <1>10 DEF w, m

LEMMA EvaluationShape ==
  ASSUME NEW e \in Evaluated
  PROVE  LET todo == <<Write("evaluation", e)>> \o Steps(<<"summarize", "baseline">>)
         IN /\ todo \in Seq(Writes) /\ Shape(todo) /\ todo # <<>>
            /\ Names(todo) = {"evaluation", "summarize", "baseline"}
            /\ Head(todo).step = "evaluation"
<1> DEFINE w == Write("evaluation", e)  v == Write("summarize", None)  x == Write("baseline", None)
           m == <<"summarize", "baseline">>  s == <<w, v, x>>
<1>1. /\ w \in Writes /\ v \in Writes /\ x \in Writes
      /\ w.step = "evaluation" /\ v.step = "summarize" /\ x.step = "baseline"
  BY DEF Write, Writes, Plain
<1>2. Steps(m) = <<v, x>>
  <2>1. DOMAIN m = 1 .. 2 /\ m[1] = "summarize" /\ m[2] = "baseline"
    OBVIOUS
  <2>2. Steps(m) = [k \in 1 .. 2 |-> IF k = 1 THEN v ELSE x]
    BY <2>1 DEF Steps
  <2> QED BY <2>2
<1> HIDE DEF w, v, x
<1>3. <<w>> \o <<v, x>> = s
  <2>1. Len(<<w>> \o <<v, x>>) = 3 /\ <<w>> \o <<v, x>> \in Seq(Writes)
    BY <1>1
  <2>2. /\ (<<w>> \o <<v, x>>)[1] = w /\ (<<w>> \o <<v, x>>)[2] = v
        /\ (<<w>> \o <<v, x>>)[3] = x
    BY <1>1
  <2>3. s \in Seq(Writes) /\ Len(s) = 3 /\ s[1] = w /\ s[2] = v /\ s[3] = x
    BY <1>1
  <2> HIDE DEF s
  <2>4. \A i \in 1 .. 3 : (<<w>> \o <<v, x>>)[i] = s[i]
    BY <2>2, <2>3
  <2> QED BY <2>1, <2>3, <2>4, SameElements
<1>4. /\ s \in Seq(Writes) /\ DOMAIN s = {1, 2, 3} /\ s[1] = w /\ s[2] = v /\ s[3] = x
      /\ s # <<>> /\ Head(s) = w
  BY <1>1
<1> HIDE DEF s
<1>5. Names(s) = {"evaluation", "summarize", "baseline"}
  BY <1>1, <1>4 DEF Names
<1>6. WikiFollowed(s) /\ RecordsRead(s)
  BY <1>1, <1>4 DEF WikiFollowed, RecordsRead
<1>7. /\ Ends(s, {"execute", "plan", "review"}, {})
      /\ Ends(s, {"derived", "mirror_wiki"}, Trailing)
  BY <1>1, <1>4 DEF Ends
<1>8. /\ Follows(s, Swapped, "store") /\ Follows(s, Swapped, "review")
      /\ Follows(s, {"evaluation"}, "summarize") /\ Follows(s, {"summarize"}, "baseline")
  BY <1>1, <1>4 DEF Follows, Swapped
<1>9. Shape(s)
  BY <1>5, <1>6, <1>7, <1>8 DEF Shape, Within
<1> QED BY <1>1, <1>2, <1>3, <1>4, <1>5, <1>9 DEF w, m

-----------------------------------------------------------------------------
(* What the writes of a command log and record *)

(* What a step logs as promoted and records, and the steps still to come.  *)
Logged(w) == IF Promotes(w) THEN {w.of.object} ELSE {}
Booked(w) == IF w.step = "record" THEN {w.of.id} ELSE {}
RecordsIn(todo) == {todo[k].of.id : k \in {k \in DOMAIN todo : todo[k].step = "record"}}
Once(todo) ==
  \A k, l \in DOMAIN todo :
    Promotes(todo[k]) /\ Promotes(todo[l]) /\ todo[k].of.object = todo[l].of.object => k = l

LEMMA PromotedMembers ==
  ASSUME NEW todo
  PROVE  /\ \A e : e \in PromotedIn(todo) <=>
                     \E j \in DOMAIN todo : Promotes(todo[j]) /\ todo[j].of.object = e
         /\ \A e : e \in RecordsIn(todo) <=>
                     \E j \in DOMAIN todo : todo[j].step = "record" /\ todo[j].of.id = e
         /\ \A n : n \in Names(todo) <=> \E j \in DOMAIN todo : todo[j].step = n
  BY DEF PromotedIn, RecordsIn, Names

LEMMA HeadAndTail ==
  ASSUME NEW todo \in Seq(Writes), todo # <<>>
  PROVE  /\ PromotedIn(todo) = Logged(Head(todo)) \cup PromotedIn(Tail(todo))
         /\ RecordsIn(todo) = Booked(Head(todo)) \cup RecordsIn(Tail(todo))
         /\ Names(todo) = {Head(todo).step} \cup Names(Tail(todo))
         /\ Once(todo) => Once(Tail(todo)) /\ Logged(Head(todo)) \cap PromotedIn(Tail(todo)) = {}
<1> DEFINE t == Tail(todo)
<1>1. /\ \A i \in DOMAIN t : i \in Nat \ {0} /\ i + 1 \in DOMAIN todo /\ t[i] = todo[i + 1]
      /\ \A j \in DOMAIN todo : j \in Nat /\ (j > 1 => j - 1 \in DOMAIN t /\ t[j - 1] = todo[j])
  BY TailPlaces
<1>2. 1 \in DOMAIN todo /\ Head(todo) = todo[1] /\ \A j \in DOMAIN todo : j = 1 \/ j > 1
  BY TailElements
<1> HIDE DEF t
<1>3. PromotedIn(todo) = Logged(Head(todo)) \cup PromotedIn(t)
  <2>1. ASSUME NEW e \in PromotedIn(todo) PROVE e \in Logged(Head(todo)) \cup PromotedIn(t)
    <3>1. PICK j \in DOMAIN todo : Promotes(todo[j]) /\ todo[j].of.object = e
      BY <2>1, PromotedMembers
    <3>2. CASE j = 1
      BY <1>2, <3>1, <3>2 DEF Logged
    <3>3. CASE j > 1
      BY <1>1, <3>1, <3>3, PromotedMembers
    <3> QED BY <1>2, <3>2, <3>3
  <2>2. ASSUME NEW e \in PromotedIn(t) PROVE e \in PromotedIn(todo)
    BY <1>1, PromotedMembers
  <2>3. Logged(Head(todo)) \subseteq PromotedIn(todo)
    BY <1>2, PromotedMembers DEF Logged
  <2> QED BY <2>1, <2>2, <2>3
<1>4. RecordsIn(todo) = Booked(Head(todo)) \cup RecordsIn(t)
  <2>1. ASSUME NEW e \in RecordsIn(todo) PROVE e \in Booked(Head(todo)) \cup RecordsIn(t)
    <3>1. PICK j \in DOMAIN todo : todo[j].step = "record" /\ todo[j].of.id = e
      BY <2>1, PromotedMembers
    <3>2. CASE j = 1
      BY <1>2, <3>1, <3>2 DEF Booked
    <3>3. CASE j > 1
      BY <1>1, <3>1, <3>3, PromotedMembers
    <3> QED BY <1>2, <3>2, <3>3
  <2>2. ASSUME NEW e \in RecordsIn(t) PROVE e \in RecordsIn(todo)
    BY <1>1, PromotedMembers
  <2>3. Booked(Head(todo)) \subseteq RecordsIn(todo)
    BY <1>2, PromotedMembers DEF Booked
  <2> QED BY <2>1, <2>2, <2>3
<1>5. Names(todo) = {Head(todo).step} \cup Names(t)
  <2>1. ASSUME NEW e \in Names(todo) PROVE e \in {Head(todo).step} \cup Names(t)
    <3>1. PICK j \in DOMAIN todo : todo[j].step = e
      BY <2>1, PromotedMembers
    <3>2. CASE j = 1
      BY <1>2, <3>1, <3>2
    <3>3. CASE j > 1
      BY <1>1, <3>1, <3>3, PromotedMembers
    <3> QED BY <1>2, <3>2, <3>3
  <2>2. ASSUME NEW e \in Names(t) PROVE e \in Names(todo)
    BY <1>1, PromotedMembers
  <2>3. Head(todo).step \in Names(todo)
    BY <1>2, PromotedMembers
  <2> QED BY <2>1, <2>2, <2>3
<1>6. ASSUME Once(todo)
      PROVE  Once(t) /\ Logged(Head(todo)) \cap PromotedIn(t) = {}
  <2>1. Once(t)
    <3> SUFFICES ASSUME NEW k \in DOMAIN t, NEW l \in DOMAIN t, Promotes(t[k]), Promotes(t[l]),
                        t[k].of.object = t[l].of.object
                 PROVE  k = l
      BY DEF Once
    <3>1. k + 1 = l + 1
      BY <1>1, <1>6 DEF Once
    <3> QED BY <1>1, <3>1
  <2>2. ASSUME NEW e, e \in Logged(Head(todo)), e \in PromotedIn(t) PROVE FALSE
    <3>1. Promotes(todo[1]) /\ todo[1].of.object = e
      BY <1>2, <2>2 DEF Logged
    <3>2. PICK j \in DOMAIN t : Promotes(t[j]) /\ t[j].of.object = e
      BY <2>2, PromotedMembers
    <3>3. 1 = j + 1
      BY <1>1, <1>2, <1>6, <3>1, <3>2 DEF Once
    <3> QED BY <1>1, <3>3
  <2> QED BY <2>1, <2>2
<1> QED BY <1>3, <1>4, <1>5, <1>6 DEF t

LEMMA InJoined ==
  ASSUME NEW s \in Seq(Writes), NEW t \in Seq(Writes)
  PROVE  /\ PromotedIn(s \o t) = PromotedIn(s) \cup PromotedIn(t)
         /\ RecordsIn(s \o t) = RecordsIn(s) \cup RecordsIn(t)
         /\ Once(s) /\ Once(t) /\ PromotedIn(s) \cap PromotedIn(t) = {} => Once(s \o t)
<1> DEFINE u == s \o t
<1>1. /\ \A i \in DOMAIN u : \/ i \in DOMAIN s /\ u[i] = s[i]
                             \/ i > Len(s) /\ i - Len(s) \in DOMAIN t /\ u[i] = t[i - Len(s)]
      /\ \A i \in DOMAIN s : i \in DOMAIN u /\ u[i] = s[i]
      /\ \A i \in DOMAIN u : i \in Nat \ {0}
      /\ Len(s) \in Nat
  BY JoinPlaces
<1>2. \A j \in DOMAIN t : j + Len(s) \in DOMAIN u /\ u[j + Len(s)] = t[j]
  OBVIOUS
<1> HIDE DEF u
<1>3. PromotedIn(u) = PromotedIn(s) \cup PromotedIn(t)
  <2>1. ASSUME NEW e \in PromotedIn(u) PROVE e \in PromotedIn(s) \cup PromotedIn(t)
    <3>1. PICK j \in DOMAIN u : Promotes(u[j]) /\ u[j].of.object = e
      BY <2>1, PromotedMembers
    <3> QED BY <1>1, <3>1, PromotedMembers
  <2>2. ASSUME NEW e \in PromotedIn(s) PROVE e \in PromotedIn(u)
    BY <1>1, PromotedMembers
  <2>3. ASSUME NEW e \in PromotedIn(t) PROVE e \in PromotedIn(u)
    BY <1>2, PromotedMembers
  <2> QED BY <2>1, <2>2, <2>3
<1>4. RecordsIn(u) = RecordsIn(s) \cup RecordsIn(t)
  <2>1. ASSUME NEW e \in RecordsIn(u) PROVE e \in RecordsIn(s) \cup RecordsIn(t)
    <3>1. PICK j \in DOMAIN u : u[j].step = "record" /\ u[j].of.id = e
      BY <2>1, PromotedMembers
    <3> QED BY <1>1, <3>1, PromotedMembers
  <2>2. ASSUME NEW e \in RecordsIn(s) PROVE e \in RecordsIn(u)
    BY <1>1, PromotedMembers
  <2>3. ASSUME NEW e \in RecordsIn(t) PROVE e \in RecordsIn(u)
    BY <1>2, PromotedMembers
  <2> QED BY <2>1, <2>2, <2>3
<1>5. ASSUME Once(s), Once(t), PromotedIn(s) \cap PromotedIn(t) = {}
      PROVE  Once(u)
  <2> SUFFICES ASSUME NEW k \in DOMAIN u, NEW l \in DOMAIN u, Promotes(u[k]), Promotes(u[l]),
                      u[k].of.object = u[l].of.object
               PROVE  k = l
    BY DEF Once
  <2> DEFINE e == u[k].of.object
  <2>1. CASE k \in DOMAIN s /\ u[k] = s[k] /\ l \in DOMAIN s /\ u[l] = s[l]
    BY <1>5, <2>1 DEF Once
  <2>2. CASE k - Len(s) \in DOMAIN t /\ u[k] = t[k - Len(s)] /\ l - Len(s) \in DOMAIN t
             /\ u[l] = t[l - Len(s)]
    <3>1. k - Len(s) = l - Len(s)
      BY <1>5, <2>2 DEF Once
    <3> QED BY <1>1, <3>1
  <2>3. CASE k \in DOMAIN s /\ u[k] = s[k] /\ l - Len(s) \in DOMAIN t /\ u[l] = t[l - Len(s)]
    <3>1. e \in PromotedIn(s) /\ e \in PromotedIn(t)
      BY <2>3, PromotedMembers
    <3> QED BY <1>5, <3>1
  <2>4. CASE l \in DOMAIN s /\ u[l] = s[l] /\ k - Len(s) \in DOMAIN t /\ u[k] = t[k - Len(s)]
    <3>1. e \in PromotedIn(s) /\ e \in PromotedIn(t)
      BY <2>4, PromotedMembers
    <3> QED BY <1>5, <3>1
  <2> QED BY <1>1, <2>1, <2>2, <2>3, <2>4
<1> QED BY <1>3, <1>4, <1>5 DEF u

LEMMA NoDecision ==
  ASSUME NEW todo
  PROVE  /\ "decision" \notin Names(todo) => PromotedIn(todo) = {} /\ Once(todo)
         /\ "record" \notin Names(todo) => RecordsIn(todo) = {}
<1>1. ASSUME "decision" \notin Names(todo)
      PROVE  PromotedIn(todo) = {} /\ Once(todo)
  <2>1. \A j \in DOMAIN todo : ~Promotes(todo[j])
    BY <1>1, PromotedMembers DEF Promotes
  <2>2. \A e : e \notin PromotedIn(todo)
    BY <2>1, PromotedMembers
  <2> QED BY <2>1, <2>2 DEF Once
<1>2. ASSUME "record" \notin Names(todo)
      PROVE  RecordsIn(todo) = {}
  <2>1. \A e : e \notin RecordsIn(todo)
    BY <1>2, PromotedMembers
  <2> QED BY <2>1
<1> QED BY <1>1, <1>2

LEMMA RecordIn ==
  ASSUME NEW record \in Records
  PROVE  /\ RecordsIn(Record(record)) = {record.id} /\ PromotedIn(Record(record)) = {}
         /\ Once(Record(record)) /\ RecordsRead(Record(record)) /\ Record(record) # <<>>
         /\ Head(Record(record)).step = "read_registry"
<1> DEFINE a == Write("read_registry", record)  b == Write("record", record)  s == <<a, b>>
<1>1. a.step = "read_registry" /\ b.step = "record" /\ b.of = record
  BY DEF Write
<1> HIDE DEF a, b
<1>2. DOMAIN s = {1, 2} /\ s[1] = a /\ s[2] = b /\ s # <<>> /\ Head(s) = a
  OBVIOUS
<1> HIDE DEF s
<1>3. \A e : e \in RecordsIn(s) <=> e = record.id
  BY <1>1, <1>2, PromotedMembers
<1>4. "decision" \notin Names(s)
  BY <1>1, <1>2, PromotedMembers
<1>5. RecordsRead(s)
  BY <1>1, <1>2 DEF RecordsRead
<1>6. s = Record(record)
  BY DEF s, a, b, Record
<1>7. RecordsIn(s) = {record.id}
  BY <1>3
<1> QED BY <1>1, <1>2, <1>4, <1>5, <1>6, <1>7, NoDecision

LEMMA DecisionIn ==
  ASSUME NEW d \in Decision
  PROVE  LET s == <<Write("decision", d)>>
         IN /\ s \in Seq(Writes) /\ Names(s) = {"decision"} /\ RecordsIn(s) = {} /\ Once(s)
            /\ PromotedIn(s) = IF d.type = "promote" /\ d.target = "canonical" THEN {d.object} ELSE {}
            /\ RecordsRead(s) /\ s # <<>> /\ Head(s).step = "decision"
<1> DEFINE w == Write("decision", d)  s == <<w>>
<1>1. w.step = "decision" /\ w.of = d
  BY DEF Write
<1>2. s \in Seq(Writes)
  BY DecisionWrite, UserIsWrites
<1> HIDE DEF w
<1>3. DOMAIN s = {1} /\ s[1] = w /\ s # <<>> /\ Head(s) = w
  OBVIOUS
<1> HIDE DEF s
<1>4. \A n : n \in Names(s) <=> n = "decision"
  BY <1>1, <1>3, PromotedMembers
<1>5. Names(s) = {"decision"}
  BY <1>4
<1>6. RecordsIn(s) = {}
  BY <1>5, NoDecision
<1>7. Once(s)
  BY <1>3 DEF Once
<1>8. \A e : e \in PromotedIn(s) <=> d.type = "promote" /\ d.target = "canonical" /\ e = d.object
  BY <1>1, <1>3, PromotedMembers DEF Promotes
<1>9. PromotedIn(s) = IF d.type = "promote" /\ d.target = "canonical" THEN {d.object} ELSE {}
  BY <1>8
<1>10. RecordsRead(s)
  BY <1>1, <1>3 DEF RecordsRead
<1> QED BY <1>1, <1>2, <1>3, <1>5, <1>6, <1>7, <1>9, <1>10 DEF s, w

(* The writes that apply a batch of records.                               *)
Ids(records) == {records[k].id : k \in DOMAIN records}

LEMMA DecideIn ==
  ASSUME NEW records \in Seq(Records), Distinct(records)
  PROVE  /\ PromotedIn(Decide(records)) = Ids(records) /\ Once(Decide(records))
         /\ Names(Decide(records)) \subseteq {"decision"}
<1> DEFINE a == Decide(records)
<1>1. /\ a \in Seq(Writes) /\ Len(a) = Len(records)
      /\ \A k \in DOMAIN a : /\ k \in DOMAIN records /\ a[k].step = "decision"
                             /\ a[k].of = PromotionDecision(records[k])
  BY DecideWrites
<1> HIDE DEF a
<1>2. DOMAIN a = DOMAIN records
  BY <1>1
<1>3. ASSUME NEW k \in DOMAIN a
      PROVE  Promotes(a[k]) /\ a[k].of.object = records[k].id
  <2> DEFINE d == PromotionDecision(records[k])
  <2>1. d.object = records[k].id /\ d.type = "promote" /\ d.target = "canonical"
    BY DEF PromotionDecision
  <2> HIDE DEF d
  <2>2. a[k].step = "decision" /\ a[k].of = d
    BY <1>1 DEF d
  <2> QED BY <2>1, <2>2 DEF Promotes
<1>4. \A e : e \in PromotedIn(a) <=> \E k \in DOMAIN records : records[k].id = e
  BY <1>2, <1>3, PromotedMembers
<1>5. PromotedIn(a) = Ids(records)
  BY <1>4 DEF Ids
<1>6. Once(a)
  BY <1>2, <1>3 DEF Once, Distinct
<1>7. \A n \in Names(a) : n = "decision"
  BY <1>1, PromotedMembers
<1> QED BY <1>5, <1>6, <1>7 DEF a

LEMMA ApplyIn ==
  ASSUME NEW records \in Seq(Records)
  PROVE  /\ Ids(records) \subseteq RecordsIn(Apply(records))
         /\ Names(Apply(records)) \subseteq RecordSteps
         /\ Apply(records) # <<>> => Head(Apply(records)).step = "read_registry"
<1> DEFINE s == Apply(records)
           at(k) == (k - 1) \div 3 + 1
           m(k) == ((k - 1) % 3) + 1
           name(i) == <<"read_registry", "record", "wiki">>[i]
           n == Len(records)
<1>1. /\ s \in Seq(Writes) /\ Len(s) = 3 * n
      /\ \A k \in DOMAIN s : /\ at(k) \in DOMAIN records /\ s[k].of = records[at(k)]
                             /\ s[k].step = name(m(k)) /\ s[k].step \in RecordSteps
  BY ApplyWrites
<1>2. DOMAIN records = 1 .. n /\ n \in Nat
  OBVIOUS
<1>3. name(2) = "record" /\ name(1) = "read_registry"
  OBVIOUS
<1> HIDE DEF s, name, n
<1>4. DOMAIN s = 1 .. 3 * n /\ 3 * n \in Nat
  BY <1>1, <1>2
<1>5. \A k \in 1 .. n : 3 * k - 1 \in 1 .. 3 * n /\ at(3 * k - 1) = k /\ m(3 * k - 1) = 2
  BY <1>2, Z3
<1>6. m(1) = 1
  BY Z3
<1> HIDE DEF at, m
<1>7. ASSUME NEW k \in DOMAIN records PROVE records[k].id \in RecordsIn(s)
  <2>1. 3 * k - 1 \in DOMAIN s /\ at(3 * k - 1) = k /\ m(3 * k - 1) = 2
    BY <1>2, <1>4, <1>5
  <2>2. s[3 * k - 1].step = "record" /\ s[3 * k - 1].of = records[k]
    BY <1>1, <1>3, <2>1
  <2> QED BY <2>1, <2>2, PromotedMembers
<1>8. Ids(records) \subseteq RecordsIn(s)
  BY <1>7 DEF Ids
<1>9. Names(s) \subseteq RecordSteps
  BY <1>1, PromotedMembers
<1>10. ASSUME s # <<>> PROVE Head(s).step = "read_registry"
  <2>1. Head(s) = s[1] /\ 1 \in DOMAIN s
    BY <1>1, <1>10
  <2> QED BY <1>1, <1>3, <1>6, <2>1
<1> QED BY <1>8, <1>9, <1>10 DEF s

(* The side effects of a round: a plan at the end, and nothing else of it. *)
LEMMA SideEffectShape ==
  ASSUME NEW records \in Seq(Records), Distinct(records)
  PROVE  LET s == _apply_librarian_side_effects(records)
         IN /\ s \in Seq(Writes) /\ Shape(s) /\ s # <<>> /\ Head(s).step # "record"
            /\ "plan" \in Names(s) /\ Names(s) \subseteq {"decision", "plan"} \cup RecordSteps
            /\ PromotedIn(s) = Ids(records) /\ Ids(records) \subseteq RecordsIn(s) /\ Once(s)
<1> DEFINE a == Decide(records)  b == Apply(records)  c == Steps(<<"plan">>)
           ab == a \o b  s == ab \o c
<1>1. /\ a \in Seq(Writes) /\ b \in Seq(Writes) /\ c \in Seq(Writes) /\ Len(c) = 1
      /\ \A k \in DOMAIN a : a[k].step = "decision"
      /\ \A k \in DOMAIN c : c[k].step = "plan"
  BY DecideWrites, ApplyWrites, PlanWrite
<1>2. /\ PromotedIn(a) = Ids(records) /\ Once(a) /\ Names(a) \subseteq {"decision"}
      /\ Ids(records) \subseteq RecordsIn(b) /\ Names(b) \subseteq RecordSteps
      /\ b # <<>> => Head(b).step = "read_registry"
  BY DecideIn, ApplyIn
<1>3. s = _apply_librarian_side_effects(records)
  BY DEF _apply_librarian_side_effects
<1>4. \A k \in DOMAIN s : s[k].step = "record" => k # 1 /\ s[k - 1].step = "read_registry"
  <2> HIDE DEF s
  <2> QED BY <1>3, SideEffectRecords
<1> HIDE DEF a, b, c
<1>5. Names(c) = {"plan"}
  <2>1. 1 \in DOMAIN c
    BY <1>1
  <2>2. \A n : n \in Names(c) <=> n = "plan"
    BY <1>1, <2>1, PromotedMembers
  <2> QED BY <2>2
<1>6. PromotedIn(b) = {} /\ Once(b) /\ PromotedIn(c) = {} /\ Once(c)
  <2>1. "decision" \notin Names(b) /\ "decision" \notin Names(c)
    BY <1>2, <1>5 DEF RecordSteps
  <2> QED BY <2>1, NoDecision
<1>7. /\ ab \in Seq(Writes) /\ Names(ab) = Names(a) \cup Names(b)
      /\ PromotedIn(ab) = PromotedIn(a) \cup PromotedIn(b) /\ Once(ab)
      /\ RecordsIn(ab) = RecordsIn(a) \cup RecordsIn(b)
  BY <1>1, <1>2, <1>6, NamesOf, InJoined
<1> HIDE DEF ab
<1>8. /\ s \in Seq(Writes) /\ Names(s) = Names(ab) \cup Names(c)
      /\ PromotedIn(s) = PromotedIn(ab) \cup PromotedIn(c) /\ Once(s)
      /\ RecordsIn(s) = RecordsIn(ab) \cup RecordsIn(c)
  BY <1>1, <1>6, <1>7, NamesOf, InJoined
<1>9. /\ \A i \in DOMAIN s : \/ i \in DOMAIN ab /\ s[i] = ab[i] /\ i <= Len(ab)
                             \/ i = Len(ab) + 1 /\ s[i].step = "plan"
      /\ Len(ab) + 1 \in DOMAIN s /\ s[Len(ab) + 1].step = "plan" /\ Len(ab) \in Nat
      /\ DOMAIN s = 1 .. Len(ab) + 1
  <2>1. /\ DOMAIN s = 1 .. Len(ab) + 1 /\ Len(ab) \in Nat
        /\ \A i \in DOMAIN s : IF i <= Len(ab) THEN i \in DOMAIN ab /\ s[i] = ab[i]
                               ELSE i - Len(ab) \in DOMAIN c /\ s[i] = c[i - Len(ab)]
    <3>1. /\ s \in Seq(Writes) /\ Len(s) = Len(ab) + Len(c)
          /\ \A i \in DOMAIN s : IF i <= Len(ab) THEN i \in DOMAIN ab /\ s[i] = ab[i]
                               ELSE i - Len(ab) \in DOMAIN c /\ s[i] = c[i - Len(ab)]
      BY <1>1, <1>7, Joined
    <3> HIDE DEF s
    <3> QED BY <1>1, <1>7, <3>1
  <2> HIDE DEF s
  <2> QED BY <1>1, <2>1
<1> HIDE DEF s
<1>10. /\ Names(s) \subseteq {"decision", "plan"} \cup RecordSteps /\ "plan" \in Names(s)
       /\ PromotedIn(s) = Ids(records) /\ Ids(records) \subseteq RecordsIn(s)
  BY <1>2, <1>5, <1>6, <1>7, <1>8
<1>11. \A k \in DOMAIN s : /\ s[k].step \in {"decision", "plan", "read_registry", "record", "wiki"}
                           /\ s[k].step = "plan" => k = Len(ab) + 1
                           /\ s[k].step # "plan" => k <= Len(ab)
  <2>1. "plan" \notin Names(ab)
    BY <1>2, <1>7 DEF RecordSteps
  <2>2. \A k \in DOMAIN ab : ab[k].step # "plan"
    BY <2>1, PromotedMembers
  <2> QED BY <1>9, <1>10, <2>2, PromotedMembers DEF RecordSteps
<1>12. WikiFollowed(s) /\ RecordsRead(s)
  <2>1. \A k \in DOMAIN s : s[k].step = "wiki" => Len(ab) + 1 > k
    BY <1>9, <1>11
  <2> QED BY <1>4, <1>9, <2>1 DEF WikiFollowed, RecordsRead
<1>13. /\ Ends(s, {"execute", "plan", "review"}, {})
       /\ Ends(s, {"derived", "mirror_wiki"}, Trailing)
  BY <1>9, <1>11 DEF Ends
<1>14. /\ Follows(s, Swapped, "store") /\ Follows(s, Swapped, "review")
       /\ Follows(s, {"evaluation"}, "summarize") /\ Follows(s, {"summarize"}, "baseline")
  BY <1>11 DEF Follows, Swapped
<1>15. Shape(s)
  BY <1>10, <1>12, <1>13, <1>14 DEF Shape, Within, RecordSteps
<1>16. s # <<>> /\ Head(s).step # "record"
  <2>1. s # <<>> /\ Head(s) = s[1] /\ 1 \in DOMAIN s
    BY <1>8, <1>9
  <2> QED BY <1>4, <2>1
<1> QED BY <1>3, <1>8, <1>10, <1>15, <1>16

-----------------------------------------------------------------------------
(* What a command has written, and what it still has to *)

Calm == crashes = 0 /\ trouble \subseteq {"refresh"}

CanonIn(list, S) ==
  \A i \in S : list # None /\ i \in DOMAIN list /\ list[i].stage = "canonical"
OneRecordPerKey(reg) == \A i, j \in Active(reg) : reg[i].key = reg[j].key => i = j
DecidedOnce == \A k, l \in Promotions : decisions[k].object = decisions[l].object => k = l

ListWriters == {"state", "mirror_state", "store", "mirror_store", "plan", "review"} \cup Swapped

(* The objects promoted so far and by the command, P and the ones that its *)
(* writes name, are canonical in its list and wherever it has nothing more *)
(* to write; what has no record yet will have one.                         *)
PromoReady(c, P, reg, row, view) ==
  LET Q == P \cup PromotedIn(c.todo)
      N == Names(c.todo)
  IN /\ Q \subseteq DOMAIN reg \cup RecordsIn(c.todo)
     /\ Once(c.todo) /\ PromotedIn(c.todo) \cap P = {}
     /\ N \cap ListWriters # {} => CanonIn(c.list, Q)
     /\ "mirror_wiki" \in N => "wiki" \in N \/ CanonIn(c.list, Q)
     /\ N \cap {"state", "execute", "plan", "review"} = {} => CanonIn(row, Q)
     /\ N \cap {"store", "plan"} = {} => CanonIn(view, Q)
     /\ c.todo # <<>> /\ Head(c.todo).step = "record" => c.seen = reg

(* The baseline is the summary of the log, or will be. *)
SummaryReady(c, records, baseline) ==
  LET N == Names(c.todo)  said == build_canonical_reuse_evaluation_summary(records)
  IN "summarize" \notin N => IF "baseline" \in N THEN c.said = said ELSE baseline = said

LEMMA AfterFacts ==
  ASSUME NEW todo \in Seq(Writes), todo # <<>>, Shape(todo)
  PROVE  LET n == Head(todo).step  t == Tail(todo)
         IN /\ Names(todo) = {n} \cup Names(t) /\ t \in Seq(Writes) /\ Shape(t)
            /\ \A a, B : Within(todo, a, B) /\ a \in Names(todo) => Names(todo) \subseteq B
            /\ n \in Swapped => "store" \in Names(t) /\ "review" \in Names(t)
            /\ n = "evaluation" => "summarize" \in Names(t)
            /\ n = "summarize" => "baseline" \in Names(t)
            /\ n \in {"execute", "plan", "review"} => Names(t) = {}
            /\ n \in {"derived", "mirror_wiki"} => Names(t) \subseteq Trailing
            /\ n = "wiki" /\ "plan" \notin Names(t) =>
                 Head(todo).of = StagedRecord /\ t # <<>> /\ Head(t).step = "mirror_wiki"
            /\ t # <<>> /\ Head(t).step = "record" => n = "read_registry"
            /\ t # <<>> => Head(t).step \in Names(t)
<1> DEFINE n == Head(todo).step  t == Tail(todo)
<1>1. t \in Seq(Writes) /\ Names(todo) = {n} \cup Names(t) /\ Shape(t)
  BY HeadAndTail, ShapeTail, TailElements
<1>2. /\ \A j \in DOMAIN todo : j \in Nat /\ (j > 1 => j - 1 \in DOMAIN t /\ t[j - 1] = todo[j])
      /\ 1 \in DOMAIN todo /\ Head(todo) = todo[1]
      /\ \A i \in DOMAIN t : i \in Nat \ {0} /\ i + 1 \in DOMAIN todo /\ t[i] = todo[i + 1]
      /\ t # <<>> => Head(t) = t[1] /\ 1 \in DOMAIN t
  BY <1>1, TailPlaces, TailElements
<1> HIDE DEF t
<1>3. ASSUME NEW A, NEW b, Follows(todo, A, b), n \in A PROVE b \in Names(t)
  <2>1. PICK j \in DOMAIN todo : j > 1 /\ todo[j].step = b
    BY <1>2, <1>3 DEF Follows
  <2>2. j - 1 \in DOMAIN t /\ t[j - 1].step = b
    BY <1>2, <2>1
  <2> QED BY <2>2, PromotedMembers
<1>4. ASSUME NEW A, NEW B, Ends(todo, A, B), n \in A PROVE Names(t) \subseteq B
  <2> SUFFICES ASSUME NEW m \in Names(t) PROVE m \in B
    OBVIOUS
  <2>1. PICK i \in DOMAIN t : t[i].step = m
    BY PromotedMembers
  <2>2. i + 1 \in DOMAIN todo /\ i + 1 > 1 /\ todo[i + 1].step = m
    BY <1>2, <2>1
  <2> QED BY <1>2, <1>4, <2>2 DEF Ends
<1>5. n \in Swapped => "store" \in Names(t) /\ "review" \in Names(t)
  BY <1>3 DEF Shape
<1>6. (n = "evaluation" => "summarize" \in Names(t)) /\ (n = "summarize" => "baseline" \in Names(t))
  <2>1. Follows(todo, {"evaluation"}, "summarize") /\ Follows(todo, {"summarize"}, "baseline")
    BY DEF Shape
  <2>2. "evaluation" \in {"evaluation"} /\ "summarize" \in {"summarize"}
    OBVIOUS
  <2> QED BY <1>3, <2>1, <2>2
<1>7. n \in {"execute", "plan", "review"} => Names(t) = {}
  <2>1. Ends(todo, {"execute", "plan", "review"}, {})
    BY DEF Shape
  <2> QED BY <1>4, <2>1
<1>8. n \in {"derived", "mirror_wiki"} => Names(t) \subseteq Trailing
  BY <1>4 DEF Shape
<1>9. n = "wiki" /\ "plan" \notin Names(t) =>
        Head(todo).of = StagedRecord /\ t # <<>> /\ Head(t).step = "mirror_wiki"
  <2> SUFFICES ASSUME n = "wiki", "plan" \notin Names(t)
               PROVE  Head(todo).of = StagedRecord /\ t # <<>> /\ Head(t).step = "mirror_wiki"
    OBVIOUS
  <2>1. \/ \E j \in DOMAIN todo : j > 1 /\ todo[j].step = "plan"
        \/ todo[1].of = StagedRecord /\ 1 + 1 \in DOMAIN todo /\ todo[1 + 1].step = "mirror_wiki"
    BY <1>2 DEF Shape, WikiFollowed
  <2>2. ~ \E j \in DOMAIN todo : j > 1 /\ todo[j].step = "plan"
    BY <1>2, PromotedMembers
  <2>3. 1 \in DOMAIN t /\ t[1].step = "mirror_wiki"
    <3>1. (1 + 1) - 1 = 1 /\ 1 + 1 > 1
      OBVIOUS
    <3> QED BY <1>2, <2>1, <2>2, <3>1
  <2>4. t # <<>>
    BY <2>3
  <2> QED BY <1>2, <2>1, <2>2, <2>3, <2>4
<1>10. t # <<>> /\ Head(t).step = "record" => n = "read_registry"
  <2> SUFFICES ASSUME t # <<>>, Head(t).step = "record" PROVE n = "read_registry"
    OBVIOUS
  <2>1. 1 + 1 \in DOMAIN todo /\ todo[1 + 1].step = "record"
    BY <1>2
  <2>2. 1 + 1 # 1 /\ (1 + 1) - 1 = 1
    OBVIOUS
  <2> QED BY <1>2, <2>1, <2>2 DEF Shape, RecordsRead
<1>11. t # <<>> => Head(t).step \in Names(t)
  BY <1>2, PromotedMembers
<1>12. \A a, B : Within(todo, a, B) /\ a \in Names(todo) => Names(todo) \subseteq B
  BY DEF Within
<1> QED BY <1>1, <1>5, <1>6, <1>7, <1>8, <1>9, <1>10, <1>11, <1>12 DEF t

(* Nothing is canonical in no list.                                        *)
LEMMA CanonEmpty ==
  ASSUME NEW S
  PROVE  /\ CanonIn(None, S) => S = {}
         /\ CanonIn(Nothing, S) => S = {}
         /\ S = {} => \A list : CanonIn(list, S)
<1>1. DOMAIN Nothing = {}
  BY DEF Nothing
<1> QED BY <1>1 DEF CanonIn

(* What a write changes of all this. *)
PromoStep(c, c1, n, P, reg, row, view, P1, reg1, row1, view1) ==
  /\ c.todo \in Seq(Writes) /\ c.todo # <<>> /\ Shape(c.todo) /\ c1.todo = Tail(c.todo)
  /\ n = Head(c.todo).step /\ n \notin {"execute", "plan", "review"}
  /\ P1 = P \cup Logged(Head(c.todo))
  /\ DOMAIN reg1 = DOMAIN reg \cup Booked(Head(c.todo))
  /\ n = "read_registry" /\ c1.todo # <<>> => c1.seen = reg1
  /\ c1.todo # <<>> =>
       c1.list = IF n = "wiki" /\ Head(c1.todo).step = "mirror_wiki" THEN view1 ELSE c.list
  /\ n = "state" => row1 = c.list \/ c.list = None
  /\ n \in {"mirror_state", "swap_state"} => row1 \in {row, c.list}
  /\ n \notin {"state", "mirror_state", "swap_state"} => row1 = row
  /\ n = "store" => view1 = c.list \/ c.list = Nothing
  /\ n \in {"mirror_store", "mirror_wiki", "swap_knowledge"} => view1 \in {view, c.list}
  /\ n = "wiki" => \A S : CanonIn(view, S) => CanonIn(view1, S)
  /\ n \notin {"store", "mirror_store", "mirror_wiki", "swap_knowledge", "wiki"} => view1 = view

LEMMA PromoAfter ==
  ASSUME NEW c, NEW c1, NEW n, NEW P, NEW reg, NEW row, NEW view, NEW P1, NEW reg1, NEW row1,
         NEW view1, PromoStep(c, c1, n, P, reg, row, view, P1, reg1, row1, view1),
         PromoReady(c, P, reg, row, view)
  PROVE  PromoReady(c1, P1, reg1, row1, view1)
<1> USE DEF PromoStep
<1> DEFINE Q == P \cup PromotedIn(c.todo)
           Q1 == P1 \cup PromotedIn(c1.todo)
           N == Names(c.todo)
           N1 == Names(c1.todo)
<1>1. /\ N = {n} \cup N1 /\ c1.todo \in Seq(Writes)
      /\ n \in Swapped => "store" \in N1 /\ "review" \in N1
      /\ n = "mirror_wiki" => N1 \subseteq Trailing
      /\ n = "wiki" /\ "plan" \notin N1 => c1.todo # <<>> /\ Head(c1.todo).step = "mirror_wiki"
      /\ c1.todo # <<>> /\ Head(c1.todo).step = "record" => n = "read_registry"
      /\ c1.todo # <<>> => Head(c1.todo).step \in N1
  BY AfterFacts
<1>2. "mirror_wiki" \in N => N \subseteq {"wiki", "mirror_wiki"} \cup Trailing
  BY DEF Shape, Within
<1>3. /\ PromotedIn(c.todo) = Logged(Head(c.todo)) \cup PromotedIn(c1.todo)
      /\ RecordsIn(c.todo) = Booked(Head(c.todo)) \cup RecordsIn(c1.todo)
      /\ Once(c.todo) => Once(c1.todo) /\ Logged(Head(c.todo)) \cap PromotedIn(c1.todo) = {}
  BY HeadAndTail
<1>4. /\ Q \subseteq DOMAIN reg \cup RecordsIn(c.todo)
      /\ Once(c.todo) /\ PromotedIn(c.todo) \cap P = {}
      /\ N \cap ListWriters # {} => CanonIn(c.list, Q)
      /\ "mirror_wiki" \in N => "wiki" \in N \/ CanonIn(c.list, Q)
      /\ N \cap {"state", "execute", "plan", "review"} = {} => CanonIn(row, Q)
      /\ N \cap {"store", "plan"} = {} => CanonIn(view, Q)
  BY DEF PromoReady
<1>5. Q1 = Q
  BY <1>3
<1>6. Q1 \subseteq DOMAIN reg1 \cup RecordsIn(c1.todo)
  BY <1>3, <1>4, <1>5
<1>7. Once(c1.todo) /\ PromotedIn(c1.todo) \cap P1 = {}
  BY <1>3, <1>4
<1> HIDE DEF Q, Q1, N, N1
<1>8. N1 # {} => c1.todo # <<>>
  BY DEF N1, Names
<1>9. ASSUME N1 \cap ListWriters # {} PROVE CanonIn(c1.list, Q)
  <2>1. CanonIn(c.list, Q) /\ c1.todo # <<>>
    BY <1>1, <1>4, <1>8, <1>9
  <2>2. "mirror_wiki" \notin N
    BY <1>1, <1>2, <1>9 DEF ListWriters, Swapped, Trailing
  <2>3. Head(c1.todo).step # "mirror_wiki"
    BY <1>1, <2>1, <2>2
  <2> QED BY <2>1, <2>3
<1>10. ASSUME "mirror_wiki" \in N1 PROVE "wiki" \in N1 \/ CanonIn(c1.list, Q)
  <2>1. c1.todo # <<>> /\ "mirror_wiki" \in N
    BY <1>1, <1>8, <1>10
  <2>2. N \cap {"store", "plan"} = {}
    BY <1>2, <2>1 DEF Trailing
  <2>3. CASE n = "wiki"
    <3>1. c1.list = view1
      BY <1>1, <2>1, <2>2, <2>3
    <3> QED BY <1>4, <2>2, <2>3, <3>1
  <2>4. CASE n # "wiki"
    BY <1>1, <1>4, <2>1, <2>4
  <2> QED BY <2>3, <2>4
<1>11. ASSUME N1 \cap {"state", "execute", "plan", "review"} = {} PROVE CanonIn(row1, Q)
  <2>1. CASE n = "state"
    <3>1. CanonIn(c.list, Q)
      BY <1>1, <1>4, <2>1 DEF ListWriters
    <3> QED BY <2>1, <3>1, CanonEmpty
  <2>2. CASE n \in {"mirror_state", "swap_state"}
    <3>1. n # "swap_state"
      BY <1>1, <1>11 DEF Swapped
    <3>2. CanonIn(c.list, Q)
      BY <1>1, <1>4, <2>2 DEF ListWriters, Swapped
    <3>3. CanonIn(row, Q)
      BY <1>1, <1>4, <1>11, <2>2, <3>1
    <3> QED BY <2>2, <3>2, <3>3
  <2>3. CASE n \notin {"state", "mirror_state", "swap_state"}
    BY <1>1, <1>4, <1>11, <2>3
  <2> QED BY <2>1, <2>2, <2>3
<1>12. ASSUME N1 \cap {"store", "plan"} = {} PROVE CanonIn(view1, Q)
  <2>1. CASE n = "store"
    <3>1. CanonIn(c.list, Q)
      BY <1>1, <1>4, <2>1 DEF ListWriters
    <3> QED BY <2>1, <3>1, CanonEmpty
  <2>2. CASE n # "store"
    <3>1. CanonIn(view, Q)
      BY <1>1, <1>4, <1>12, <2>2
    <3>2. CASE n = "mirror_store"
      <4>1. CanonIn(c.list, Q)
        BY <1>1, <1>4, <3>2 DEF ListWriters
      <4> QED BY <3>1, <3>2, <4>1
    <3>3. CASE n = "swap_knowledge"
      BY <1>1, <1>12, <3>3 DEF Swapped
    <3>4. CASE n = "mirror_wiki"
      <4>1. "wiki" \notin N
        BY <1>1, <3>4 DEF Trailing
      <4>2. CanonIn(c.list, Q)
        BY <1>1, <1>4, <3>4, <4>1
      <4> QED BY <3>1, <3>4, <4>2
    <3> QED BY <2>2, <3>1, <3>2, <3>3, <3>4
  <2> QED BY <2>1, <2>2
<1>13. c1.todo # <<>> /\ Head(c1.todo).step = "record" => c1.seen = reg1
  BY <1>1
<1> QED BY <1>5, <1>6, <1>7, <1>9, <1>10, <1>11, <1>12, <1>13 DEF PromoReady, Q, Q1, N, N1

LEMMA SummaryAfter ==
  ASSUME NEW c, c.todo \in Seq(Writes), c.todo # <<>>, Shape(c.todo),
         NEW c1, c1.todo = Tail(c.todo), NEW n, n = Head(c.todo).step,
         NEW records, NEW baseline, SummaryReady(c, records, baseline),
         NEW records1, NEW baseline1,
         n = "evaluation" \/ records1 = records,
         c1.todo # <<>> =>
           c1.said = IF n = "summarize" THEN build_canonical_reuse_evaluation_summary(records)
                     ELSE c.said,
         baseline1 = IF n = "baseline" THEN c.said ELSE baseline
  PROVE  SummaryReady(c1, records1, baseline1)
<1> DEFINE said(r) == build_canonical_reuse_evaluation_summary(r)
           N == Names(c.todo)  N1 == Names(c1.todo)
<1>1. /\ N = {n} \cup N1 /\ (n = "evaluation" => "summarize" \in N1)
      /\ n = "summarize" => "baseline" \in N1
  BY AfterFacts
<1>2. "summarize" \notin N => IF "baseline" \in N THEN c.said = said(records)
                              ELSE baseline = said(records)
  BY DEF SummaryReady
<1>3. N1 # {} => c1.todo # <<>>
  BY DEF Names
<1> HIDE DEF said, N, N1
<1>4. ASSUME "summarize" \notin N1
      PROVE  IF "baseline" \in N1 THEN c1.said = said(records1) ELSE baseline1 = said(records1)
  <2>1. records1 = records
    BY <1>1, <1>4
  <2>2. CASE n = "summarize"
    <3>1. c1.said = said(records)
      BY <1>1, <1>3, <2>2 DEF said
    <3> QED BY <1>1, <2>1, <2>2, <3>1
  <2>3. CASE n # "summarize"
    <3>1. "summarize" \notin N
      BY <1>1, <1>4, <2>3
    <3> QED BY <1>1, <1>2, <1>3, <2>1, <2>3, <3>1
  <2> QED BY <2>2, <2>3
<1> QED BY <1>4 DEF SummaryReady, said, N, N1

(* The entry of a staged candidate is canonical and not for reuse, wherever*)
(* it is.                                                                  *)
Zero(list) == list # None /\ 0 \in DOMAIN list => list[0].stage = "canonical" /\ ~list[0].reuse
ZeroReady(c, row, file, entries, mirror) ==
  Zero(row) /\ Zero(file) /\ Zero(entries) /\ Zero(mirror) /\ Zero(c.list)

(* The files that the librarian swaps in hold its list. *)
Planned(c) ==
  Names(c.todo) \cap Swapped # {} =>
    /\ c.planned.knowledge = c.list /\ c.planned.state = c.list
    /\ c.planned.derived.index = build_knowledge_index(c.list)

(* The index tells what the view holds, unless it is still to be written:  *)
(* then the store and its mirror get the list that the index will tell of. *)
IndexReady(c, index, entries, mirror) ==
  LET N == Names(c.todo)
      view == IF entries # Nothing THEN entries ELSE mirror
  IN /\ "derived" \in N => /\ "store" \in N \/ entries = c.list
                           /\ "mirror_store" \in N \/ mirror = c.list
     /\ "review" \in N => /\ "store" \in N \/ entries = c.list
                          /\ "swap_knowledge" \in N \/ mirror = c.list
                          /\ "swap_derived" \in N \/ index = build_knowledge_index(c.list)
     /\ N \cap {"plan", "derived", "review"} = {} =>
          /\ index = build_knowledge_index(view)
          /\ N \cap ({"mirror_store"} \cup Swapped) = {}
          /\ "store" \in N => Tail(c.todo) = <<>> /\ entries = Nothing /\ c.list = mirror
          /\ "mirror_wiki" \in N => "wiki" \in N \/ entries # Nothing

LEMMA ZeroOf == /\ Zero(None) /\ Zero(Nothing)
                /\ \A list : list # None /\ 0 \notin DOMAIN list => Zero(list)
<1>1. DOMAIN Nothing = {}
  BY DEF Nothing
<1> HIDE DEF Nothing
<1> QED BY <1>1 DEF Zero

(* The entry that a record gets is canonical and not for reuse.            *)
LEMMA MergedEntry ==
  ASSUME NEW view \in Lists, NEW record \in Records
  PROVE  LET entry == build_wiki_entry_from_canonical_record(record)
             new == _merge_task_knowledge_views(view, record.id, entry)
         IN /\ new \in Lists /\ new # Nothing
            /\ DOMAIN new = DOMAIN view \cup {record.id}
            /\ new[record.id].stage = "canonical" /\ new[record.id].reuse = FALSE
            /\ \A j \in DOMAIN view \ {record.id} : new[j] = view[j]
<1> DEFINE entry == build_wiki_entry_from_canonical_record(record)
           new == _merge_task_knowledge_views(view, record.id, entry)
<1>1. entry \in KnowledgeObject /\ record.id \in Nat /\ entry.stage = "canonical" /\ entry.reuse = FALSE
  <2>1. entry \in KnowledgeObject
    BY WikiEntryType
  <2>2. entry.stage = "canonical" /\ entry.reuse = FALSE
    BY DEF build_wiki_entry_from_canonical_record
  <2> QED BY <2>1, <2>2 DEF Records
<1> HIDE DEF entry
<1>2. new \in Lists
  BY <1>1, MergedIsList
<1>3. DOMAIN new = DOMAIN view \cup {record.id} /\ new[record.id] = entry
      /\ \A j \in DOMAIN view \ {record.id} : new[j] = view[j]
  BY DEF _merge_task_knowledge_views
<1> HIDE DEF new
<1>4. new # Nothing
  BY <1>3, NothingIsList
<1> QED BY <1>1, <1>2, <1>3, <1>4 DEF new, entry

LEMMA MergedCanon ==
  ASSUME None \notin Lists, NEW view \in Lists, NEW record \in Records, NEW new \in Lists,
         new = _merge_task_knowledge_views(view, record.id,
                 build_wiki_entry_from_canonical_record(record))
  PROVE  /\ \A S : CanonIn(view, S) => CanonIn(new, S)
         /\ Zero(view) => Zero(new)
<1>1. /\ DOMAIN new = DOMAIN view \cup {record.id}
      /\ new[record.id].stage = "canonical" /\ new[record.id].reuse = FALSE
      /\ \A j \in DOMAIN view \ {record.id} : new[j] = view[j]
      /\ new # Nothing
  BY MergedEntry
<1>2. \A S : CanonIn(view, S) => CanonIn(new, S)
  BY <1>1 DEF CanonIn
<1>3. Zero(view) => Zero(new)
  BY <1>1 DEF Zero
<1> QED BY <1>2, <1>3

(* The index does not tell of an entry that is not for reuse.              *)
LEMMA SameIndex ==
  ASSUME NEW list \in Lists, NEW new \in Lists, NEW i, DOMAIN new = DOMAIN list \cup {i},
         new[i].reuse = FALSE, i \in DOMAIN list => ~list[i].reuse,
         \A j \in DOMAIN list \ {i} : new[j] = list[j]
  PROVE  build_knowledge_index(new) = build_knowledge_index(list)
<1> DEFINE reusable(l) == {j \in DOMAIN l : l[j].reuse}
           ready(l) == {j \in reusable(l) : is_retrieval_reuse_ready(l[j])}
           rest(l) == {<<j, invalidation_reason_for(l[j])>> :
                         j \in {j \in reusable(l) : ~is_retrieval_reuse_ready(l[j])}}
<1>1. reusable(new) = reusable(list) /\ \A j \in reusable(list) : new[j] = list[j]
  OBVIOUS
<1> HIDE DEF reusable
<1>2. ready(new) = ready(list) /\ rest(new) = rest(list)
  BY <1>1
<1> HIDE DEF ready, rest
<1>3. \A l : build_knowledge_index(l) = [reusable |-> ready(l), inactive |-> rest(l)]
  BY DEF build_knowledge_index, ready, rest, reusable
<1> QED BY <1>2, <1>3

LEMMA PlannedAfter ==
  ASSUME NEW c, c.todo \in Seq(Writes), c.todo # <<>>, Shape(c.todo), Planned(c),
         NEW c1, c1.todo = Tail(c.todo),
         c1.todo # <<>> => /\ c1.planned = c.planned
                           /\ c1.list = c.list \/ Head(c1.todo).step = "mirror_wiki"
  PROVE  Planned(c1)
<1> SUFFICES ASSUME Names(c1.todo) \cap Swapped # {}
             PROVE  /\ c1.planned.knowledge = c1.list /\ c1.planned.state = c1.list
                    /\ c1.planned.derived.index = build_knowledge_index(c1.list)
  BY DEF Planned
<1>1. /\ Names(c.todo) = {Head(c.todo).step} \cup Names(c1.todo)
      /\ c1.todo # <<>> => Head(c1.todo).step \in Names(c1.todo)
  BY AfterFacts
<1>2. c1.todo # <<>>
  BY DEF Names
<1>3. "mirror_wiki" \notin Names(c.todo)
  <2>1. "mirror_wiki" \in Names(c.todo) =>
          Names(c.todo) \subseteq {"wiki", "mirror_wiki"} \cup Trailing
    BY DEF Shape, Within
  <2> QED BY <1>1, <2>1 DEF Trailing, Swapped
<1>4. c1.list = c.list /\ c1.planned = c.planned
  BY <1>1, <1>2, <1>3
<1> QED BY <1>1, <1>4 DEF Planned

(* What a write changes of the index and of what it tells. *)
IndexStep(c, c1, n, index, entries, mirror, view, index1, entries1, mirror1) ==
  /\ c.todo \in Seq(Writes) /\ c.todo # <<>> /\ Shape(c.todo) /\ Planned(c)
  /\ c1.todo = Tail(c.todo)
  /\ n = Head(c.todo).step /\ n \notin {"execute", "plan", "review"}
  /\ entries \in Lists /\ mirror \in Lists /\ Zero(entries) /\ Zero(mirror)
  /\ view = IF entries # Nothing THEN entries ELSE mirror
  /\ c1.todo # <<>> => c1.list = c.list \/ Head(c1.todo).step = "mirror_wiki"
  /\ n = "store" => entries1 = c.list
  /\ n = "wiki" => /\ Head(c.todo).of \in Records
                   /\ entries1 = _merge_task_knowledge_views(view, Head(c.todo).of.id,
                        build_wiki_entry_from_canonical_record(Head(c.todo).of))
  /\ n \notin {"store", "wiki"} => entries1 = entries
  /\ n = "mirror_store" => mirror1 = c.list
  /\ n = "swap_knowledge" => mirror1 = c.planned.knowledge
  /\ n \notin {"mirror_store", "mirror_wiki", "swap_knowledge"} => mirror1 = mirror
  /\ n = "derived" => index1 = build_knowledge_index(c.list)
  /\ n = "swap_derived" => index1 = c.planned.derived.index
  /\ n \notin {"derived", "swap_derived"} => index1 = index

LEMMA IndexAfter ==
  ASSUME None \notin Lists, NEW c, NEW c1, NEW n, NEW index, NEW entries, NEW mirror, NEW view,
         NEW index1, NEW entries1, NEW mirror1,
         IndexStep(c, c1, n, index, entries, mirror, view, index1, entries1, mirror1),
         IndexReady(c, index, entries, mirror)
  PROVE  IndexReady(c1, index1, entries1, mirror1)
<1> USE DEF IndexStep
<1> DEFINE N == Names(c.todo)  N1 == Names(c1.todo)
           told(l) == build_knowledge_index(l)
           view1 == IF entries1 # Nothing THEN entries1 ELSE mirror1
<1>1. /\ N = {n} \cup N1
      /\ n \in Swapped => "store" \in N1 /\ "review" \in N1
      /\ n \in {"derived", "mirror_wiki"} => N1 \subseteq Trailing
      /\ n = "wiki" /\ "plan" \notin N1 => Head(c.todo).of = StagedRecord
      /\ c1.todo # <<>> => Head(c1.todo).step \in N1
  BY AfterFacts
<1>2. /\ "mirror_wiki" \in N => N \subseteq {"wiki", "mirror_wiki"} \cup Trailing
      /\ "derived" \in N => N \subseteq {"state", "mirror_state", "store", "mirror_store", "derived"}
                                          \cup Trailing
      /\ "review" \in N => N \subseteq {"store", "review"} \cup Swapped
  BY DEF Shape, Within
<1>3. N \cap Swapped # {} => c.planned.knowledge = c.list /\ c.planned.derived.index = told(c.list)
  BY DEF Planned
<1>4. /\ "derived" \in N => /\ "store" \in N \/ entries = c.list
                            /\ "mirror_store" \in N \/ mirror = c.list
      /\ "review" \in N => /\ "store" \in N \/ entries = c.list
                           /\ "swap_knowledge" \in N \/ mirror = c.list
                           /\ "swap_derived" \in N \/ index = told(c.list)
      /\ N \cap {"plan", "derived", "review"} = {} =>
           /\ index = told(view)
           /\ N \cap ({"mirror_store"} \cup Swapped) = {}
           /\ "store" \in N => c1.todo = <<>> /\ entries = Nothing /\ c.list = mirror
           /\ "mirror_wiki" \in N => "wiki" \in N \/ entries # Nothing
  BY DEF IndexReady
<1>5. (N1 # {} => c1.todo # <<>>) /\ (c1.todo = <<>> => N1 = {})
  BY DEF Names
<1> HIDE DEF N, N1, told
<1>6. ASSUME "mirror_wiki" \notin N, c1.todo # <<>> PROVE c1.list = c.list
  BY <1>1, <1>6
<1>7. ASSUME "derived" \in N1
      PROVE  /\ "store" \in N1 \/ entries1 = c1.list
             /\ "mirror_store" \in N1 \/ mirror1 = c1.list
  <2>1. N \subseteq {"state", "mirror_state", "store", "mirror_store", "derived"} \cup Trailing
    BY <1>1, <1>2, <1>7
  <2>2. c1.list = c.list
    BY <1>5, <1>6, <1>7, <2>1 DEF Trailing
  <2>3. n \notin {"wiki", "mirror_wiki", "swap_knowledge"}
    BY <1>1, <2>1 DEF Trailing
  <2> QED BY <1>1, <1>4, <1>7, <2>2, <2>3
<1>8. ASSUME "review" \in N1
      PROVE  /\ "store" \in N1 \/ entries1 = c1.list
             /\ "swap_knowledge" \in N1 \/ mirror1 = c1.list
             /\ "swap_derived" \in N1 \/ index1 = told(c1.list)
  <2>1. N \subseteq {"store", "review"} \cup Swapped
    BY <1>1, <1>2, <1>8
  <2>2. c1.list = c.list
    BY <1>5, <1>6, <1>8, <2>1 DEF Swapped
  <2>3. n \notin {"wiki", "mirror_wiki", "mirror_store", "derived"}
    BY <1>1, <2>1 DEF Swapped
  <2>4. n \in Swapped => c.planned.knowledge = c.list /\ c.planned.derived.index = told(c.list)
    BY <1>1, <1>3
  <2> QED BY <1>1, <1>4, <1>8, <2>2, <2>3, <2>4 DEF Swapped
<1>9. ASSUME N1 \cap {"plan", "derived", "review"} = {}
      PROVE  /\ index1 = told(view1)
             /\ N1 \cap ({"mirror_store"} \cup Swapped) = {}
             /\ "store" \in N1 => Tail(c1.todo) = <<>> /\ entries1 = Nothing /\ c1.list = mirror1
             /\ "mirror_wiki" \in N1 => "wiki" \in N1 \/ entries1 # Nothing
  <2>1. CASE n = "derived"
    <3>1. N1 \subseteq Trailing /\ "derived" \in N
      BY <1>1, <2>1
    <3>2. entries = c.list /\ mirror = c.list
      BY <1>1, <1>4, <2>1, <3>1 DEF Trailing
    <3>3. index1 = told(c.list) /\ entries1 = entries /\ mirror1 = mirror
      BY <2>1 DEF told
    <3>4. view1 = c.list
      BY <3>2, <3>3
    <3> QED BY <3>1, <3>3, <3>4 DEF Trailing, Swapped
  <2>2. CASE n # "derived"
    <3>1. /\ N \cap {"plan", "derived", "review"} = {} /\ index = told(view)
          /\ N \cap ({"mirror_store"} \cup Swapped) = {}
          /\ "store" \in N => c1.todo = <<>> /\ entries = Nothing /\ c.list = mirror
          /\ "mirror_wiki" \in N => "wiki" \in N \/ entries # Nothing
      BY <1>1, <1>4, <1>9, <2>2
    <3>2. n \notin {"mirror_store"} \cup Swapped /\ index1 = index /\ n \in N
          /\ N1 \cap ({"mirror_store"} \cup Swapped) = {} /\ "store" \notin N1
      BY <1>1, <1>5, <2>2, <3>1 DEF Swapped
    <3>3. CASE n = "store"
      <4>1. entries1 = mirror /\ mirror1 = mirror /\ view = mirror /\ N1 = {}
        BY <1>5, <3>1, <3>2, <3>3
      <4>2. view1 = view
        BY <4>1
      <4> QED BY <3>1, <3>2, <4>1, <4>2
    <3>4. CASE n = "mirror_wiki"
      <4>1. "wiki" \notin N /\ N1 \subseteq Trailing
        BY <1>1, <3>4 DEF Trailing
      <4>2. entries # Nothing /\ entries1 = entries
        BY <3>1, <3>2, <3>4, <4>1
      <4>3. view1 = view
        BY <4>2
      <4> QED BY <3>1, <3>2, <4>1, <4>2, <4>3 DEF Trailing
    <3>5. CASE n = "wiki"
      <4> DEFINE r == Head(c.todo).of
      <4>1. r \in Records /\ r.id = 0 /\ mirror1 = mirror
        BY <1>1, <1>9, <3>5 DEF StagedRecord
      <4>2. view \in Lists /\ Zero(view)
        OBVIOUS
      <4>3. /\ entries1 \in Lists /\ entries1 # Nothing /\ DOMAIN entries1 = DOMAIN view \cup {0}
            /\ entries1[0].reuse = FALSE /\ \A j \in DOMAIN view \ {0} : entries1[j] = view[j]
        <5> HIDE DEF r
        <5>1. entries1 = _merge_task_knowledge_views(view, r.id, build_wiki_entry_from_canonical_record(r))
          BY <3>5 DEF r
        <5> QED BY <4>1, <4>2, <5>1, MergedEntry
      <4>4. 0 \in DOMAIN view => ~view[0].reuse
        BY <4>2 DEF Zero
      <4>5. told(entries1) = told(view)
        BY <4>2, <4>3, <4>4, SameIndex DEF told
      <4> QED BY <3>1, <3>2, <4>3, <4>5
    <3>6. CASE n \notin {"store", "mirror_wiki", "wiki"}
      <4>1. entries1 = entries /\ mirror1 = mirror
        BY <3>2, <3>6 DEF Swapped
      <4> QED BY <1>1, <3>1, <3>2, <3>6, <4>1
    <3> QED BY <3>3, <3>4, <3>5, <3>6
  <2> QED BY <2>1, <2>2
<1> QED BY <1>7, <1>8, <1>9 DEF IndexReady, told, N, N1

-----------------------------------------------------------------------------
(* The invariant, and what a write leaves of it *)

(* What the commands so far, with the one in flight, will have left.       *)
Told(p) ==
  /\ Shape(cmd[p].todo) /\ Planned(cmd[p])
  /\ PromoReady(cmd[p], DecidedIds, registry, load_state, load_task_knowledge_view)
  /\ SummaryReady(cmd[p], evaluation.records, evaluation.baseline)
  /\ ZeroReady(cmd[p], state, files.state, store, files.knowledge)
  /\ "refresh" \notin trouble => IndexReady(cmd[p], files.derived.index, store, files.knowledge)
Rested ==
  /\ PromoReady(Idle, DecidedIds, registry, load_state, load_task_knowledge_view)
  /\ SummaryReady(Idle, evaluation.records, evaluation.baseline)
  /\ ZeroReady(Idle, state, files.state, store, files.knowledge)
  /\ "refresh" \notin trouble => IndexReady(Idle, files.derived.index, store, files.knowledge)

TellInv ==
  Calm => /\ DecidedOnce /\ OneRecordPerKey(registry) /\ (AllIdle => Rested)
          /\ \A p \in Procs : busy(p) => Told(p)

LEMMA StepTells ==
  ASSUME TypeInv, AloneInv, Steady, NEW p \in Procs, busy(p), NEW c,
         cmd' = [cmd EXCEPT ![p] = c], c.todo = <<>> => c = Idle,
         DecidedOnce', OneRecordPerKey(registry'), Shape(c.todo), Planned(c),
         PromoReady(c, DecidedIds', registry', load_state', load_task_knowledge_view'),
         SummaryReady(c, evaluation'.records, evaluation'.baseline),
         ZeroReady(c, state', files'.state, store', files'.knowledge),
         "refresh" \notin trouble' =>
           IndexReady(c, files'.derived.index, store', files'.knowledge)
  PROVE  TellInv'
<1>1. cmd'[p] = c /\ \A q \in Procs \ {p} : cmd'[q] = cmd[q]
  BY DEF TypeInv
<1>2. \A q \in Procs \ {p} : cmd[q].todo = <<>>
  BY DEF AloneInv, Alone, busy
<1>3. Told(p)'
  <2>1. /\ Shape(cmd'[p].todo) /\ Planned(cmd'[p])
        /\ PromoReady(cmd'[p], DecidedIds', registry', load_state', load_task_knowledge_view')
        /\ SummaryReady(cmd'[p], evaluation'.records, evaluation'.baseline)
        /\ ZeroReady(cmd'[p], state', files'.state, store', files'.knowledge)
        /\ "refresh" \notin trouble' =>
             IndexReady(cmd'[p], files'.derived.index, store', files'.knowledge)
    BY <1>1
  <2> QED BY <2>1 DEF Told
<1>4. ASSUME NEW q \in Procs, busy(q)' PROVE Told(q)'
  <2>1. q = p
    BY <1>1, <1>2, <1>4 DEF busy
  <2> QED BY <1>3, <2>1
<1>5. ASSUME AllIdle' PROVE Rested'
  <2>1. c = Idle
    BY <1>1, <1>5 DEF AllIdle, busy
  <2>2. /\ PromoReady(Idle, DecidedIds', registry', load_state', load_task_knowledge_view')
        /\ SummaryReady(Idle, evaluation'.records, evaluation'.baseline)
        /\ ZeroReady(Idle, state', files'.state, store', files'.knowledge)
        /\ "refresh" \notin trouble' =>
             IndexReady(Idle, files'.derived.index, store', files'.knowledge)
    BY <2>1
  <2> QED BY <2>2 DEF Rested
<1>6. OneRecordPerKey(registry)'
  OBVIOUS
<1> QED BY <1>4, <1>5, <1>6 DEF TellInv

(* What a step of a command writes, by its name.                           *)
Writing(p, c, n) ==
  LET c0 == cmd[p]  w == Head(c0.todo) IN
  /\ busy(p) /\ n = w.step /\ n \notin {"execute", "plan", "review"}
  /\ c \in InFlight /\ c.todo = c0.todo /\ c.planned = c0.planned /\ proceed(p, c)
  /\ trouble' = trouble
  /\ state' = IF n = "state" THEN c0.list ELSE state
  /\ store' = IF n = "store" THEN c0.list
              ELSE IF n = "wiki"
              THEN _merge_task_knowledge_views(load_task_knowledge_view, w.of.id,
                     build_wiki_entry_from_canonical_record(w.of))
              ELSE store
  /\ files'.state = IF n = "mirror_state" THEN c0.list
                    ELSE IF n = "swap_state" THEN c0.planned.state ELSE files.state
  /\ files'.knowledge = IF n \in {"mirror_store", "mirror_wiki"} THEN c0.list
                        ELSE IF n = "swap_knowledge" THEN c0.planned.knowledge
                        ELSE files.knowledge
  /\ files'.derived.index = IF n = "derived" THEN build_knowledge_index(c0.list)
                            ELSE IF n = "swap_derived" THEN c0.planned.derived.index
                            ELSE files.derived.index
  /\ decisions' = IF n = "decision" THEN Append(decisions, w.of) ELSE decisions
  /\ registry' = IF n = "record" THEN append_canonical_record(c0.seen, w.of) ELSE registry
  /\ n = "evaluation" \/ evaluation'.records = evaluation.records
  /\ evaluation'.baseline = IF n = "baseline" THEN c0.said ELSE evaluation.baseline
  /\ c.list = IF n = "wiki" /\ Head(Tail(c0.todo)).step = "mirror_wiki" THEN store' ELSE c0.list
  /\ n = "read_registry" => c.seen = registry
  /\ c.said = IF n = "summarize" THEN build_canonical_reuse_evaluation_summary(evaluation.records)
              ELSE c0.said

LEMMA DecisionsAfter ==
  ASSUME TypeInv, NEW w \in Writes,
         decisions' = IF w.step = "decision" THEN Append(decisions, w.of) ELSE decisions
  PROVE  /\ DecidedIds' = DecidedIds \cup Logged(w)
         /\ DecidedOnce /\ Logged(w) \cap DecidedIds = {} => DecidedOnce'
<1>1. decisions \in Seq(Decision) /\ (w.step = "decision" => w.of \in Decision)
  <2>1. decisions \in Seq(Decision)
    BY DEF TypeInv, StoresTyped
  <2>2. w.step = "decision" => w.of \in Decision
    BY DEF Writes, RecordSteps, Plain, LibrarianSteps, Swapped
  <2> QED BY <2>1, <2>2
<1>2. CASE w.step # "decision"
  <2>1. decisions' = decisions /\ Logged(w) = {}
    BY <1>2 DEF Logged, Promotes
  <2>2. DecidedIds' = DecidedIds /\ (DecidedOnce => DecidedOnce')
    BY <2>1 DEF DecidedIds, DecidedOnce, Promotions
  <2> QED BY <2>1, <2>2
<1>3. CASE w.step = "decision"
  <2> DEFINE n == Len(decisions) + 1
  <2>1. /\ \A k \in DOMAIN decisions : /\ k \in DOMAIN decisions' /\ decisions'[k] = decisions[k]
                                       /\ k # n
        /\ n \in DOMAIN decisions' /\ decisions'[n] = w.of
        /\ \A k \in DOMAIN decisions' : k = n \/ k \in DOMAIN decisions
    BY <1>1, <1>3
  <2> HIDE DEF n
  <2>2. \A k : k \in Promotions' <=> \/ k \in Promotions
                                     \/ k = n /\ Promotes(w)
    BY <1>3, <2>1 DEF Promotions, Promotes
  <2>3. \A e : e \in DecidedIds' <=> e \in DecidedIds \cup Logged(w)
    <3>1. \A e : e \in DecidedIds' <=> \E k \in Promotions' : decisions'[k].object = e
      BY DEF DecidedIds
    <3>2. \A e : e \in DecidedIds <=> \E k \in Promotions : decisions[k].object = e
      BY DEF DecidedIds
    <3>3. \A k \in Promotions : decisions'[k] = decisions[k]
      BY <2>1 DEF Promotions
    <3>4. ASSUME NEW e, e \in DecidedIds' PROVE e \in DecidedIds \cup Logged(w)
      <4>1. PICK k \in Promotions' : decisions'[k].object = e
        BY <3>1, <3>4
      <4>2. CASE k \in Promotions
        BY <3>2, <3>3, <4>1, <4>2
      <4>3. CASE k = n /\ Promotes(w)
        BY <2>1, <4>1, <4>3 DEF Logged
      <4> QED BY <2>2, <4>2, <4>3
    <3>5. ASSUME NEW e, e \in DecidedIds PROVE e \in DecidedIds'
      <4>1. PICK k \in Promotions : decisions[k].object = e
        BY <3>2, <3>5
      <4> QED BY <2>2, <3>1, <3>3, <4>1
    <3>6. ASSUME NEW e, e \in Logged(w) PROVE e \in DecidedIds'
      <4>1. Promotes(w) /\ e = w.of.object
        BY <3>6 DEF Logged
      <4> QED BY <2>1, <2>2, <3>1, <4>1
    <3> QED BY <3>4, <3>5, <3>6
  <2>4. ASSUME DecidedOnce, Logged(w) \cap DecidedIds = {}
        PROVE  DecidedOnce'
    <3> SUFFICES ASSUME NEW k \in Promotions', NEW l \in Promotions',
                        decisions'[k].object = decisions'[l].object
                 PROVE  k = l
      BY DEF DecidedOnce
    <3>1. \A i \in Promotions : /\ decisions'[i] = decisions[i] /\ decisions[i].object \in DecidedIds
      BY <2>1 DEF Promotions, DecidedIds
    <3>2. CASE k \in Promotions /\ l \in Promotions
      BY <2>4, <3>1, <3>2 DEF DecidedOnce
    <3>3. CASE k = n /\ l = n
      BY <3>3
    <3>4. CASE k \in Promotions /\ l = n /\ Promotes(w)
      BY <2>1, <2>4, <3>1, <3>4 DEF Logged
    <3>5. CASE l \in Promotions /\ k = n /\ Promotes(w)
      BY <2>1, <2>4, <3>1, <3>5 DEF Logged
    <3> QED BY <2>2, <3>2, <3>3, <3>4, <3>5
  <2> QED BY <2>3, <2>4
<1> QED BY <1>2, <1>3

LEMMA AppendKeepsKeys ==
  ASSUME NEW reg \in Registries, NEW r \in Records, OneRecordPerKey(reg)
  PROVE  /\ OneRecordPerKey(append_canonical_record(reg, r))
         /\ DOMAIN append_canonical_record(reg, r) = DOMAIN reg \cup {r.id}
<1> DEFINE new == append_canonical_record(reg, r)
<1>1. /\ DOMAIN new = DOMAIN reg \cup {r.id} /\ new[r.id] = r
      /\ \A i \in DOMAIN reg \ {r.id} :
           new[i] = IF reg[i].key = r.key THEN [reg[i] EXCEPT !.status = "superseded"] ELSE reg[i]
  BY DEF append_canonical_record
<1>2. \A i \in DOMAIN reg : reg[i] \in Records
  BY RegistryType
<1>3. \A s \in Records : [s EXCEPT !.status = "superseded"].status = "superseded"
  BY DEF Records
<1> HIDE DEF new
<1>4. \A i \in Active(new) \ {r.id} : new[i] = reg[i] /\ reg[i].key # r.key /\ i \in Active(reg)
  BY <1>1, <1>2, <1>3 DEF Active
<1>5. OneRecordPerKey(new)
  <2> SUFFICES ASSUME NEW i \in Active(new), NEW j \in Active(new), new[i].key = new[j].key
               PROVE  i = j
    BY DEF OneRecordPerKey
  <2>1. CASE i = r.id
    BY <1>1, <1>4, <2>1
  <2>2. CASE j = r.id
    BY <1>1, <1>4, <2>2
  <2>3. CASE i # r.id /\ j # r.id
    BY <1>4, <2>3 DEF OneRecordPerKey
  <2> QED BY <2>1, <2>2, <2>3
<1> QED BY <1>1, <1>5 DEF new

LEMMA CalmIsSteady == Calm => Steady
  BY DEF Calm, Steady

(* What is loaded after a step. *)
LEMMA LoadedAfter ==
  ASSUME None \notin Lists, TypeInv, NEW p \in Procs, NEW c, NEW n, Writing(p, c, n),
         Planned(cmd[p])
  PROVE  LET c0 == cmd[p]  view == load_task_knowledge_view IN
         /\ n = "state" => load_state' = c0.list
         /\ n \in {"mirror_state", "swap_state"} => load_state' \in {load_state, c0.list}
         /\ n \notin {"state", "mirror_state", "swap_state"} => load_state' = load_state
         /\ n = "store" => load_task_knowledge_view' = c0.list \/ c0.list = Nothing
         /\ n \in {"mirror_store", "mirror_wiki", "swap_knowledge"} =>
              load_task_knowledge_view' \in {view, c0.list}
         /\ n = "wiki" => /\ Head(c0.todo).of \in Records /\ store' \in Lists
                          /\ load_task_knowledge_view' = store'
         /\ n \notin {"store", "mirror_store", "mirror_wiki", "swap_knowledge", "wiki"} =>
              load_task_knowledge_view' = view
         /\ n \in Swapped => c0.planned.knowledge = c0.list /\ c0.planned.state = c0.list
                             /\ c0.planned.derived.index = build_knowledge_index(c0.list)
<1> DEFINE c0 == cmd[p]  view == load_task_knowledge_view
<1>1. /\ c0 \in InFlight /\ c0.todo \in Seq(Writes) /\ c0.todo # <<>> /\ n = Head(c0.todo).step
      /\ n = "wiki" => Head(c0.todo).of \in Records
  BY WrittenType DEF Writing, next, written, RecordSteps
<1>2. c0.list \in Lists /\ view \in Lists
  BY <1>1, ViewIsList DEF TypeInv, InFlight
<1>3. n \in Swapped => c0.planned.knowledge = c0.list /\ c0.planned.state = c0.list
                       /\ c0.planned.derived.index = build_knowledge_index(c0.list)
  <2>1. n \in Names(c0.todo)
    BY <1>1, HeadAndTail
  <2> QED BY <2>1 DEF Planned
<1>4. /\ state' = IF n = "state" THEN c0.list ELSE state
      /\ files'.state = IF n = "mirror_state" THEN c0.list
                        ELSE IF n = "swap_state" THEN c0.planned.state ELSE files.state
  BY DEF Writing
<1>5. /\ n = "store" => store' = c0.list
      /\ n = "wiki" => store' = _merge_task_knowledge_views(view, Head(c0.todo).of.id,
                                  build_wiki_entry_from_canonical_record(Head(c0.todo).of))
      /\ n \notin {"store", "wiki"} => store' = store
      /\ files'.knowledge = IF n \in {"mirror_store", "mirror_wiki"} THEN c0.list
                            ELSE IF n = "swap_knowledge" THEN c0.planned.knowledge
                            ELSE files.knowledge
  BY DEF Writing
<1>6. /\ load_state = IF state # None THEN state ELSE files.state
      /\ load_state' = IF state' # None THEN state' ELSE files'.state
      /\ view = IF store # Nothing THEN store ELSE files.knowledge
      /\ load_task_knowledge_view' = IF store' # Nothing THEN store' ELSE files'.knowledge
  BY DEF load_state, task_exists, load_task_knowledge_view, task_has_knowledge
<1> HIDE DEF c0, view
<1>7. n = "state" => load_state' = c0.list
  BY <1>2, <1>4, <1>6
<1>8. n \in {"mirror_state", "swap_state"} => load_state' \in {load_state, c0.list}
  BY <1>3, <1>4, <1>6 DEF Swapped
<1>9. n \notin {"state", "mirror_state", "swap_state"} => load_state' = load_state
  BY <1>4, <1>6
<1>10. n = "store" => load_task_knowledge_view' = c0.list \/ c0.list = Nothing
  BY <1>5, <1>6
<1>11. n \in {"mirror_store", "mirror_wiki", "swap_knowledge"} =>
         load_task_knowledge_view' \in {view, c0.list}
  BY <1>3, <1>5, <1>6 DEF Swapped
<1>12. n = "wiki" => store' \in Lists /\ load_task_knowledge_view' = store'
  <2>1. n = "wiki" => store' \in Lists /\ store' # Nothing
    BY <1>1, <1>2, <1>5, MergedEntry
  <2>2. store' # Nothing => load_task_knowledge_view' = store'
    BY <1>6
  <2> QED BY <2>1, <2>2
<1>13. n \notin {"store", "mirror_store", "mirror_wiki", "swap_knowledge", "wiki"} =>
         load_task_knowledge_view' = view
  BY <1>5, <1>6
<1> QED BY <1>1, <1>3, <1>7, <1>8, <1>9, <1>10, <1>11, <1>12, <1>13 DEF c0, view

(* A write of a command keeps what commands will have left.                *)
LEMMA WriteTells ==
  ASSUME None \notin Lists, TypeInv, AloneInv, TellInv, Calm, NEW p \in Procs, NEW c, NEW n,
         Writing(p, c, n)
  PROVE  TellInv'
<1> DEFINE c0 == cmd[p]  c1 == After(c)  w == Head(c0.todo)  view == load_task_knowledge_view
<1>1. busy(p) /\ Told(p) /\ DecidedOnce /\ OneRecordPerKey(registry)
  BY DEF Writing, TellInv
<1>2. /\ c0 \in InFlight /\ c0.todo \in Seq(Writes) /\ c0.todo # <<>> /\ w \in Writes
      /\ n = w.step /\ n \notin {"execute", "plan", "review"}
      /\ n \in RecordSteps => w.of \in Records
  BY <1>1, WrittenType DEF Writing, next, written
<1>3. /\ c \in InFlight /\ c.todo = c0.todo /\ c.planned = c0.planned
      /\ cmd' = [cmd EXCEPT ![p] = c1] /\ trouble' = trouble
  BY DEF Writing, proceed, After
<1>4. /\ c1.todo = Tail(c0.todo) /\ (c1.todo = <<>> => c1 = Idle)
      /\ c1.todo # <<>> => c1.list = c.list /\ c1.planned = c0.planned /\ c1.seen = c.seen
                           /\ c1.said = c.said
  BY <1>2, <1>3, AfterType
<1>5. /\ n = "state" => load_state' = c0.list
      /\ n \in {"mirror_state", "swap_state"} => load_state' \in {load_state, c0.list}
      /\ n \notin {"state", "mirror_state", "swap_state"} => load_state' = load_state
      /\ n = "store" => load_task_knowledge_view' = c0.list \/ c0.list = Nothing
      /\ n \in {"mirror_store", "mirror_wiki", "swap_knowledge"} =>
           load_task_knowledge_view' \in {view, c0.list}
      /\ n = "wiki" => store' \in Lists /\ load_task_knowledge_view' = store'
      /\ n \notin {"store", "mirror_store", "mirror_wiki", "swap_knowledge", "wiki"} =>
           load_task_knowledge_view' = view
      /\ n \in Swapped => c0.planned.knowledge = c0.list /\ c0.planned.state = c0.list
                          /\ c0.planned.derived.index = build_knowledge_index(c0.list)
  BY <1>1, LoadedAfter DEF Told
<1>6. /\ Shape(c0.todo) /\ Planned(c0)
      /\ PromoReady(c0, DecidedIds, registry, load_state, view)
      /\ SummaryReady(c0, evaluation.records, evaluation.baseline)
      /\ ZeroReady(c0, state, files.state, store, files.knowledge)
      /\ "refresh" \notin trouble => IndexReady(c0, files.derived.index, store, files.knowledge)
  BY <1>1 DEF Told
<1>7. view \in Lists /\ c0.list \in Lists /\ store \in Lists /\ files.knowledge \in Lists
      /\ registry \in Registries
  BY <1>2, ViewIsList DEF TypeInv, InFlight, StoresTyped, Files
<1>8. view = IF store # Nothing THEN store ELSE files.knowledge
  BY DEF load_task_knowledge_view, task_has_knowledge
<1>9. /\ n = "store" => store' = c0.list
      /\ n = "wiki" => store' = _merge_task_knowledge_views(view, w.of.id,
                                  build_wiki_entry_from_canonical_record(w.of))
      /\ n \notin {"store", "wiki"} => store' = store
      /\ n \in {"mirror_store", "mirror_wiki"} => files'.knowledge = c0.list
      /\ n = "swap_knowledge" => files'.knowledge = c0.planned.knowledge
      /\ n \notin {"mirror_store", "mirror_wiki", "swap_knowledge"} =>
           files'.knowledge = files.knowledge
      /\ n = "state" => state' = c0.list
      /\ n # "state" => state' = state
      /\ n = "mirror_state" => files'.state = c0.list
      /\ n = "swap_state" => files'.state = c0.planned.state
      /\ n \notin {"mirror_state", "swap_state"} => files'.state = files.state
      /\ n = "derived" => files'.derived.index = build_knowledge_index(c0.list)
      /\ n = "swap_derived" => files'.derived.index = c0.planned.derived.index
      /\ n \notin {"derived", "swap_derived"} => files'.derived.index = files.derived.index
  BY DEF Writing
<1>10. /\ decisions' = IF w.step = "decision" THEN Append(decisions, w.of) ELSE decisions
       /\ registry' = IF n = "record" THEN append_canonical_record(c0.seen, w.of) ELSE registry
       /\ n = "evaluation" \/ evaluation'.records = evaluation.records
       /\ evaluation'.baseline = IF n = "baseline" THEN c0.said ELSE evaluation.baseline
       /\ c.list = IF n = "wiki" /\ Head(Tail(c0.todo)).step = "mirror_wiki" THEN store' ELSE c0.list
       /\ n = "read_registry" => c.seen = registry
       /\ c.said = IF n = "summarize"
                   THEN build_canonical_reuse_evaluation_summary(evaluation.records) ELSE c0.said
  BY <1>2 DEF Writing
<1> HIDE DEF c0, c1, w, view
<1>11. DecidedIds' = DecidedIds \cup Logged(w) /\ DecidedOnce'
  <2>1. /\ DecidedIds' = DecidedIds \cup Logged(w)
        /\ DecidedOnce /\ Logged(w) \cap DecidedIds = {} => DecidedOnce'
    BY <1>2, <1>10, DecisionsAfter
  <2>2. PromotedIn(c0.todo) \cap DecidedIds = {} /\ Logged(w) \subseteq PromotedIn(c0.todo)
    BY <1>2, <1>6, HeadAndTail DEF PromoReady, w
  <2> QED BY <1>1, <2>1, <2>2
<1>12. DOMAIN registry' = DOMAIN registry \cup Booked(w) /\ OneRecordPerKey(registry')
  <2>1. CASE n = "record"
    <3>1. c0.seen = registry /\ w.of \in Records
      BY <1>2, <1>6, <2>1 DEF PromoReady, w, RecordSteps
    <3> QED BY <1>1, <1>2, <1>7, <1>10, <2>1, <3>1, AppendKeepsKeys DEF Booked
  <2>2. CASE n # "record"
    BY <1>1, <1>2, <1>10, <2>2 DEF Booked
  <2> QED BY <2>1, <2>2
<1>13. PromoReady(c1, DecidedIds', registry', load_state', load_task_knowledge_view')
  <2>1. n = "wiki" => \A S : CanonIn(view, S) => CanonIn(load_task_knowledge_view', S)
    BY <1>2, <1>5, <1>7, <1>9, MergedCanon DEF RecordSteps
  <2>2. n = "read_registry" /\ c1.todo # <<>> => c1.seen = registry'
    BY <1>4, <1>10
  <2>3. c1.todo # <<>> =>
          c1.list = IF n = "wiki" /\ Head(c1.todo).step = "mirror_wiki"
                    THEN load_task_knowledge_view' ELSE c0.list
    BY <1>4, <1>5, <1>10
  <2>4. /\ n = Head(c0.todo).step /\ DecidedIds' = DecidedIds \cup Logged(Head(c0.todo))
        /\ DOMAIN registry' = DOMAIN registry \cup Booked(Head(c0.todo))
    BY <1>2, <1>11, <1>12 DEF w
  <2> DEFINE P1 == DecidedIds'  reg1 == registry'  row1 == load_state'
             view1 == load_task_knowledge_view'
  <2>5. /\ P1 = DecidedIds \cup Logged(Head(c0.todo))
        /\ DOMAIN reg1 = DOMAIN registry \cup Booked(Head(c0.todo))
        /\ n = "read_registry" /\ c1.todo # <<>> => c1.seen = reg1
        /\ c1.todo # <<>> =>
             c1.list = IF n = "wiki" /\ Head(c1.todo).step = "mirror_wiki" THEN view1 ELSE c0.list
        /\ n = "wiki" => \A S : CanonIn(view, S) => CanonIn(view1, S)
    BY <2>1, <2>2, <2>3, <2>4
  <2>6. /\ n = "state" => row1 = c0.list \/ c0.list = None
        /\ n \in {"mirror_state", "swap_state"} => row1 \in {load_state, c0.list}
        /\ n \notin {"state", "mirror_state", "swap_state"} => row1 = load_state
        /\ n = "store" => view1 = c0.list \/ c0.list = Nothing
        /\ n \in {"mirror_store", "mirror_wiki", "swap_knowledge"} => view1 \in {view, c0.list}
        /\ n \notin {"store", "mirror_store", "mirror_wiki", "swap_knowledge", "wiki"} =>
             view1 = view
    BY <1>5
  <2> HIDE DEF P1, reg1, row1, view1
  <2>7. /\ c0.todo \in Seq(Writes) /\ c0.todo # <<>> /\ Shape(c0.todo) /\ c1.todo = Tail(c0.todo)
        /\ n \notin {"execute", "plan", "review"} /\ n = Head(c0.todo).step
        /\ PromoReady(c0, DecidedIds, registry, load_state, view)
    BY <1>2, <1>4, <1>6, <2>4
  <2>8. PromoStep(c0, c1, n, DecidedIds, registry, load_state, view, P1, reg1, row1, view1)
    BY <2>5, <2>6, <2>7 DEF PromoStep
  <2>9. PromoReady(c1, P1, reg1, row1, view1)
    BY <2>7, <2>8, PromoAfter
  <2> QED BY <2>9 DEF P1, reg1, row1, view1
<1>14. SummaryReady(c1, evaluation'.records, evaluation'.baseline)
  <2> DEFINE records1 == evaluation'.records  baseline1 == evaluation'.baseline
  <2>1. /\ n = Head(c0.todo).step
        /\ n = "evaluation" \/ records1 = evaluation.records
        /\ c1.todo # <<>> =>
             c1.said = IF n = "summarize"
                       THEN build_canonical_reuse_evaluation_summary(evaluation.records)
                       ELSE c0.said
        /\ baseline1 = IF n = "baseline" THEN c0.said ELSE evaluation.baseline
    BY <1>2, <1>4, <1>10 DEF w
  <2> HIDE DEF records1, baseline1
  <2>2. /\ c0.todo \in Seq(Writes) /\ c0.todo # <<>> /\ Shape(c0.todo) /\ c1.todo = Tail(c0.todo)
        /\ n \notin {"execute", "plan", "review"} /\ n = Head(c0.todo).step
        /\ SummaryReady(c0, evaluation.records, evaluation.baseline)
    BY <1>2, <1>4, <1>6, <2>1
  <2>3. SummaryReady(c1, records1, baseline1)
    BY <2>1, <2>2, SummaryAfter
  <2> QED BY <2>3 DEF records1, baseline1
<1>15. Planned(c1)
  BY <1>2, <1>4, <1>6, <1>10, PlannedAfter
<1>16. ZeroReady(c1, state', files'.state, store', files'.knowledge)
  <2>1. /\ Zero(state) /\ Zero(files.state) /\ Zero(store) /\ Zero(files.knowledge)
        /\ Zero(c0.list)
    BY <1>6 DEF ZeroReady
  <2>2. Zero(view)
    BY <1>8, <2>1
  <2>3. n = "wiki" => Zero(store')
    BY <1>2, <1>5, <1>7, <1>9, <2>2, MergedCanon DEF RecordSteps
  <2>4. Zero(state') /\ Zero(files'.state)
    BY <1>5, <1>9, <2>1 DEF Swapped
  <2>5. Zero(store') /\ Zero(files'.knowledge)
    BY <1>5, <1>9, <2>1, <2>3 DEF Swapped
  <2>6. Zero(c1.list)
    <3>1. CASE c1.todo = <<>>
      <4>1. c1 = Idle
        BY <1>4, <3>1
      <4>2. Idle.list = Nothing
        BY DEF Idle
      <4> QED BY <4>1, <4>2, ZeroOf
    <3>2. CASE c1.todo # <<>>
      BY <1>4, <1>10, <2>1, <2>3, <3>2
    <3> QED BY <3>1, <3>2
  <2> QED BY <2>4, <2>5, <2>6 DEF ZeroReady
<1>17. ASSUME "refresh" \notin trouble'
       PROVE  IndexReady(c1, files'.derived.index, store', files'.knowledge)
  <2>1. IndexReady(c0, files.derived.index, store, files.knowledge)
    BY <1>3, <1>6, <1>17
  <2>2. Zero(store) /\ Zero(files.knowledge)
    BY <1>6 DEF ZeroReady
  <2>3. c1.todo # <<>> => c1.list = c0.list \/ Head(c1.todo).step = "mirror_wiki"
    BY <1>4, <1>10
  <2>4. n = "wiki" => w.of \in Records
    BY <1>2 DEF RecordSteps
  <2> DEFINE index1 == files'.derived.index  entries1 == store'  mirror1 == files'.knowledge
             index == files.derived.index  mirror == files.knowledge
  <2>5. /\ n = Head(c0.todo).step
        /\ n = "store" => entries1 = c0.list
        /\ n = "wiki" => /\ Head(c0.todo).of \in Records
                         /\ entries1 = _merge_task_knowledge_views(view, Head(c0.todo).of.id,
                              build_wiki_entry_from_canonical_record(Head(c0.todo).of))
        /\ n \notin {"store", "wiki"} => entries1 = store
        /\ n = "mirror_store" => mirror1 = c0.list
        /\ n = "swap_knowledge" => mirror1 = c0.planned.knowledge
        /\ n \notin {"mirror_store", "mirror_wiki", "swap_knowledge"} => mirror1 = mirror
        /\ n = "derived" => index1 = build_knowledge_index(c0.list)
        /\ n = "swap_derived" => index1 = c0.planned.derived.index
        /\ n \notin {"derived", "swap_derived"} => index1 = index
    BY <1>2, <1>9, <2>4 DEF w
  <2>6. /\ view = IF store # Nothing THEN store ELSE mirror
        /\ Zero(store) /\ Zero(mirror) /\ store \in Lists /\ mirror \in Lists
        /\ IndexReady(c0, index, store, mirror)
    BY <1>7, <1>8, <2>1, <2>2
  <2> HIDE DEF index1, entries1, mirror1, index, mirror
  <2>7. /\ c0.todo \in Seq(Writes) /\ c0.todo # <<>> /\ Shape(c0.todo) /\ c1.todo = Tail(c0.todo)
        /\ n \notin {"execute", "plan", "review"} /\ n = Head(c0.todo).step
        /\ Planned(c0)
    BY <1>2, <1>4, <1>6, <2>5
  <2>8. IndexStep(c0, c1, n, index, store, mirror, view, index1, entries1, mirror1)
    BY <2>3, <2>5, <2>6, <2>7 DEF IndexStep
  <2>9. IndexReady(c1, index1, entries1, mirror1)
    BY <2>6, <2>8, IndexAfter
  <2> QED BY <2>9 DEF index1, entries1, mirror1
<1>18. Shape(c1.todo)
  BY <1>2, <1>4, <1>6, ShapeTail
<1>19. Steady
  BY CalmIsSteady
<1> QED BY <1>1, <1>3, <1>4, <1>11, <1>12, <1>13, <1>14, <1>15, <1>16, <1>17, <1>18, <1>19, StepTells
        DEF c1

-----------------------------------------------------------------------------
(* The writes of the commands *)

LEMMA CalmBefore == ASSUME TypeInv, Next, Calm' PROVE Calm
  BY TroubleStays DEF Calm

(* A command that fails is over, and so is the calm. *)
LEMMA FailIsNotCalm == ASSUME NEW p \in Procs, fail(p) PROVE ~Calm'
  BY DEF fail, Calm

LEMMA StateWrites ==
  ASSUME TypeInv, NEW p \in Procs, write_state(p) \/ mirror_state(p)
  PROVE  \E c, n : Writing(p, c, n)
<1>1. cmd[p] \in InFlight /\ files \in Files
  BY DEF TypeInv, StoresTyped
<1>2. CASE write_state(p)
  <2>1. Writing(p, cmd[p], "state")
    BY <1>1, <1>2 DEF Writing, write_state, next, done
  <2> QED BY <2>1
<1>3. CASE mirror_state(p)
  <2>1. files'.state = cmd[p].list /\ files'.knowledge = files.knowledge
        /\ files'.derived.index = files.derived.index
    BY <1>1, <1>3 DEF mirror_state, Files
  <2>2. Writing(p, cmd[p], "mirror_state")
    BY <1>1, <1>3, <2>1 DEF Writing, mirror_state, next, done
  <2> QED BY <2>2
<1> QED BY <1>2, <1>3

LEMMA KnowledgeWrites ==
  ASSUME TypeInv, Calm', NEW p \in Procs,
         replace_task_knowledge(p) \/ mirror_store(p) \/ save_knowledge_index(p)
  PROVE  \E c, n : Writing(p, c, n)
<1>1. cmd[p] \in InFlight /\ files \in Files
  BY DEF TypeInv, StoresTyped
<1>2. CASE replace_task_knowledge(p)
  <2>1. ~fail(p)
    BY FailIsNotCalm
  <2>2. Writing(p, cmd[p], "store")
    BY <1>1, <1>2, <2>1 DEF Writing, replace_task_knowledge, next, done
  <2> QED BY <2>2
<1>3. CASE mirror_store(p)
  <2>1. files'.state = files.state /\ files'.knowledge = cmd[p].list
        /\ files'.derived.index = files.derived.index
    BY <1>1, <1>3 DEF mirror_store, Files
  <2>2. ASSUME next(p, "mirror_store") PROVE Writing(p, cmd[p], "mirror_store")
    BY <1>1, <1>3, <2>1, <2>2 DEF Writing, mirror_store, next, done
  <2>3. ASSUME next(p, "mirror_wiki") PROVE Writing(p, cmd[p], "mirror_wiki")
    BY <1>1, <1>3, <2>1, <2>3 DEF Writing, mirror_store, next, done
  <2> QED BY <1>3, <2>2, <2>3 DEF mirror_store
<1>4. CASE save_knowledge_index(p)
  <2>1. files'.state = files.state /\ files'.knowledge = files.knowledge
        /\ files'.derived.index = build_knowledge_index(cmd[p].list)
    BY <1>1, <1>4 DEF save_knowledge_index, Files, Derived
  <2>2. Writing(p, cmd[p], "derived")
    BY <1>1, <1>4, <2>1 DEF Writing, save_knowledge_index, next, done
  <2> QED BY <2>2
<1> QED BY <1>2, <1>3, <1>4

LEMMA LogWrites ==
  ASSUME TypeInv, Calm', NEW p \in Procs,
         append_knowledge_decision(p) \/ register_canonical_proposal(p) \/ write_registry(p)
  PROVE  \E c, n : Writing(p, c, n)
<1>1. cmd[p] \in InFlight
  BY DEF TypeInv
<1>2. CASE append_knowledge_decision(p)
  <2>1. Writing(p, cmd[p], "decision")
    BY <1>1, <1>2 DEF Writing, append_knowledge_decision, next, written, done
  <2> QED BY <2>1
<1>3. CASE register_canonical_proposal(p)
  <2> DEFINE id == written(p).id
             c == [cmd[p] EXCEPT !.seen = registry, !.registered = @ \cup {id}]
  <2>1. ~fail(p)
    BY FailIsNotCalm
  <2>2. busy(p) /\ next(p, "read_registry") /\ proceed(p, c)
        /\ UNCHANGED <<stores, commands, crashes, trouble>>
    BY <1>3, <2>1 DEF register_canonical_proposal, next
  <2>3. id \in Nat /\ registry \in Registries
    <3>1. written(p) \in Records
      BY <2>2, WrittenType DEF RecordSteps
    <3> QED BY <3>1 DEF Records, TypeInv, StoresTyped
  <2>4. c \in InFlight /\ c.todo = cmd[p].todo /\ c.planned = cmd[p].planned /\ c.seen = registry
        /\ c.list = cmd[p].list /\ c.said = cmd[p].said
    BY <1>1, <2>3 DEF InFlight
  <2> HIDE DEF c, id
  <2>5. Writing(p, c, "read_registry")
    BY <2>2, <2>4 DEF Writing, next, stores
  <2> QED BY <2>5
<1>4. CASE write_registry(p)
  <2> DEFINE c == [cmd[p] EXCEPT !.seen = Nothing]
  <2>1. c \in InFlight /\ c.todo = cmd[p].todo /\ c.planned = cmd[p].planned
        /\ c.list = cmd[p].list /\ c.said = cmd[p].said
    BY <1>1, IdleType DEF InFlight, Idle
  <2>2. proceed(p, c)
    BY <1>4 DEF write_registry
  <2> HIDE DEF c
  <2>3. Writing(p, c, "record")
    BY <1>4, <2>1, <2>2 DEF Writing, write_registry, next, written
  <2> QED BY <2>3
<1> QED BY <1>2, <1>3, <1>4

LEMMA StoreWrites ==
  ASSUME TypeInv, NEW p \in Procs,
         persist_wiki_entry_from_record(p) \/ _refresh_canonical_derivatives(p)
  PROVE  \E c, n : Writing(p, c, n)
<1>1. cmd[p] \in InFlight /\ files \in Files
  BY DEF TypeInv, StoresTyped
<1>2. CASE persist_wiki_entry_from_record(p)
  <2> DEFINE view == _merge_task_knowledge_views(load_task_knowledge_view, written(p).id,
                       build_wiki_entry_from_canonical_record(written(p)))
             mirrored == Head(Tail(cmd[p].todo)).step = "mirror_wiki"
             c == [cmd[p] EXCEPT !.list = IF mirrored THEN view ELSE @]
  <2>1. busy(p) /\ next(p, "wiki") /\ proceed(p, c) /\ store' = view
    BY <1>2 DEF persist_wiki_entry_from_record, next
  <2>2. view \in Lists
    <3>1. written(p) \in Records
      BY <2>1, WrittenType DEF RecordSteps
    <3>2. load_task_knowledge_view \in Lists
      BY ViewIsList DEF TypeInv
    <3> QED BY <3>1, <3>2, MergedEntry
  <2> HIDE DEF view, mirrored
  <2>3. c \in InFlight /\ c.todo = cmd[p].todo /\ c.planned = cmd[p].planned
        /\ c.said = cmd[p].said /\ c.list = IF mirrored THEN view ELSE cmd[p].list
    BY <1>1, <2>2 DEF InFlight
  <2> HIDE DEF c
  <2>4. Writing(p, c, "wiki")
    BY <1>2, <2>1, <2>3 DEF Writing, persist_wiki_entry_from_record, next, written, view, mirrored
  <2> QED BY <2>4
<1>3. CASE _refresh_canonical_derivatives(p)
  <2>1. files'.state = files.state /\ files'.knowledge = files.knowledge
        /\ files'.derived.index = files.derived.index
    BY <1>1, <1>3 DEF _refresh_canonical_derivatives, Files
  <2>2. Writing(p, cmd[p], "canon")
    BY <1>1, <1>3, <2>1 DEF Writing, _refresh_canonical_derivatives, next, done
  <2> QED BY <2>2
<1> QED BY <1>2, <1>3

LEMMA EvaluationWrites ==
  ASSUME TypeInv, NEW p \in Procs,
         \/ append_canonical_reuse_evaluation(p) \/ summarize(p)
         \/ save_canonical_reuse_regression(p) \/ append_event(p) \/ mirror_event(p)
  PROVE  \E c, n : Writing(p, c, n)
<1>1. cmd[p] \in InFlight /\ evaluation \in [records : Seq(Evaluated), baseline : Summaries \cup {None}]
  BY DEF TypeInv, StoresTyped
<1>2. CASE append_canonical_reuse_evaluation(p)
  <2>1. evaluation'.baseline = evaluation.baseline
    BY <1>1, <1>2 DEF append_canonical_reuse_evaluation
  <2>2. Writing(p, cmd[p], "evaluation")
    BY <1>1, <1>2, <2>1 DEF Writing, append_canonical_reuse_evaluation, next, done
  <2> QED BY <2>2
<1>3. CASE summarize(p)
  <2> DEFINE said == build_canonical_reuse_evaluation_summary(evaluation.records)
             c == [cmd[p] EXCEPT !.said = said]
  <2>1. said \in Summaries
    BY <1>1, SummaryType
  <2>2. proceed(p, c)
    BY <1>3 DEF summarize
  <2> HIDE DEF said
  <2>3. c \in InFlight /\ c.todo = cmd[p].todo /\ c.planned = cmd[p].planned
        /\ c.said = said /\ c.list = cmd[p].list
    BY <1>1, <2>1 DEF InFlight
  <2> HIDE DEF c
  <2>4. Writing(p, c, "summarize")
    BY <1>3, <2>2, <2>3 DEF Writing, summarize, next, stores, said
  <2> QED BY <2>4
<1>4. CASE save_canonical_reuse_regression(p)
  <2>1. evaluation'.baseline = cmd[p].said /\ evaluation'.records = evaluation.records
    BY <1>1, <1>4 DEF save_canonical_reuse_regression
  <2>2. Writing(p, cmd[p], "baseline")
    BY <1>1, <1>4, <2>1 DEF Writing, save_canonical_reuse_regression, next, done
  <2> QED BY <2>2
<1>5. CASE append_event(p)
  <2>1. ASSUME next(p, "event") PROVE Writing(p, cmd[p], "event")
    BY <1>1, <1>5, <2>1 DEF Writing, append_event, next, done
  <2>2. ASSUME next(p, "copy_event") PROVE Writing(p, cmd[p], "copy_event")
    BY <1>1, <1>5, <2>2 DEF Writing, append_event, next, done
  <2> QED BY <1>5, <2>1, <2>2 DEF append_event
<1>6. CASE mirror_event(p)
  <2>1. Writing(p, cmd[p], "mirror_event")
    BY <1>1, <1>6 DEF Writing, mirror_event, next, done
  <2> QED BY <2>1
<1> QED BY <1>2, <1>3, <1>4, <1>5, <1>6

LEMMA SwapWrites ==
  ASSUME TypeInv, NEW p \in Procs, apply_atomic_text_updates(p)
  PROVE  \E c, n : Writing(p, c, n)
<1>1. PICK swap \in DOMAIN FileOf :
        /\ next(p, swap) /\ done(p)
        /\ files' = [files EXCEPT ![FileOf[swap]] = cmd[p].planned[FileOf[swap]]]
        /\ UNCHANGED <<state, store, decisions, registry, events, evaluation, commands, crashes, trouble>>
  BY DEF apply_atomic_text_updates
<1>2. cmd[p] \in InFlight /\ files \in Files
  BY DEF TypeInv, StoresTyped
<1>3. /\ swap \in Swapped
      /\ swap = "swap_knowledge" => FileOf[swap] = "knowledge"
      /\ swap = "swap_state" => FileOf[swap] = "state"
      /\ swap = "swap_derived" => FileOf[swap] = "derived"
      /\ swap = "swap_canon" => FileOf[swap] = "canon"
  BY DEF FileOf, Swapped
<1>4. /\ files'.state = IF swap = "swap_state" THEN cmd[p].planned.state ELSE files.state
      /\ files'.knowledge = IF swap = "swap_knowledge" THEN cmd[p].planned.knowledge
                            ELSE files.knowledge
      /\ files'.derived = IF swap = "swap_derived" THEN cmd[p].planned.derived ELSE files.derived
  BY <1>1, <1>2, <1>3 DEF Files, Swapped
<1>5. Writing(p, cmd[p], swap)
  BY <1>1, <1>2, <1>3, <1>4 DEF Writing, Swapped, next, done
<1> QED BY <1>5

(* Every step of a command that is not one of the librarian's round. *)
LEMMA StepWrites ==
  ASSUME TypeInv, Calm', NEW p \in Procs, Step(p),
         ~execute(p), ~build_knowledge_store_write_plan(p), ~run_review_gate(p)
  PROVE  \E c, n : Writing(p, c, n)
<1>1. ~RollBack(p)
  BY FailIsNotCalm DEF RollBack
<1> QED BY <1>1, StateWrites, KnowledgeWrites, LogWrites, StoreWrites, EvaluationWrites,
           SwapWrites DEF Step

-----------------------------------------------------------------------------
(* The rounds of a run *)

(* The librarian's round: a step that writes nothing.                      *)
LEMMA RoundTells ==
  ASSUME TypeInv, AloneInv, TellInv, Calm, NEW p \in Procs, busy(p), NEW c,
         cmd' = [cmd EXCEPT ![p] = c], UNCHANGED stores, trouble' = trouble, c.todo # <<>>,
         Shape(c.todo), Planned(c),
         PromoReady(c, DecidedIds, registry, load_state, load_task_knowledge_view),
         SummaryReady(c, evaluation.records, evaluation.baseline), Zero(c.list),
         "refresh" \notin trouble => IndexReady(c, files.derived.index, store, files.knowledge)
  PROVE  TellInv'
<1>1. /\ DecidedIds' = DecidedIds /\ (DecidedOnce => DecidedOnce')
      /\ registry' = registry /\ load_state' = load_state
      /\ load_task_knowledge_view' = load_task_knowledge_view
      /\ evaluation' = evaluation /\ state' = state /\ files' = files /\ store' = store
  BY DEF stores, DecidedIds, DecidedOnce, Promotions, load_state, load_task_knowledge_view,
         task_exists, task_has_knowledge
<1>2. Told(p) /\ DecidedOnce /\ OneRecordPerKey(registry)
  BY DEF TellInv
<1>3. ZeroReady(c, state, files.state, store, files.knowledge)
  BY <1>2 DEF Told, ZeroReady
<1>4. /\ DecidedOnce' /\ OneRecordPerKey(registry')
      /\ PromoReady(c, DecidedIds', registry', load_state', load_task_knowledge_view')
      /\ SummaryReady(c, evaluation'.records, evaluation'.baseline)
      /\ ZeroReady(c, state', files'.state, store', files'.knowledge)
      /\ "refresh" \notin trouble' => IndexReady(c, files'.derived.index, store', files'.knowledge)
  BY <1>1, <1>2, <1>3
<1> QED BY <1>4, CalmIsSteady, StepTells

(* The step of a round is the last of what the command has to do.          *)
LEMMA RoundFacts ==
  ASSUME TypeInv, TellInv, Calm, NEW p \in Procs, NEW n \in {"execute", "plan", "review"},
         next(p, n)
  PROVE  /\ busy(p) /\ cmd[p] \in InFlight /\ Names(cmd[p].todo) = {n}
         /\ PromotedIn(cmd[p].todo) = {} /\ DecidedIds \subseteq DOMAIN registry
         /\ PromoReady(cmd[p], DecidedIds, registry, load_state, load_task_knowledge_view)
         /\ build_canonical_reuse_evaluation_summary(evaluation.records) = evaluation.baseline
         /\ ZeroReady(cmd[p], state, files.state, store, files.knowledge)
         /\ "refresh" \notin trouble =>
              IndexReady(cmd[p], files.derived.index, store, files.knowledge)
<1> DEFINE c0 == cmd[p]
<1>1. busy(p) /\ Told(p) /\ c0 \in InFlight /\ c0.todo \in Seq(Writes) /\ c0.todo # <<>>
      /\ Head(c0.todo).step = n
  BY DEF next, busy, TellInv, TypeInv, InFlight
<1>2. /\ Shape(c0.todo)
      /\ PromoReady(c0, DecidedIds, registry, load_state, load_task_knowledge_view)
      /\ SummaryReady(c0, evaluation.records, evaluation.baseline)
      /\ ZeroReady(c0, state, files.state, store, files.knowledge)
      /\ "refresh" \notin trouble => IndexReady(c0, files.derived.index, store, files.knowledge)
  BY <1>1 DEF Told
<1> HIDE DEF c0
<1>3. Names(c0.todo) = {n}
  <2>1. Names(c0.todo) = {n} \cup Names(Tail(c0.todo)) /\ Names(Tail(c0.todo)) = {}
    BY <1>1, <1>2, AfterFacts
  <2> QED BY <2>1
<1>4. PromotedIn(c0.todo) = {} /\ RecordsIn(c0.todo) = {}
  BY <1>3, NoDecision
<1>5. DecidedIds \subseteq DOMAIN registry
  BY <1>2, <1>4 DEF PromoReady
<1>6. build_canonical_reuse_evaluation_summary(evaluation.records) = evaluation.baseline
  <2>1. "summarize" \notin Names(c0.todo) /\ "baseline" \notin Names(c0.todo)
    BY <1>3
  <2> QED BY <1>2, <2>1 DEF SummaryReady
<1> QED BY <1>1, <1>2, <1>3, <1>4, <1>5, <1>6 DEF c0

(* What the librarian reads holds everything promoted so far.              *)
LEMMA KnownCanon ==
  ASSUME NEW S, CanonIn(load_task_knowledge_view, S), Zero(load_task_knowledge_view), Zero(load_state)
  PROVE  CanonIn(Known(load_task_knowledge_view), S) /\ Zero(Known(load_task_knowledge_view))
<1>1. CASE load_task_knowledge_view # Nothing
  BY <1>1 DEF Known
<1>2. CASE load_task_knowledge_view = Nothing
  <2>1. S = {} /\ Known(load_task_knowledge_view) = load_state
    BY <1>2, CanonEmpty DEF Known
  <2> QED BY <2>1, CanonEmpty
<1> QED BY <1>1, <1>2

LEMMA LoadedZero ==
  ASSUME NEW c, ZeroReady(c, state, files.state, store, files.knowledge)
  PROVE  Zero(load_task_knowledge_view) /\ Zero(load_state)
  BY DEF ZeroReady, load_task_knowledge_view, load_state, task_exists, task_has_knowledge

LEMMA NotReadyCanon ==
  ASSUME NEW list, NEW i \in PromotionReady(list)
  PROVE  i \in DOMAIN list /\ list[i].stage # "canonical"
  BY DEF PromotionReady, canonicalization_status_for

(* A batch keeps what is canonical, and adds what it promotes.             *)
LEMMA BatchCanon ==
  ASSUME None \notin Lists, NEW list \in Lists, NEW reg, NEW b \in Batches(list, reg),
         NEW S, CanonIn(list, S), Zero(list)
  PROVE  /\ CanonIn(b.list, S \cup Ids(b.records)) /\ Zero(b.list)
         /\ Ids(b.records) \cap S = {}
         /\ b.records \in Seq(Records) /\ Distinct(b.records)
<1>1. /\ b.list \in Lists /\ b.list # None /\ DOMAIN b.list = DOMAIN list
      /\ b.records \in Seq(Records) /\ Distinct(b.records)
  BY DEF Batches, Batch, Fresh
<1>2. \A i \in DOMAIN list : b.list[i] = list[i] \/ i \in Ids(b.records)
  BY DEF Batches, Promoted, Ids
<1>3. \A i \in Ids(b.records) : i \in DOMAIN list /\ list[i].stage # "canonical"
                                /\ b.list[i].stage = "canonical"
  <2>1. \A k \in DOMAIN b.records : /\ b.records[k].id \in PromotionReady(list)
                                    /\ b.list[b.records[k].id].stage = "canonical"
    BY DEF Batches, Promoted
  <2> QED BY <2>1, NotReadyCanon DEF Ids
<1>4. CanonIn(b.list, S \cup Ids(b.records))
  BY <1>1, <1>2, <1>3 DEF CanonIn
<1>5. Zero(b.list)
  BY <1>1, <1>2, <1>3 DEF Zero
<1>6. Ids(b.records) \cap S = {}
  BY <1>3 DEF CanonIn
<1> QED BY <1>1, <1>4, <1>5, <1>6

LEMMA executeTells ==
  ASSUME None \notin Lists, TypeInv, AloneInv, TellInv, Calm, NEW p \in Procs, execute(p)
  PROVE  TellInv'
<1> DEFINE K == Known(load_task_knowledge_view)
           batch == LibrarianAgent(K, cmd[p].wanted, registry)
           records == batch.records
           todo == _apply_librarian_side_effects(records)
           c == [cmd[p] EXCEPT !.list = batch.list, !.round = @ + 1, !.todo = todo]
           N == Names(todo)
<1>1. cmd' = [cmd EXCEPT ![p] = c] /\ next(p, "execute") /\ UNCHANGED stores /\ trouble' = trouble
  BY DEF execute
<1>2. /\ busy(p) /\ cmd[p] \in InFlight /\ Names(cmd[p].todo) = {"execute"}
      /\ PromotedIn(cmd[p].todo) = {} /\ DecidedIds \subseteq DOMAIN registry
      /\ PromoReady(cmd[p], DecidedIds, registry, load_state, load_task_knowledge_view)
      /\ build_canonical_reuse_evaluation_summary(evaluation.records) = evaluation.baseline
      /\ ZeroReady(cmd[p], state, files.state, store, files.knowledge)
  BY <1>1, RoundFacts
<1>3. CanonIn(K, DecidedIds) /\ Zero(K)
  <2>1. CanonIn(load_task_knowledge_view, DecidedIds)
    <3>1. DecidedIds \cup {} = DecidedIds
      OBVIOUS
    <3> QED BY <1>2, <3>1 DEF PromoReady
  <2> QED BY <1>2, <2>1, KnownCanon, LoadedZero
<1>4. batch \in Batches(K, registry) /\ K \in Lists
  BY ExecuteBatch
<1> HIDE DEF batch, K
<1>5. /\ CanonIn(batch.list, DecidedIds \cup Ids(records)) /\ Zero(batch.list)
      /\ Ids(records) \cap DecidedIds = {}
      /\ records \in Seq(Records) /\ Distinct(records)
  BY <1>3, <1>4, BatchCanon
<1> HIDE DEF records
<1>6. /\ todo \in Seq(Writes) /\ Shape(todo) /\ todo # <<>> /\ Head(todo).step # "record"
      /\ "plan" \in N /\ N \subseteq {"decision", "plan"} \cup RecordSteps
      /\ PromotedIn(todo) = Ids(records) /\ Ids(records) \subseteq RecordsIn(todo) /\ Once(todo)
  BY <1>5, SideEffectShape
<1>7. c.todo = todo /\ c.list = batch.list
  BY <1>2 DEF InFlight
<1> HIDE DEF c, todo
<1>8. PromoReady(c, DecidedIds, registry, load_state, load_task_knowledge_view)
  <2>1. "mirror_wiki" \notin N
    BY <1>6 DEF RecordSteps
  <2> QED BY <1>2, <1>5, <1>6, <1>7, <2>1 DEF PromoReady
<1>9. SummaryReady(c, evaluation.records, evaluation.baseline)
  <2>1. "baseline" \notin N
    BY <1>6 DEF RecordSteps
  <2> QED BY <1>2, <1>7, <2>1 DEF SummaryReady
<1>10. N \cap ({"derived", "review"} \cup Swapped) = {}
  BY <1>6 DEF RecordSteps, Swapped
<1>11. Planned(c)
  <2>1. N \cap Swapped = {}
    BY <1>10
  <2> QED BY <1>7, <2>1 DEF Planned
<1>12. IndexReady(c, files.derived.index, store, files.knowledge)
  BY <1>6, <1>7, <1>10 DEF IndexReady
<1> QED BY <1>1, <1>2, <1>5, <1>6, <1>7, <1>8, <1>9, <1>11, <1>12, RoundTells

LEMMA planTells ==
  ASSUME TypeInv, AloneInv, TellInv, Calm, NEW p \in Procs, build_knowledge_store_write_plan(p)
  PROVE  TellInv'
<1> DEFINE list == cmd[p].list
           derived == Derived(list)
           planned == [knowledge |-> list, state |-> list, derived |-> derived,
                       canon |-> Active(registry)]
           todo == Steps(Swaps \o <<"store", "review">>)
           c == [cmd[p] EXCEPT !.original = files, !.planned = planned, !.todo = todo]
           N == Names(todo)
<1>1. cmd' = [cmd EXCEPT ![p] = c] /\ next(p, "plan") /\ UNCHANGED stores /\ trouble' = trouble
  BY DEF build_knowledge_store_write_plan
<1>2. /\ busy(p) /\ cmd[p] \in InFlight /\ Names(cmd[p].todo) = {"plan"}
      /\ PromotedIn(cmd[p].todo) = {} /\ DecidedIds \subseteq DOMAIN registry
      /\ PromoReady(cmd[p], DecidedIds, registry, load_state, load_task_knowledge_view)
      /\ build_canonical_reuse_evaluation_summary(evaluation.records) = evaluation.baseline
      /\ ZeroReady(cmd[p], state, files.state, store, files.knowledge)
  BY <1>1, RoundFacts
<1>3. /\ todo \in Seq(Writes) /\ Shape(todo) /\ Head(todo).step = "swap_knowledge"
      /\ N = {"store", "review"} \cup Swapped
  BY SwapsShape
<1>4. derived.index = build_knowledge_index(list)
  BY DEF Derived
<1> HIDE DEF derived
<1>5. planned.knowledge = list /\ planned.state = list /\ planned.derived = derived
  OBVIOUS
<1> HIDE DEF planned, todo
<1>6. c.todo = todo /\ c.list = list /\ c.planned = planned
  BY <1>2 DEF InFlight
<1> HIDE DEF c
<1>7. CanonIn(list, DecidedIds)
  <2>1. DecidedIds \cup {} = DecidedIds
    OBVIOUS
  <2> QED BY <1>2, <2>1 DEF PromoReady, ListWriters
<1> HIDE DEF list
<1>8. PromotedIn(todo) = {} /\ Once(todo)
  BY <1>3, NoDecision DEF Swapped
<1>9. PromoReady(c, DecidedIds, registry, load_state, load_task_knowledge_view)
  <2>1. "mirror_wiki" \notin N /\ "store" \in N /\ "review" \in N
    BY <1>3 DEF Swapped
  <2> QED BY <1>2, <1>3, <1>6, <1>7, <1>8, <2>1 DEF PromoReady
<1>10. SummaryReady(c, evaluation.records, evaluation.baseline)
  <2>1. "baseline" \notin N
    BY <1>3 DEF Swapped
  <2> QED BY <1>2, <1>6, <2>1 DEF SummaryReady
<1>11. Planned(c)
  BY <1>4, <1>5, <1>6 DEF Planned
<1>12. IndexReady(c, files.derived.index, store, files.knowledge)
  <2>1. "derived" \notin N /\ {"store", "review", "swap_knowledge", "swap_derived"} \subseteq N
    BY <1>3 DEF Swapped
  <2> QED BY <1>6, <2>1 DEF IndexReady
<1>13. Zero(c.list)
  BY <1>2, <1>6 DEF ZeroReady, list
<1>14. todo # <<>>
  BY <1>3, PromotedMembers
<1> QED BY <1>1, <1>2, <1>3, <1>6, <1>9, <1>10, <1>11, <1>12, <1>13, <1>14, RoundTells

LEMMA reviewTells ==
  ASSUME TypeInv, AloneInv, TellInv, Calm, NEW p \in Procs, run_review_gate(p)
  PROVE  TellInv'
<1>1. PICK todo \in {Steps(<<"execute">>), SaveState \o Event} :
        cmd' = [cmd EXCEPT ![p] = [@ EXCEPT !.todo = todo, !.planned = None, !.original = None]]
  BY DEF run_review_gate
<1> DEFINE list == cmd[p].list
           c == [cmd[p] EXCEPT !.todo = todo, !.planned = None, !.original = None]
           N == Names(todo)
<1>2. cmd' = [cmd EXCEPT ![p] = c] /\ next(p, "review") /\ UNCHANGED stores /\ trouble' = trouble
  BY <1>1 DEF run_review_gate
<1>3. /\ busy(p) /\ cmd[p] \in InFlight /\ Names(cmd[p].todo) = {"review"}
      /\ PromotedIn(cmd[p].todo) = {} /\ DecidedIds \subseteq DOMAIN registry
      /\ PromoReady(cmd[p], DecidedIds, registry, load_state, load_task_knowledge_view)
      /\ build_canonical_reuse_evaluation_summary(evaluation.records) = evaluation.baseline
      /\ ZeroReady(cmd[p], state, files.state, store, files.knowledge)
      /\ "refresh" \notin trouble =>
           IndexReady(cmd[p], files.derived.index, store, files.knowledge)
  BY <1>2, RoundFacts
<1>4. c.todo = todo /\ c.list = list
  BY <1>3 DEF InFlight
<1>5. /\ Shape(todo) /\ todo \in Seq(Writes)
      /\ N = {"execute"} \/ N = {"state", "mirror_state", "event", "mirror_event"}
  <2>1. /\ Shape(Steps(<<"execute">>)) /\ Names(Steps(<<"execute">>)) = {"execute"}
        /\ Steps(<<"execute">>) \in Seq(Writes)
    BY RunShape, RunWrites
  <2>2. /\ SaveState \o Event \in Seq(Writes)
        /\ Names(SaveState \o Event) = {"state", "mirror_state", "event", "mirror_event"}
    <3>1. Names(SaveState \o Event) = Names(SaveState) \cup Names(Event)
          /\ SaveState \o Event \in Seq(Writes)
      BY SaveNames, NamesOf
    <3> QED BY <3>1, SaveNames
  <2>3. Shape(SaveState \o Event)
    BY <2>2, PlainShape
  <2> QED BY <1>1, <2>1, <2>2, <2>3
<1> HIDE DEF c
<1>6. CanonIn(list, DecidedIds) /\ CanonIn(load_task_knowledge_view, DecidedIds)
  <2>1. DecidedIds \cup {} = DecidedIds
    OBVIOUS
  <2> QED BY <1>3, <2>1 DEF PromoReady, ListWriters
<1>7. ASSUME "refresh" \notin trouble
      PROVE  /\ store = list /\ files.knowledge = list
             /\ files.derived.index = build_knowledge_index(list)
  BY <1>3, <1>7 DEF IndexReady
<1> HIDE DEF list
<1>8. /\ N \cap ({"decision", "record", "mirror_wiki", "summarize", "baseline", "store", "plan",
                  "mirror_store", "derived", "review"} \cup Swapped) = {}
      /\ N \cap {"state", "execute"} # {}
  BY <1>5 DEF Swapped
<1>9. PromotedIn(todo) = {} /\ Once(todo)
  BY <1>8, NoDecision
<1>10. todo # <<>> /\ Head(todo).step \in N
  <2>1. PICK n : n \in Names(todo)
    BY <1>5
  <2>2. PICK j \in DOMAIN todo : todo[j].step = n
    BY <2>1, PromotedMembers
  <2>3. todo # <<>>
    BY <2>2
  <2> QED BY <1>5, <2>3, HeadAndTail
<1>11. PromoReady(c, DecidedIds, registry, load_state, load_task_knowledge_view)
  BY <1>3, <1>4, <1>6, <1>8, <1>9, <1>10 DEF PromoReady
<1>12. SummaryReady(c, evaluation.records, evaluation.baseline)
  BY <1>3, <1>4, <1>8 DEF SummaryReady
<1>13. Planned(c)
  <2>1. N \cap Swapped = {}
    BY <1>8
  <2> QED BY <1>4, <2>1 DEF Planned
<1>14. ASSUME "refresh" \notin trouble
       PROVE  IndexReady(c, files.derived.index, store, files.knowledge)
  <2>1. N \cap ({"mirror_store"} \cup Swapped) = {} /\ N \cap {"plan", "derived", "review"} = {}
        /\ "derived" \notin N /\ "review" \notin N /\ "store" \notin N /\ "mirror_wiki" \notin N
    BY <1>8
  <2> QED BY <1>4, <1>7, <1>14, <2>1 DEF IndexReady
<1>15. Zero(c.list)
  BY <1>3, <1>4 DEF ZeroReady, list
<1> QED BY <1>2, <1>3, <1>4, <1>5, <1>10, <1>11, <1>12, <1>13, <1>14, <1>15, RoundTells

(* Every step of a command. *)
LEMMA StepKeepsTold ==
  ASSUME None \notin Lists, TypeInv, AloneInv, TellInv, Calm, Calm', NEW p \in Procs, Step(p)
  PROVE  TellInv'
<1>1. CASE execute(p)
  BY <1>1, executeTells
<1>2. CASE build_knowledge_store_write_plan(p)
  BY <1>2, planTells
<1>3. CASE run_review_gate(p)
  BY <1>3, reviewTells
<1>4. CASE ~execute(p) /\ ~build_knowledge_store_write_plan(p) /\ ~run_review_gate(p)
  <2>1. PICK c, n : Writing(p, c, n)
    BY <1>4, StepWrites
  <2> QED BY <2>1, WriteTells
<1> QED BY <1>1, <1>2, <1>3, <1>4

-----------------------------------------------------------------------------
(* Commands that begin at rest *)

(* What a command has to do, first part, and what it may end with.         *)
Opens(todo) ==
  /\ todo \in Seq(Writes) /\ todo # <<>> /\ Shape(todo) /\ Head(todo).step # "record"
  /\ Names(todo) \cap {"execute", "plan", "review"} = {}
Trails(todo) ==
  /\ todo \in Seq(Writes) /\ Names(todo) \subseteq Trailing /\ RecordsRead(todo)
  /\ todo # <<>> => Head(todo).step # "record"

LEMMA OpensJoined ==
  ASSUME NEW s, NEW t, Opens(s), Trails(t)
  PROVE  /\ Opens(s \o t) /\ Names(s \o t) = Names(s) \cup Names(t)
         /\ PromotedIn(s \o t) = PromotedIn(s) \cup PromotedIn(t)
         /\ RecordsIn(s \o t) = RecordsIn(s) \cup RecordsIn(t)
         /\ Once(s) /\ Once(t) /\ PromotedIn(s) \cap PromotedIn(t) = {} => Once(s \o t)
<1> DEFINE u == s \o t
<1>1. /\ s \in Seq(Writes) /\ s # <<>> /\ Shape(s) /\ Head(s).step # "record"
      /\ Names(s) \cap {"execute", "plan", "review"} = {}
      /\ t \in Seq(Writes) /\ Names(t) \subseteq Trailing /\ RecordsRead(t)
      /\ t # <<>> => Head(t).step # "record"
  BY DEF Opens, Trails
<1>2. u \in Seq(Writes) /\ Names(u) = Names(s) \cup Names(t) /\ u # <<>> /\ Head(u) = Head(s)
  BY <1>1, NamesOf
<1>3. Shape(u)
  BY <1>1, ShapeJoined
<1>4. /\ PromotedIn(u) = PromotedIn(s) \cup PromotedIn(t)
      /\ RecordsIn(u) = RecordsIn(s) \cup RecordsIn(t)
      /\ Once(s) /\ Once(t) /\ PromotedIn(s) \cap PromotedIn(t) = {} => Once(u)
  BY <1>1, InJoined
<1> HIDE DEF u
<1>5. Names(u) \cap {"execute", "plan", "review"} = {}
  BY <1>1, <1>2 DEF Trailing
<1>6. Opens(u)
  BY <1>1, <1>2, <1>3, <1>5 DEF Opens
<1> QED BY <1>2, <1>4, <1>6 DEF u

LEMMA PlainTrails ==
  ASSUME NEW t \in Seq(Writes), Names(t) \subseteq {"canon", "event", "mirror_event"}
  PROVE  Trails(t) /\ PromotedIn(t) = {} /\ RecordsIn(t) = {} /\ Once(t)
<1>1. PromotedIn(t) = {} /\ RecordsIn(t) = {} /\ Once(t)
  BY NoDecision
<1>2. RecordsRead(t)
  <2>1. \A k \in DOMAIN t : t[k].step # "record"
    BY PromotedMembers
  <2> QED BY <2>1 DEF RecordsRead
<1>3. t # <<>> => Head(t).step # "record"
  BY HeadAndTail
<1>4. Names(t) \subseteq Trailing
  BY DEF Trailing
<1> QED BY <1>1, <1>2, <1>3, <1>4 DEF Trails

LEMMA EndParts ==
  /\ Trails(Canon) /\ PromotedIn(Canon) = {} /\ RecordsIn(Canon) = {} /\ Once(Canon)
  /\ Trails(Event) /\ PromotedIn(Event) = {} /\ RecordsIn(Event) = {} /\ Once(Event)
  /\ Trails(<<>>) /\ PromotedIn(<<>>) = {} /\ RecordsIn(<<>>) = {} /\ Once(<<>>)
  /\ Names(<<>>) = {}
<1>1. <<>> \in Seq(Writes) /\ Names(<<>>) = {}
  BY DEF Names
<1> QED BY <1>1, SaveNames, PlainTrails

LEMMA RecordTrails ==
  ASSUME NEW record \in Records
  PROVE  /\ Trails(Record(record)) /\ Names(Record(record)) = {"read_registry", "record"}
         /\ PromotedIn(Record(record)) = {} /\ RecordsIn(Record(record)) = {record.id}
         /\ Once(Record(record))
<1>1. Record(record) \in Seq(Writes) /\ Names(Record(record)) = {"read_registry", "record"}
  BY NamesOfRecord
<1>2. Names(Record(record)) \subseteq Trailing
  BY <1>1 DEF Trailing
<1> QED BY <1>1, <1>2, RecordIn DEF Trails

LEMMA DecisionTrails ==
  ASSUME NEW d \in Decision
  PROVE  LET s == <<Write("decision", d)>>
         IN /\ Trails(s) /\ Names(s) = {"decision"} /\ RecordsIn(s) = {} /\ Once(s)
            /\ PromotedIn(s) = IF d.type = "promote" /\ d.target = "canonical" THEN {d.object} ELSE {}
<1> DEFINE s == <<Write("decision", d)>>
<1>1. /\ s \in Seq(Writes) /\ Names(s) = {"decision"} /\ RecordsIn(s) = {} /\ Once(s)
      /\ PromotedIn(s) = IF d.type = "promote" /\ d.target = "canonical" THEN {d.object} ELSE {}
      /\ RecordsRead(s) /\ Head(s).step = "decision"
  BY DecisionIn
<1> HIDE DEF s
<1>2. Trails(s)
  BY <1>1 DEF Trails, Trailing
<1> QED BY <1>1, <1>2 DEF s

(* What a command finds when no other one is in flight.                    *)
LEMMA RestedFacts ==
  ASSUME Rested
  PROVE  /\ DecidedIds \subseteq DOMAIN registry
         /\ CanonIn(load_state, DecidedIds) /\ CanonIn(load_task_knowledge_view, DecidedIds)
         /\ evaluation.baseline = build_canonical_reuse_evaluation_summary(evaluation.records)
         /\ Zero(state) /\ Zero(files.state) /\ Zero(store) /\ Zero(files.knowledge)
         /\ "refresh" \notin trouble =>
              files.derived.index = build_knowledge_index(load_task_knowledge_view)
<1>1. Idle.todo = <<>> /\ Names(<<>>) = {} /\ PromotedIn(<<>>) = {} /\ RecordsIn(<<>>) = {}
  BY IdleType, EndParts
<1>2. /\ PromoReady(Idle, DecidedIds, registry, load_state, load_task_knowledge_view)
      /\ SummaryReady(Idle, evaluation.records, evaluation.baseline)
      /\ ZeroReady(Idle, state, files.state, store, files.knowledge)
      /\ "refresh" \notin trouble => IndexReady(Idle, files.derived.index, store, files.knowledge)
  BY DEF Rested
<1>3. DecidedIds \cup PromotedIn(Idle.todo) = DecidedIds /\ Names(Idle.todo) = {}
      /\ RecordsIn(Idle.todo) = {}
  BY <1>1
<1> HIDE DEF Idle
<1>4. /\ DecidedIds \subseteq DOMAIN registry
      /\ CanonIn(load_state, DecidedIds) /\ CanonIn(load_task_knowledge_view, DecidedIds)
  BY <1>2, <1>3 DEF PromoReady
<1>5. evaluation.baseline = build_canonical_reuse_evaluation_summary(evaluation.records)
  BY <1>2, <1>3 DEF SummaryReady
<1>6. "refresh" \notin trouble =>
        files.derived.index = build_knowledge_index(load_task_knowledge_view)
  BY <1>2, <1>3 DEF IndexReady, load_task_knowledge_view, task_has_knowledge
<1> QED BY <1>2, <1>4, <1>5, <1>6 DEF ZeroReady

(* A command that begins at rest.                                          *)
Opening(what, c) ==
  LET N == Names(c.todo)  Q == DecidedIds \cup PromotedIn(c.todo)
  IN /\ Shape(c.todo) /\ c.todo # <<>> /\ Head(c.todo).step # "record"
     /\ N \cap ({"plan", "review"} \cup Swapped) = {}
     /\ PromotedIn(c.todo) \subseteq RecordsIn(c.todo) /\ Once(c.todo)
     /\ PromotedIn(c.todo) \cap DecidedIds = {}
     /\ PromotedIn(c.todo) = {} \/ {"state", "store"} \subseteq N
     /\ N \cap ListWriters # {} => CanonIn(c.list, Q)
     /\ "mirror_wiki" \in N => "wiki" \in N
     /\ "summarize" \in N \/ "baseline" \notin N
     /\ Zero(c.list)
     /\ \/ what = "refresh"
        \/ "derived" \in N /\ {"store", "mirror_store"} \subseteq N
        \/ /\ "derived" \notin N /\ "mirror_store" \notin N
           /\ "store" \in N => Tail(c.todo) = <<>> /\ store = Nothing /\ c.list = files.knowledge

LEMMA OpeningTold ==
  ASSUME NEW what, NEW c, Opening(what, c), Rested
  PROVE  /\ Planned(c)
         /\ PromoReady(c, DecidedIds, registry, load_state, load_task_knowledge_view)
         /\ SummaryReady(c, evaluation.records, evaluation.baseline)
         /\ ZeroReady(c, state, files.state, store, files.knowledge)
         /\ what # "refresh" /\ "refresh" \notin trouble =>
              IndexReady(c, files.derived.index, store, files.knowledge)
<1> DEFINE N == Names(c.todo)  R == PromotedIn(c.todo)
<1>1. /\ DecidedIds \subseteq DOMAIN registry
      /\ CanonIn(load_state, DecidedIds) /\ CanonIn(load_task_knowledge_view, DecidedIds)
      /\ evaluation.baseline = build_canonical_reuse_evaluation_summary(evaluation.records)
      /\ Zero(state) /\ Zero(files.state) /\ Zero(store) /\ Zero(files.knowledge)
      /\ "refresh" \notin trouble =>
           files.derived.index = build_knowledge_index(load_task_knowledge_view)
  BY RestedFacts
<1>2. /\ Shape(c.todo) /\ c.todo # <<>> /\ Head(c.todo).step # "record"
      /\ N \cap ({"plan", "review"} \cup Swapped) = {}
      /\ R \subseteq RecordsIn(c.todo) /\ Once(c.todo) /\ R \cap DecidedIds = {}
      /\ R = {} \/ {"state", "store"} \subseteq N
      /\ N \cap ListWriters # {} => CanonIn(c.list, DecidedIds \cup R)
      /\ "mirror_wiki" \in N => "wiki" \in N
      /\ "summarize" \in N \/ "baseline" \notin N
      /\ Zero(c.list)
      /\ \/ what = "refresh"
         \/ "derived" \in N /\ {"store", "mirror_store"} \subseteq N
         \/ /\ "derived" \notin N /\ "mirror_store" \notin N
            /\ "store" \in N => Tail(c.todo) = <<>> /\ store = Nothing /\ c.list = files.knowledge
  BY DEF Opening
<1>3. Planned(c)
  BY <1>2 DEF Planned
<1>4. PromoReady(c, DecidedIds, registry, load_state, load_task_knowledge_view)
  <2>1. R = {} => DecidedIds \cup R = DecidedIds
    OBVIOUS
  <2>2. N \cap {"state", "execute", "plan", "review"} = {} => CanonIn(load_state, DecidedIds \cup R)
    BY <1>1, <1>2, <2>1
  <2>3. N \cap {"store", "plan"} = {} => CanonIn(load_task_knowledge_view, DecidedIds \cup R)
    BY <1>1, <1>2, <2>1
  <2> QED BY <1>1, <1>2, <2>2, <2>3 DEF PromoReady
<1>5. SummaryReady(c, evaluation.records, evaluation.baseline)
  BY <1>1, <1>2 DEF SummaryReady
<1>6. ZeroReady(c, state, files.state, store, files.knowledge)
  BY <1>1, <1>2 DEF ZeroReady
<1>7. ASSUME what # "refresh", "refresh" \notin trouble
      PROVE  IndexReady(c, files.derived.index, store, files.knowledge)
  <2>1. files.derived.index = build_knowledge_index(load_task_knowledge_view)
    BY <1>1, <1>7
  <2>2. load_task_knowledge_view = IF store # Nothing THEN store ELSE files.knowledge
    BY DEF load_task_knowledge_view, task_has_knowledge
  <2>3. "review" \notin N /\ N \cap Swapped = {} /\ "plan" \notin N
    BY <1>2
  <2> HIDE DEF N
  <2>4. CASE "derived" \in N
    <3>1. "store" \in N /\ "mirror_store" \in N
      BY <1>2, <1>7, <2>4
    <3> QED BY <2>3, <2>4, <3>1 DEF IndexReady, N
  <2>5. CASE "derived" \notin N
    <3>1. /\ "mirror_store" \notin N
          /\ "store" \in N => Tail(c.todo) = <<>> /\ store = Nothing /\ c.list = files.knowledge
          /\ "mirror_wiki" \in N => "wiki" \in N
      BY <1>2, <1>7, <2>5
    <3>2. N \cap ({"mirror_store"} \cup Swapped) = {}
      BY <2>3, <3>1
    <3> QED BY <2>1, <2>2, <2>3, <2>5, <3>1, <3>2 DEF IndexReady, N
  <2> QED BY <2>4, <2>5
<1> QED BY <1>3, <1>4, <1>5, <1>6, <1>7

LEMMA BeginTells ==
  ASSUME TypeInv, TellInv, Calm, Calm', NEW p \in Procs, NEW what, NEW todo \in Seq(Writes),
         NEW c \in InFlight, begin(p, what, todo, c),
         Rested => Opening(what, With(c, todo))
  PROVE  TellInv'
<1> DEFINE d == With(c, todo)
<1>1. Steady'
  BY DEF Calm, Steady
<1>2. /\ UNCHANGED stores /\ \A q \in Procs : ~busy(q)
      /\ \A q \in Procs \ {p} : cmd'[q] = cmd[q]
      /\ cmd'[p] = d
  <2> HIDE DEF stores
  <2>1. /\ Steady /\ UNCHANGED stores /\ \A q \in Procs : ~busy(q)
        /\ cmd' = [cmd EXCEPT ![p] = With(c, todo)]
        /\ \A q \in Procs \ {p} : cmd'[q] = cmd[q]
        /\ cmd'[p] = With(c, todo)
        /\ With(c, todo) \in InFlight
    BY <1>1, BeginAlone
  <2> QED BY <2>1
<1>3. Rested /\ DecidedOnce /\ OneRecordPerKey(registry)
  BY <1>2 DEF TellInv, AllIdle
<1>4. Opening(what, d)
  BY <1>3
<1> HIDE DEF d
<1>5. /\ Planned(d)
      /\ PromoReady(d, DecidedIds, registry, load_state, load_task_knowledge_view)
      /\ SummaryReady(d, evaluation.records, evaluation.baseline)
      /\ ZeroReady(d, state, files.state, store, files.knowledge)
      /\ what # "refresh" /\ "refresh" \notin trouble =>
           IndexReady(d, files.derived.index, store, files.knowledge)
      /\ Shape(d.todo) /\ d.todo # <<>>
  BY <1>3, <1>4, OpeningTold DEF Opening
<1>6. /\ DecidedIds' = DecidedIds /\ (DecidedOnce => DecidedOnce')
      /\ registry' = registry /\ load_state' = load_state
      /\ load_task_knowledge_view' = load_task_knowledge_view
      /\ evaluation' = evaluation /\ state' = state /\ files' = files /\ store' = store
  BY <1>2 DEF stores, DecidedIds, DecidedOnce, Promotions, load_state, load_task_knowledge_view,
         task_exists, task_has_knowledge
<1>7. "refresh" \notin trouble' => what # "refresh" /\ "refresh" \notin trouble
  BY DEF begin
<1>8. Told(p)'
  <2>1. /\ Shape(cmd'[p].todo) /\ Planned(cmd'[p])
        /\ PromoReady(cmd'[p], DecidedIds', registry', load_state', load_task_knowledge_view')
        /\ SummaryReady(cmd'[p], evaluation'.records, evaluation'.baseline)
        /\ ZeroReady(cmd'[p], state', files'.state, store', files'.knowledge)
        /\ "refresh" \notin trouble' =>
             IndexReady(cmd'[p], files'.derived.index, store', files'.knowledge)
    BY <1>2, <1>5, <1>6, <1>7
  <2> QED BY <2>1 DEF Told
<1>9. \A q \in Procs \ {p} : ~busy(q)'
  BY <1>2 DEF busy
<1>10. ~AllIdle'
  BY <1>2, <1>5 DEF AllIdle, busy
<1>11. DecidedOnce' /\ OneRecordPerKey(registry)'
  BY <1>3, <1>6
<1> QED BY <1>8, <1>9, <1>10, <1>11 DEF TellInv

(* Commands that write the store, if at all, by an entry of their own.     *)
LEMMA QuietOpening ==
  ASSUME NEW what, NEW c, Shape(c.todo), c.todo # <<>>, Head(c.todo).step # "record",
         Names(c.todo) \subseteq
           {"state", "mirror_state", "execute", "copy_event", "event", "mirror_event", "evaluation",
            "summarize", "baseline", "wiki", "mirror_wiki", "read_registry", "record", "canon"},
         "mirror_wiki" \in Names(c.todo) => "wiki" \in Names(c.todo),
         "summarize" \in Names(c.todo) \/ "baseline" \notin Names(c.todo),
         Names(c.todo) \cap {"state", "mirror_state"} # {} => CanonIn(c.list, DecidedIds),
         Zero(c.list)
  PROVE  Opening(what, c)
<1> DEFINE N == Names(c.todo)
<1>1. PromotedIn(c.todo) = {} /\ Once(c.todo)
  BY NoDecision
<1>2. DecidedIds \cup PromotedIn(c.todo) = DecidedIds
  BY <1>1
<1>3. /\ N \cap ({"plan", "review"} \cup Swapped) = {}
      /\ {"derived", "mirror_store", "store"} \cap N = {}
      /\ N \cap ListWriters \subseteq N \cap {"state", "mirror_state"}
  BY DEF Swapped, ListWriters
<1> HIDE DEF N
<1>4. N \cap ListWriters # {} => CanonIn(c.list, DecidedIds)
  BY <1>3 DEF N
<1> QED BY <1>1, <1>2, <1>3, <1>4 DEF Opening, N

(* Commands that save the knowledge: the state, the store, the index.      *)
LEMMA SavesOpening ==
  ASSUME NEW what, NEW c, Opens(c.todo),
         {"state", "mirror_state", "store", "mirror_store", "derived"} \subseteq Names(c.todo),
         Names(c.todo) \subseteq
           {"state", "mirror_state", "store", "mirror_store", "derived"} \cup Trailing,
         PromotedIn(c.todo) \subseteq RecordsIn(c.todo), Once(c.todo),
         PromotedIn(c.todo) \cap DecidedIds = {},
         CanonIn(c.list, DecidedIds \cup PromotedIn(c.todo)), Zero(c.list)
  PROVE  Opening(what, c)
<1> DEFINE N == Names(c.todo)
<1>1. /\ Shape(c.todo) /\ c.todo # <<>> /\ Head(c.todo).step # "record"
  BY DEF Opens
<1>2. /\ N \cap ({"plan", "review"} \cup Swapped) = {}
      /\ "mirror_wiki" \notin N /\ "baseline" \notin N
      /\ "derived" \in N /\ {"store", "mirror_store"} \subseteq N /\ "state" \in N
  BY DEF Swapped, Trailing
<1> HIDE DEF N
<1>3. {"state", "store"} \subseteq N
  BY <1>2
<1> QED BY <1>1, <1>2, <1>3 DEF Opening, N

LEMMA SavesOpen ==
  /\ Opens(SaveKnowledge) /\ PromotedIn(SaveKnowledge) = {} /\ RecordsIn(SaveKnowledge) = {}
  /\ Once(SaveKnowledge)
  /\ Opens(SaveState) /\ PromotedIn(SaveState) = {} /\ RecordsIn(SaveState) = {} /\ Once(SaveState)
<1>1. /\ SaveKnowledge \in Seq(Writes) /\ SaveKnowledge # <<>> /\ Head(SaveKnowledge).step = "state"
      /\ Names(SaveKnowledge) = {"state", "mirror_state", "store", "mirror_store", "derived"}
      /\ SaveState \in Seq(Writes) /\ SaveState # <<>> /\ Head(SaveState).step = "state"
      /\ Names(SaveState) = {"state", "mirror_state"}
  BY SaveNames
<1>2. Shape(SaveKnowledge) /\ Shape(SaveState)
  BY <1>1, SaveKnowledgeShape, PlainShape
<1> HIDE DEF SaveKnowledge, SaveState
<1>3. Opens(SaveKnowledge) /\ Opens(SaveState)
  BY <1>1, <1>2 DEF Opens
<1>4. /\ "decision" \notin Names(SaveKnowledge) /\ "record" \notin Names(SaveKnowledge)
      /\ "decision" \notin Names(SaveState) /\ "record" \notin Names(SaveState)
  BY <1>1
<1> QED BY <1>3, <1>4, NoDecision

LEMMA WithOf ==
  ASSUME NEW c \in InFlight, NEW todo
  PROVE  With(c, todo).todo = todo /\ With(c, todo).list = c.list
  BY DEF With, InFlight

(* Saving a list that has everything promoted so far, and then at most the *)
(* index of the registry and an event.                                     *)
LEMMA SavesTell ==
  ASSUME TypeInv, TellInv, Calm, Calm', NEW p \in Procs, NEW what, NEW c \in InFlight,
         NEW t, Trails(t), PromotedIn(t) = {}, RecordsIn(t) = {}, Once(t),
         begin(p, what, SaveKnowledge \o t, c),
         Rested => CanonIn(c.list, DecidedIds) /\ Zero(c.list)
  PROVE  TellInv'
<1> DEFINE todo == SaveKnowledge \o t
           d == With(c, todo)
<1>1. /\ Opens(todo) /\ Names(todo) = Names(SaveKnowledge) \cup Names(t)
      /\ PromotedIn(todo) = {} /\ RecordsIn(todo) = {} /\ Once(todo)
  BY SavesOpen, OpensJoined
<1>2. Names(t) \subseteq Trailing
  BY DEF Trails
<1>3. todo \in Seq(Writes) /\ begin(p, what, todo, c)
  BY <1>1 DEF Opens
<1> HIDE DEF todo
<1>4. d.todo = todo /\ d.list = c.list
  BY WithOf
<1> HIDE DEF d
<1>5. /\ {"state", "mirror_state", "store", "mirror_store", "derived"} \subseteq Names(d.todo)
      /\ Names(d.todo) \subseteq
           {"state", "mirror_state", "store", "mirror_store", "derived"} \cup Trailing
  BY <1>1, <1>2, <1>4, SaveNames
<1>6. ASSUME Rested PROVE Opening(what, d)
  <2>1. CanonIn(d.list, DecidedIds) /\ Zero(d.list)
    BY <1>4, <1>6
  <2>2. /\ DecidedIds \cup PromotedIn(d.todo) = DecidedIds
        /\ PromotedIn(d.todo) \subseteq RecordsIn(d.todo)
        /\ PromotedIn(d.todo) \cap DecidedIds = {}
        /\ Opens(d.todo) /\ Once(d.todo)
    BY <1>1, <1>4
  <2> QED BY <1>5, <2>1, <2>2, SavesOpening
<1> QED BY <1>3, <1>6, BeginTells DEF d

LEMMA create_taskTells ==
  ASSUME None \notin Lists, TypeInv, TellInv, Calm, Calm', NEW p \in Procs, create_task(p)
  PROVE  TellInv'
<1>1. PICK req \in Created :
        begin(p, "create", SaveKnowledge \o Canon \o Event,
              [Idle EXCEPT !.list = build_knowledge_objects(req, 1),
                           !.authority = capture_authority(req)])
  BY DEF create_task
<1>2. req \in Captures
  BY KnowledgeAssumption
<1>3. /\ build_knowledge_objects(req, 1) \in Lists /\ capture_authority(req) \in Authorities
      /\ DOMAIN build_knowledge_objects(req, 1) = 1 .. 1 + Len(req.items) - 1
  BY <1>2, BuiltIsList, CaptureAuthority
<1>4. 0 \notin DOMAIN build_knowledge_objects(req, 1)
  <2>1. Len(req.items) \in Nat
    BY <1>2 DEF Captures
  <2> QED BY <1>3, <2>1
<1> DEFINE c == [Idle EXCEPT !.list = build_knowledge_objects(req, 1),
                             !.authority = capture_authority(req)]
           t == Canon \o Event
<1>5. c \in InFlight /\ c.list = build_knowledge_objects(req, 1)
  BY <1>3, IdleWith, IdleSet
<1>6. load_state = None
  BY DEF create_task
<1>7. Trails(t) /\ PromotedIn(t) = {} /\ RecordsIn(t) = {} /\ Once(t)
  <2>1. t \in Seq(Writes) /\ Names(t) = Names(Canon) \cup Names(Event)
    BY SaveNames, NamesOf
  <2> HIDE DEF t
  <2>2. Names(t) \subseteq {"canon", "event", "mirror_event"}
    BY <2>1, SaveNames
  <2> QED BY <2>1, <2>2, PlainTrails
<1>8. SaveKnowledge \o Canon \o Event = SaveKnowledge \o t
  <2>1. SaveKnowledge \in Seq(Writes) /\ Canon \in Seq(Writes) /\ Event \in Seq(Writes)
    BY SaveNames
  <2> HIDE DEF SaveKnowledge, Canon, Event
  <2> QED BY <2>1
<1>9. begin(p, "create", SaveKnowledge \o t, c)
  BY <1>1, <1>8
<1>10. Rested => CanonIn(c.list, DecidedIds) /\ Zero(c.list)
  <2>1. Zero(c.list)
    BY <1>3, <1>4, <1>5, ZeroOf
  <2>2. ASSUME Rested PROVE CanonIn(c.list, DecidedIds)
    <3>1. CanonIn(load_state, DecidedIds)
      BY <2>2, RestedFacts
    <3>2. DecidedIds = {}
      BY <1>6, <3>1, CanonEmpty
    <3> QED BY <3>2, CanonEmpty
  <2> QED BY <2>1, <2>2
<1> HIDE DEF c, t
<1> QED BY <1>5, <1>7, <1>9, <1>10, SavesTell

(* The captured objects are numbered from 1 on, behind the ones there are. *)
LEMMA append_task_knowledge_captureTells ==
  ASSUME None \notin Lists, TypeInv, TellInv, Calm, Calm', NEW p \in Procs,
         append_task_knowledge_capture(p)
  PROVE  TellInv'
<1> DEFINE start == Cardinality(DOMAIN load_state) + 1
           new(req) == build_knowledge_objects(req, start)
           list(req) == Extended(load_state, new(req))
           c(req) == [Idle EXCEPT !.list = list(req), !.authority = capture_authority(req)]
<1>1. PICK req \in Requests : begin(p, "capture", SaveKnowledge \o Event, c(req))
  BY DEF append_task_knowledge_capture
<1>2. req \in Captures /\ capture_authority(req) \in Authorities
  BY KnowledgeAssumption, CaptureAuthority
<1>3. load_state \in Lists
  BY KnownIsList DEF TypeInv, append_task_knowledge_capture
<1>4. start \in Nat \ {0}
  <2>1. IsFiniteSet(DOMAIN load_state)
    BY <1>3, ListType
  <2>2. Cardinality(DOMAIN load_state) \in Nat
    BY <2>1, FS_CardinalityType
  <2> QED BY <2>2
<1> HIDE DEF start
<1>5. new(req) \in Lists /\ 0 \notin DOMAIN new(req)
  <2>1. Len(req.items) \in Nat
    BY <1>2 DEF Captures
  <2>2. new(req) \in Lists /\ DOMAIN new(req) = start .. start + Len(req.items) - 1
    BY <1>2, <1>4, BuiltIsList
  <2> HIDE DEF new
  <2> QED BY <1>4, <2>1, <2>2
<1> HIDE DEF new
<1>6. /\ list(req) \in Lists /\ DOMAIN list(req) = DOMAIN load_state \cup DOMAIN new(req)
      /\ \A i \in DOMAIN load_state : list(req)[i] = load_state[i]
  <2>1. list(req) \in Lists /\ DOMAIN list(req) = DOMAIN load_state \cup DOMAIN new(req)
    BY <1>3, <1>5, ExtendedIsList
  <2>2. \A i \in DOMAIN load_state : list(req)[i] = load_state[i]
    BY DEF Extended
  <2> QED BY <2>1, <2>2
<1> HIDE DEF list
<1>7. c(req) \in InFlight /\ c(req).list = list(req)
  BY <1>2, <1>6, IdleWith, IdleSet
<1>8. ASSUME Rested PROVE CanonIn(list(req), DecidedIds) /\ Zero(list(req))
  <2>1. CanonIn(load_state, DecidedIds) /\ Zero(load_state)
    BY <1>8, RestedFacts DEF load_state
  <2>2. list(req) # None /\ load_state # None
    BY <1>3, <1>6
  <2>3. CanonIn(list(req), DecidedIds)
    BY <1>6, <2>1, <2>2 DEF CanonIn
  <2>4. Zero(list(req))
    BY <1>5, <1>6, <2>1, <2>2 DEF Zero
  <2> QED BY <2>3, <2>4
<1>9. Rested => CanonIn(c(req).list, DecidedIds) /\ Zero(c(req).list)
  BY <1>7, <1>8
<1> HIDE DEF c
<1> QED BY <1>1, <1>7, <1>9, EndParts, SavesTell

(* What a decision leaves: everything canonical stays so, a promoted       *)
(* object was not, and the entry of a staged candidate gets no reuse.      *)
LEMMA DecidedCanon ==
  ASSUME None \notin Lists, NEW list \in Lists, NEW d \in Decision, decision_allowed(list, d),
         NEW S, CanonIn(list, S), Zero(list)
  PROVE  LET new == apply_knowledge_decision(list, d)
             Q == S \cup IF d.type = "promote" /\ d.target = "canonical" THEN {d.object} ELSE {}
         IN /\ CanonIn(new, Q) /\ Zero(new)
            /\ d.type = "promote" /\ d.target = "canonical" => d.object \notin S
<1> DEFINE i == d.object
           o == list[i]
           new == apply_knowledge_decision(list, d)
           promotes == d.type = "promote" /\ d.target = "canonical"
<1>1. /\ i \in DOMAIN list /\ i \in Nat /\ list \in [DOMAIN list -> KnowledgeObject]
      /\ d.type \in {"promote", "reject"} /\ d.target \in {"reuse", "canonical"}
      /\ d.type = "promote" => o.stage = "verified"
      /\ d.type # "promote" /\ d.target = "canonical" => o.stage # "canonical"
  BY ListType DEF decision_allowed, Decision
<1>2. new \in Lists /\ DOMAIN new = DOMAIN list /\ new # None /\ list # None
  BY <1>1, DecidedIsList
<1>3. \A j \in DOMAIN list \ {i} : new[j] = list[j]
  BY <1>1 DEF apply_knowledge_decision
<1>4. /\ promotes => new[i].stage = "canonical"
      /\ ~promotes => new[i].stage = o.stage
      /\ d.type = "reject" /\ d.target = "reuse" => new[i].reuse = FALSE
  BY <1>1 DEF apply_knowledge_decision, KnowledgeObject
<1>5. promotes => i \notin S
  BY <1>1, <1>2 DEF CanonIn
<1> HIDE DEF new
<1>6. CanonIn(new, S \cup IF promotes THEN {i} ELSE {})
  <2>1. ASSUME NEW j \in S
        PROVE  j \in DOMAIN new /\ new[j].stage = "canonical"
    <3>1. j \in DOMAIN list /\ list[j].stage = "canonical"
      BY <2>1, <1>2 DEF CanonIn
    <3> QED BY <1>1, <1>2, <1>3, <1>4, <3>1
  <2>2. promotes => i \in DOMAIN new /\ new[i].stage = "canonical"
    BY <1>1, <1>2, <1>4
  <2> HIDE DEF promotes, i
  <2> QED BY <1>2, <2>1, <2>2 DEF CanonIn
<1>7. Zero(new)
  <2> SUFFICES ASSUME 0 \in DOMAIN new PROVE new[0].stage = "canonical" /\ ~new[0].reuse
    BY DEF Zero
  <2>1. list[0].stage = "canonical" /\ ~list[0].reuse
    BY <1>2 DEF Zero
  <2>2. CASE i # 0
    BY <1>2, <1>3, <2>1, <2>2
  <2>3. CASE i = 0
    <3>1. d.type = "reject" /\ d.target = "reuse"
      BY <1>1, <2>1, <2>3
    <3> QED BY <1>4, <2>1, <2>3, <3>1
  <2> QED BY <2>2, <2>3
<1> QED BY <1>5, <1>6, <1>7 DEF new, promotes, i

LEMMA decide_task_knowledgeTells ==
  ASSUME None \notin Lists, TypeInv, TellInv, Calm, Calm', NEW p \in Procs,
         decide_task_knowledge(p)
  PROVE  TellInv'
<1> DEFINE known == Known(load_task_knowledge_view)
<1>1. PICK d \in Decision, record \in Records, c \in Starting :
        /\ load_state # None /\ known \in Lists /\ decision_allowed(known, d)
        /\ c.list = apply_knowledge_decision(known, d)
        /\ record.id = d.object /\ begin(p, "decide", Deciding(d, record), c)
  BY DecideBegins
<1> DEFINE todo == Deciding(d, record)
           logged == <<Write("decision", d)>>
           middle == Middle(d, record)
           early == SaveKnowledge \o logged
           most == early \o middle
           nearly == most \o Canon
           promoted == IF PromotesCanonical(d) THEN {d.object} ELSE {}
           e == With(c, todo)
<1>2. ASSUME Rested
      PROVE  CanonIn(c.list, DecidedIds \cup promoted) /\ Zero(c.list) /\ promoted \cap DecidedIds = {}
  <2>1. /\ CanonIn(load_task_knowledge_view, DecidedIds) /\ Zero(load_task_knowledge_view)
        /\ Zero(load_state)
    BY <1>2, RestedFacts DEF load_state, load_task_knowledge_view
  <2>2. CanonIn(known, DecidedIds) /\ Zero(known)
    BY <1>1, <2>1, KnownCanon
  <2> HIDE DEF known
  <2>3. /\ CanonIn(c.list, DecidedIds \cup IF d.type = "promote" /\ d.target = "canonical"
                                           THEN {d.object} ELSE {})
        /\ Zero(c.list)
        /\ d.type = "promote" /\ d.target = "canonical" => d.object \notin DecidedIds
    BY <1>1, <2>2, DecidedCanon
  <2> QED BY <2>3 DEF PromotesCanonical
<1>3. Trails(logged) /\ RecordsIn(logged) = {} /\ Once(logged) /\ PromotedIn(logged) = promoted
  BY DecisionTrails DEF PromotesCanonical
<1>4. Trails(middle) /\ PromotedIn(middle) = {} /\ RecordsIn(middle) = promoted /\ Once(middle)
  <2>1. CASE PromotesCanonical(d)
    <3>1. middle = Record(record) /\ promoted = {record.id}
      BY <1>1, <2>1 DEF Middle
    <3> HIDE DEF middle, promoted
    <3> QED BY <3>1, RecordTrails
  <2>2. CASE ~PromotesCanonical(d)
    <3>1. middle = <<>> /\ promoted = {}
      BY <2>2 DEF Middle
    <3> HIDE DEF middle, promoted
    <3> QED BY <3>1, EndParts
  <2> QED BY <2>1, <2>2
<1>5. todo = nearly \o Event
  BY DEF Deciding
<1> HIDE DEF logged, middle, promoted, todo
<1>6. /\ Opens(early) /\ Names(early) = Names(SaveKnowledge) \cup Names(logged)
      /\ PromotedIn(early) = promoted /\ RecordsIn(early) = {} /\ Once(early)
  <2>1. /\ Opens(SaveKnowledge) /\ Trails(logged) /\ Once(SaveKnowledge) /\ Once(logged)
        /\ PromotedIn(SaveKnowledge) \cap PromotedIn(logged) = {}
    BY <1>3, SavesOpen
  <2>2. /\ Opens(early) /\ Names(early) = Names(SaveKnowledge) \cup Names(logged)
        /\ PromotedIn(early) = PromotedIn(SaveKnowledge) \cup PromotedIn(logged)
        /\ RecordsIn(early) = RecordsIn(SaveKnowledge) \cup RecordsIn(logged) /\ Once(early)
    BY <2>1, OpensJoined
  <2> HIDE DEF early
  <2> QED BY <2>2, <1>3, SavesOpen
<1> HIDE DEF early
<1>7. /\ Opens(most) /\ Names(most) = Names(early) \cup Names(middle)
      /\ PromotedIn(most) = promoted /\ RecordsIn(most) = promoted /\ Once(most)
  <2>1. /\ Opens(early) /\ Trails(middle) /\ Once(early) /\ Once(middle)
        /\ PromotedIn(early) \cap PromotedIn(middle) = {}
    BY <1>4, <1>6
  <2>2. /\ Opens(most) /\ Names(most) = Names(early) \cup Names(middle)
        /\ PromotedIn(most) = PromotedIn(early) \cup PromotedIn(middle)
        /\ RecordsIn(most) = RecordsIn(early) \cup RecordsIn(middle) /\ Once(most)
    BY <2>1, OpensJoined
  <2> HIDE DEF most
  <2> QED BY <2>2, <1>4, <1>6
<1> HIDE DEF most
<1>8. /\ Opens(nearly) /\ Names(nearly) = Names(most) \cup Names(Canon)
      /\ PromotedIn(nearly) = promoted /\ RecordsIn(nearly) = promoted /\ Once(nearly)
  <2>1. /\ Opens(most) /\ Trails(Canon) /\ Once(most) /\ Once(Canon)
        /\ PromotedIn(most) \cap PromotedIn(Canon) = {}
    BY <1>7, EndParts
  <2>2. /\ Opens(nearly) /\ Names(nearly) = Names(most) \cup Names(Canon)
        /\ PromotedIn(nearly) = PromotedIn(most) \cup PromotedIn(Canon)
        /\ RecordsIn(nearly) = RecordsIn(most) \cup RecordsIn(Canon) /\ Once(nearly)
    BY <2>1, OpensJoined
  <2> HIDE DEF nearly
  <2> QED BY <2>2, <1>7, EndParts
<1> HIDE DEF nearly
<1>9. /\ Opens(todo) /\ Names(todo) = Names(nearly) \cup Names(Event)
      /\ PromotedIn(todo) = promoted /\ RecordsIn(todo) = promoted /\ Once(todo)
  <2>1. /\ Opens(nearly) /\ Trails(Event) /\ Once(nearly) /\ Once(Event)
        /\ PromotedIn(nearly) \cap PromotedIn(Event) = {}
    BY <1>8, EndParts
  <2>2. /\ Opens(todo) /\ Names(todo) = Names(nearly) \cup Names(Event)
        /\ PromotedIn(todo) = PromotedIn(nearly) \cup PromotedIn(Event)
        /\ RecordsIn(todo) = RecordsIn(nearly) \cup RecordsIn(Event) /\ Once(todo)
    BY <2>1, OpensJoined, <1>5
  <2> QED BY <2>2, <1>8, EndParts
<1>10. /\ {"state", "mirror_state", "store", "mirror_store", "derived"} \subseteq Names(todo)
       /\ Names(todo) \subseteq
            {"state", "mirror_state", "store", "mirror_store", "derived"} \cup Trailing
  BY <1>3, <1>4, <1>6, <1>7, <1>8, <1>9, SaveNames DEF Trails, Trailing
<1>11. c \in InFlight
  BY DEF Starting
<1>12. e.todo = todo /\ e.list = c.list
  BY <1>11, WithOf
<1> HIDE DEF e
<1>13. ASSUME Rested PROVE Opening("decide", e)
  <2>1. /\ Opens(e.todo) /\ Once(e.todo) /\ PromotedIn(e.todo) \subseteq RecordsIn(e.todo)
        /\ PromotedIn(e.todo) \cap DecidedIds = {}
        /\ CanonIn(e.list, DecidedIds \cup PromotedIn(e.todo)) /\ Zero(e.list)
    BY <1>2, <1>9, <1>12, <1>13
  <2>2. /\ {"state", "mirror_state", "store", "mirror_store", "derived"} \subseteq Names(e.todo)
        /\ Names(e.todo) \subseteq
             {"state", "mirror_state", "store", "mirror_store", "derived"} \cup Trailing
    BY <1>10, <1>12
  <2> QED BY <2>1, <2>2, SavesOpening
<1>14. todo \in Seq(Writes)
  BY <1>9 DEF Opens
<1> QED BY <1>1, <1>11, <1>13, <1>14, BeginTells DEF e, todo

(* The state is written back as it was read.                               *)
LEMMA StateOnlyTells ==
  ASSUME None \notin Lists, TypeInv, TellInv, Calm, Calm', NEW p \in Procs,
         update_task_planning_handoff(p) \/ run_task(p)
  PROVE  TellInv'
<1>1. load_state \in Lists
  BY KnownIsList DEF TypeInv, update_task_planning_handoff, run_task
<1>2. Rested => CanonIn(load_state, DecidedIds) /\ Zero(load_state)
  BY RestedFacts DEF load_state
<1>3. ASSUME update_task_planning_handoff(p) PROVE TellInv'
  <2> DEFINE c == [Idle EXCEPT !.list = load_state]
             todo == SaveState \o Event
             d == With(c, todo)
  <2>1. c \in InFlight /\ c.list = load_state
    BY <1>1, IdleWith, IdleSet DEF Authorities
  <2>2. /\ Opens(todo) /\ Names(todo) = Names(SaveState) \cup Names(Event)
    BY SavesOpen, EndParts, OpensJoined
  <2>3. begin(p, "handoff", todo, c)
    BY <1>3 DEF update_task_planning_handoff
  <2> HIDE DEF c, todo
  <2>4. d.todo = todo /\ d.list = load_state
    BY <2>1, WithOf
  <2> HIDE DEF d
  <2>5. Names(d.todo) = {"state", "mirror_state", "event", "mirror_event"}
    BY <2>2, <2>4, SaveNames
  <2>6. todo \in Seq(Writes) /\ Shape(d.todo) /\ d.todo # <<>> /\ Head(d.todo).step # "record"
    BY <2>2, <2>4 DEF Opens
  <2>7. Rested => Opening("handoff", d)
    BY <1>2, <2>4, <2>5, <2>6, QuietOpening
  <2> QED BY <2>1, <2>3, <2>6, <2>7, BeginTells DEF d
<1>4. ASSUME run_task(p) PROVE TellInv'
  <2> DEFINE c(wanted) == [Idle EXCEPT !.list = load_state, !.wanted = wanted,
                                       !.authority = "librarian"]
             u == Steps(<<"execute">>)
             todo == SaveState \o u
             d(wanted) == With(c(wanted), todo)
  <2>1. PICK wanted \in {PromotionReady(load_state), {}} : begin(p, "run", todo, c(wanted))
    BY <1>4 DEF run_task
  <2>2. wanted \in SUBSET Nat
    <3>1. DOMAIN load_state \in SUBSET Nat
      BY <1>1, ListType
    <3> QED BY <3>1 DEF PromotionReady
  <2>3. c(wanted) \in InFlight /\ c(wanted).list = load_state
    <3>1. Idle \in InFlight
      BY IdleType
    <3> HIDE DEF Idle
    <3> QED BY <3>1, <1>1, <2>2 DEF InFlight, Authorities
  <2>4. /\ todo \in Seq(Writes) /\ Shape(todo) /\ Names(todo) = {"state", "mirror_state", "execute"}
        /\ todo # <<>> /\ Head(todo).step = "state"
    <3>1. u \in Seq(Writes)
      <4>1. <<"execute">> \in Seq(Plain \cup LibrarianSteps)
        BY DEF LibrarianSteps
      <4> QED BY <4>1, NamesOfSteps
    <3> HIDE DEF u
    <3>2. todo # <<>> /\ Head(todo) = Head(SaveState)
      BY <3>1, SaveNames, NamesOf
    <3>3. /\ todo \in Seq(Writes) /\ Shape(todo)
          /\ Names(todo) = {"state", "mirror_state", "execute"}
      BY RunShape DEF u
    <3> HIDE DEF todo
    <3> QED BY <3>2, <3>3, SaveNames
  <2> HIDE DEF c, todo
  <2>5. d(wanted).todo = todo /\ d(wanted).list = load_state
    BY <2>3, WithOf
  <2> HIDE DEF d
  <2>6. Rested => Opening("run", d(wanted))
    BY <1>2, <2>4, <2>5, QuietOpening
  <2> QED BY <2>1, <2>3, <2>4, <2>6, BeginTells DEF d
<1> QED BY <1>3, <1>4

(* A staged promotion writes an entry into the store and its mirror.       *)
LEMMA promote_stage_candidate_commandTells ==
  ASSUME TypeInv, TellInv, Calm, Calm', NEW p \in Procs, promote_stage_candidate_command(p)
  PROVE  TellInv'
<1> DEFINE x == <<Write("wiki", StagedRecord)>> \o Steps(<<"mirror_wiki">>)
           r == Record(StagedRecord)
           y == x \o r
           todo == y \o Canon
           c == [Idle EXCEPT !.authority = "operator-gated"]
           d == With(c, todo)
<1>1. begin(p, "stage", todo, c)
  BY DEF promote_stage_candidate_command
<1>2. c \in InFlight /\ c.list = Nothing
  <2>1. c \in InFlight
    BY NothingIsList, IdleWith DEF Authorities
  <2> QED BY <2>1 DEF Idle
<1>3. /\ x \in Seq(Writes) /\ Shape(x) /\ Names(x) = {"wiki", "mirror_wiki"} /\ x # <<>>
      /\ Head(x).step = "wiki"
  BY StagedShape
<1> HIDE DEF x
<1>4. Opens(x)
  BY <1>3 DEF Opens
<1>5. Trails(r) /\ Names(r) = {"read_registry", "record"}
  BY StagedRecordType, RecordTrails
<1> HIDE DEF r
<1>6. Opens(y) /\ Names(y) = Names(x) \cup Names(r)
  BY <1>4, <1>5, OpensJoined
<1> HIDE DEF y
<1>7. Opens(todo) /\ Names(todo) = Names(y) \cup Names(Canon)
  BY <1>6, EndParts, OpensJoined
<1> HIDE DEF c, todo
<1>8. d.todo = todo /\ d.list = Nothing
  BY <1>2, WithOf
<1> HIDE DEF d
<1>9. Names(d.todo) = {"wiki", "mirror_wiki", "read_registry", "record", "canon"}
  BY <1>3, <1>5, <1>6, <1>7, <1>8, SaveNames
<1>10. todo \in Seq(Writes) /\ Shape(d.todo) /\ d.todo # <<>> /\ Head(d.todo).step # "record"
  BY <1>7, <1>8 DEF Opens
<1>11. Zero(d.list)
  BY <1>8, ZeroOf
<1>12. Opening("stage", d)
  BY <1>9, <1>10, <1>11, QuietOpening
<1> QED BY <1>1, <1>2, <1>10, <1>12, BeginTells DEF d

LEMMA evaluate_task_canonical_reuseTells ==
  ASSUME TypeInv, TellInv, Calm, Calm', NEW p \in Procs, evaluate_task_canonical_reuse(p)
  PROVE  TellInv'
<1> DEFINE e(j) == build_canonical_reuse_evaluation_record(j)
           x(j) == <<Write("evaluation", e(j))>> \o Steps(<<"summarize", "baseline">>)
           todo(j) == x(j) \o Event
           d(j) == With(Idle, todo(j))
<1>1. PICK j \in Judgments : begin(p, "evaluate", todo(j), Idle)
  BY DEF evaluate_task_canonical_reuse
<1>2. e(j) \in Evaluated
  BY KnowledgeAssumption DEF build_canonical_reuse_evaluation_record, Evaluated,
                             resolve_canonical_reuse_citations
<1> HIDE DEF e
<1>3. /\ x(j) \in Seq(Writes) /\ Shape(x(j)) /\ x(j) # <<>>
      /\ Names(x(j)) = {"evaluation", "summarize", "baseline"}
      /\ Head(x(j)).step = "evaluation"
  BY <1>2, EvaluationShape
<1> HIDE DEF x
<1>4. Opens(x(j))
  BY <1>3 DEF Opens
<1>5. Opens(todo(j)) /\ Names(todo(j)) = Names(x(j)) \cup Names(Event)
  BY <1>4, EndParts, OpensJoined
<1> HIDE DEF todo
<1>6. Idle \in InFlight /\ Idle.list = Nothing
  BY IdleType DEF Idle
<1> HIDE DEF Idle
<1>7. d(j).todo = todo(j) /\ d(j).list = Nothing
  BY <1>6, WithOf
<1> HIDE DEF d
<1>8. Names(d(j).todo) = {"evaluation", "summarize", "baseline", "event", "mirror_event"}
  BY <1>3, <1>5, <1>7, SaveNames
<1>9. todo(j) \in Seq(Writes) /\ Shape(d(j).todo) /\ d(j).todo # <<>> /\ Head(d(j).todo).step # "record"
  BY <1>5, <1>7 DEF Opens
<1>10. Zero(d(j).list)
  BY <1>7, ZeroOf
<1>11. Opening("evaluate", d(j))
  BY <1>8, <1>9, <1>10, QuietOpening
<1> QED BY <1>1, <1>6, <1>9, <1>11, BeginTells DEF d

(* Evidence is refreshed of what is not canonical.                         *)
LEMMA refresh_wiki_evidence_commandTells ==
  ASSUME None \notin Lists, TypeInv, TellInv, Calm, Calm', NEW p \in Procs,
         refresh_wiki_evidence_command(p)
  PROVE  TellInv'
<1> DEFINE view == Known(load_task_knowledge_view)
           new(i, source) == [view EXCEPT ![i] = refresh_evidence(@, source)]
           c(i, source) == [Idle EXCEPT !.list = new(i, source)]
           names == <<"store", "mirror_store">>
           todo == Steps(names)
           d(i, source) == With(c(i, source), todo)
<1>1. PICK i \in DOMAIN view, source \in Sources :
        view[i].stage # "canonical" /\ begin(p, "refresh", todo, c(i, source))
  BY DEF refresh_wiki_evidence_command
<1>2. view \in Lists
  BY KnownIsList DEF TypeInv, refresh_wiki_evidence_command
<1>3. refresh_evidence(view[i], source) \in KnowledgeObject
  BY <1>2, ListType, RefreshedObject
<1>4. ASSUME Rested PROVE CanonIn(view, DecidedIds) /\ Zero(view)
  <2>1. /\ CanonIn(load_task_knowledge_view, DecidedIds) /\ Zero(load_task_knowledge_view)
        /\ Zero(load_state)
    BY <1>4, RestedFacts DEF load_state, load_task_knowledge_view
  <2> QED BY <2>1, KnownCanon DEF view
<1> HIDE DEF view
<1>5. /\ new(i, source) \in Lists /\ DOMAIN new(i, source) = DOMAIN view
      /\ \A j \in DOMAIN view \ {i} : new(i, source)[j] = view[j]
  BY <1>2, <1>3, ReplacedIsList
<1> HIDE DEF new
<1>6. ASSUME Rested PROVE CanonIn(new(i, source), DecidedIds) /\ Zero(new(i, source))
  <2>1. new(i, source) # None /\ view # None
    BY <1>2, <1>5
  <2>2. CanonIn(new(i, source), DecidedIds)
    BY <1>1, <1>4, <1>5, <1>6, <2>1 DEF CanonIn
  <2>3. Zero(new(i, source))
    BY <1>1, <1>4, <1>5, <1>6, <2>1 DEF Zero
  <2> QED BY <2>2, <2>3
<1>7. c(i, source) \in InFlight /\ c(i, source).list = new(i, source)
  BY <1>5, IdleWith, IdleSet DEF Authorities
<1>8. /\ todo \in Seq(Writes) /\ Names(todo) = {"store", "mirror_store"}
      /\ todo # <<>> /\ Head(todo).step = "store"
  <2>1. /\ names \in Seq(Plain \cup LibrarianSteps)
        /\ {names[k] : k \in DOMAIN names} = {"store", "mirror_store"}
        /\ names # <<>> /\ Head(names) = "store"
    BY DEF Plain
  <2> HIDE DEF names
  <2> QED BY <2>1, NamesOfSteps
<1> HIDE DEF c, todo
<1>9. d(i, source).todo = todo /\ d(i, source).list = new(i, source)
  BY <1>7, WithOf
<1> HIDE DEF d
<1>10. ASSUME Rested PROVE Opening("refresh", d(i, source))
  <2> DEFINE e == d(i, source)
  <2>1. e.todo = todo /\ CanonIn(e.list, DecidedIds) /\ Zero(e.list)
    BY <1>6, <1>9, <1>10
  <2> HIDE DEF e
  <2>2. /\ Names(e.todo) = {"store", "mirror_store"} /\ Shape(e.todo) /\ e.todo # <<>>
        /\ Head(e.todo).step # "record"
    BY <1>8, <2>1, PlainShape
  <2>3. PromotedIn(e.todo) = {} /\ Once(e.todo)
    BY <2>2, NoDecision
  <2>4. DecidedIds \cup PromotedIn(e.todo) = DecidedIds
    BY <2>3
  <2>5. Names(e.todo) \cap ({"plan", "review"} \cup Swapped) = {}
    BY <2>2 DEF Swapped
  <2>6. Opening("refresh", e)
    BY <2>1, <2>2, <2>3, <2>4, <2>5 DEF Opening
  <2> QED BY <2>6 DEF e
<1> QED BY <1>1, <1>7, <1>8, <1>10, BeginTells DEF d

(* A migration writes what is read from the files.                         *)
LEMMA MigrationsTell ==
  ASSUME TypeInv, TellInv, Calm, Calm', NEW p \in Procs,
         migrate_file_tasks_to_sqlite(p) \/ migrate_file_knowledge_to_sqlite(p)
  PROVE  TellInv'
<1>1. ASSUME migrate_file_tasks_to_sqlite(p) PROVE TellInv'
  <2> DEFINE copies == [e \in 1 .. events.file |-> "copy_event"]
             names == <<"state">> \o copies
             todo == Steps(names)
             c == [Idle EXCEPT !.list = files.state, !.authority = "migration"]
             d == With(c, todo)
  <2>1. begin(p, "migrate", todo, c) /\ load_state = files.state /\ files.state # None
    BY <1>1 DEF migrate_file_tasks_to_sqlite, load_state
  <2>2. c \in InFlight /\ c.list = files.state
    <3>1. files.state \in Lists
      BY <1>1 DEF TypeInv, StoresTyped, Files, migrate_file_tasks_to_sqlite
    <3> QED BY <3>1, IdleWith, IdleSet DEF Authorities
  <2>3. /\ names \in Seq(Plain \cup LibrarianSteps) /\ names # <<>> /\ Head(names) = "state"
        /\ \A k \in DOMAIN names : names[k] = IF k = 1 THEN "state" ELSE "copy_event"
    <3>1. events.file \in Nat
      BY DEF TypeInv, StoresTyped
    <3>2. copies \in Seq(Plain \cup LibrarianSteps) /\ \A k \in DOMAIN copies : copies[k] = "copy_event"
      BY <3>1 DEF Plain
    <3>3. <<"state">> \in Seq(Plain \cup LibrarianSteps)
      BY DEF Plain
    <3> HIDE DEF copies
    <3>4. Len(<<"state">>) = 1 /\ <<"state">>[1] = "state" /\ <<"state">> # <<>> /\ Head(<<"state">>) = "state"
      OBVIOUS
    <3> QED BY <3>2, <3>3, <3>4, Joined
  <2> HIDE DEF names
  <2>4. /\ todo \in Seq(Writes) /\ Names(todo) \subseteq {"state", "copy_event"}
        /\ todo # <<>> /\ Head(todo).step = "state"
    BY <2>3, NamesOfSteps
  <2> HIDE DEF c, todo
  <2>5. d.todo = todo /\ d.list = files.state
    BY <2>2, WithOf
  <2> HIDE DEF d
  <2>6. Shape(d.todo)
    BY <2>4, <2>5, PlainShape
  <2>7. ASSUME Rested PROVE Opening("migrate", d)
    <3>1. CanonIn(d.list, DecidedIds) /\ Zero(d.list)
      BY <2>1, <2>5, <2>7, RestedFacts
    <3> QED BY <2>4, <2>5, <2>6, <3>1, QuietOpening
  <2> QED BY <2>1, <2>2, <2>4, <2>7, BeginTells DEF d
<1>2. ASSUME migrate_file_knowledge_to_sqlite(p) PROVE TellInv'
  <2> DEFINE names == <<"store">>
             todo == Steps(names)
             c == [Idle EXCEPT !.list = files.knowledge, !.authority = "migration"]
             d == With(c, todo)
  <2>1. begin(p, "migrate", todo, c) /\ store = Nothing
        /\ load_task_knowledge_view = files.knowledge
    BY <1>2 DEF migrate_file_knowledge_to_sqlite, task_has_knowledge, load_task_knowledge_view
  <2>2. c \in InFlight /\ c.list = files.knowledge
    <3>1. files.knowledge \in Lists
      BY DEF TypeInv, StoresTyped, Files
    <3> QED BY <3>1, IdleWith, IdleSet DEF Authorities
  <2>3. /\ names \in Seq(Plain \cup LibrarianSteps) /\ Len(names) = 1 /\ names # <<>>
        /\ Head(names) = "store" /\ {names[k] : k \in DOMAIN names} = {"store"}
    BY DEF Plain
  <2> HIDE DEF names
  <2>4. /\ todo \in Seq(Writes) /\ Names(todo) = {"store"} /\ todo # <<>>
        /\ Head(todo).step = "store" /\ Len(todo) = 1
    BY <2>3, NamesOfSteps, AnyStepsType
  <2> HIDE DEF c, todo
  <2>5. Tail(todo) = <<>>
    <3> DEFINE t == Tail(todo)
    <3>1. t \in Seq(Writes) /\ Len(t) = 0
      BY <2>4
    <3> HIDE DEF t, Writes
    <3>2. t = <<>>
      BY <3>1
    <3> QED BY <3>2 DEF t
  <2>6. d.todo = todo /\ d.list = files.knowledge
    BY <2>2, WithOf
  <2> HIDE DEF d
  <2>7. /\ Shape(d.todo) /\ PromotedIn(d.todo) = {} /\ Once(d.todo)
    BY <2>4, <2>6, PlainShape, NoDecision
  <2>8. ASSUME Rested PROVE Opening("migrate", d)
    <3>1. CanonIn(d.list, DecidedIds) /\ Zero(d.list)
      BY <2>1, <2>6, <2>8, RestedFacts
    <3>2. DecidedIds \cup PromotedIn(d.todo) = DecidedIds
      BY <2>7
    <3>3. Names(d.todo) = {"store"} /\ Names(d.todo) \cap ({"plan", "review"} \cup Swapped) = {}
      BY <2>4, <2>6 DEF Swapped
    <3>4. d.todo # <<>> /\ Head(d.todo).step # "record" /\ Tail(d.todo) = <<>>
      BY <2>4, <2>5, <2>6
    <3>5. /\ "derived" \notin Names(d.todo) /\ "mirror_store" \notin Names(d.todo)
          /\ Tail(d.todo) = <<>> /\ store = Nothing /\ d.list = files.knowledge
          /\ "mirror_wiki" \notin Names(d.todo) /\ "baseline" \notin Names(d.todo)
      BY <2>1, <2>6, <3>3, <3>4
    <3>6. PromotedIn(d.todo) = {} /\ PromotedIn(d.todo) \cap DecidedIds = {}
          /\ PromotedIn(d.todo) \subseteq RecordsIn(d.todo)
      BY <2>7
    <3> HIDE DEF Nothing
    <3> QED BY <2>7, <3>1, <3>2, <3>3, <3>4, <3>5, <3>6 DEF Opening
  <2> QED BY <2>1, <2>2, <2>4, <2>8, BeginTells DEF d
<1> QED BY <1>1, <1>2

LEMMA CommandTells ==
  ASSUME None \notin Lists, TypeInv, TellInv, Calm, Calm', NEW p \in Procs, Command(p)
  PROVE  TellInv'
<1>1. CASE create_task(p) \/ append_task_knowledge_capture(p) \/ decide_task_knowledge(p)
  BY <1>1, create_taskTells, append_task_knowledge_captureTells, decide_task_knowledgeTells
<1>2. CASE update_task_planning_handoff(p) \/ run_task(p)
  BY <1>2, StateOnlyTells
<1>3. CASE promote_stage_candidate_command(p) \/ evaluate_task_canonical_reuse(p)
  BY <1>3, promote_stage_candidate_commandTells, evaluate_task_canonical_reuseTells
<1>4. CASE refresh_wiki_evidence_command(p)
  BY <1>4, refresh_wiki_evidence_commandTells
<1>5. CASE migrate_file_tasks_to_sqlite(p) \/ migrate_file_knowledge_to_sqlite(p)
  BY <1>5, MigrationsTell
<1> QED BY <1>1, <1>2, <1>3, <1>4, <1>5 DEF Command

-----------------------------------------------------------------------------
(* The invariant holds *)

LEMMA InitTells == ASSUME None \notin Lists, Init, TypeInv PROVE TellInv
<1>1. /\ state = None /\ store = Nothing /\ decisions = <<>> /\ registry = Nothing
      /\ evaluation.baseline = build_canonical_reuse_evaluation_summary(evaluation.records)
      /\ \A p \in Procs : cmd[p] = Idle
  BY DEF Init
<1>2. /\ Zero(files.state) /\ Zero(files.knowledge)
      /\ files.derived.index = build_knowledge_index(files.knowledge)
  <2> DEFINE list == build_knowledge_objects(LegacyRequest, 1)
  <2>1. LegacyRequest \in Captures
    BY KnowledgeAssumption
  <2>2. list \in Lists /\ DOMAIN list = 1 .. 1 + Len(LegacyRequest.items) - 1
    BY <2>1, BuiltIsList
  <2>3. Len(LegacyRequest.items) \in Nat
    BY <2>1 DEF Captures
  <2>4. \/ files.state = None /\ files.knowledge = Nothing /\ files.derived = Derived(Nothing)
        \/ files.state = list /\ files.knowledge = list /\ files.derived = Derived(list)
    <3> HIDE DEF Nothing, Derived, build_knowledge_objects
    <3> QED BY DEF Init
  <2> HIDE DEF list, Nothing
  <2>5. Zero(list)
    BY <2>2, <2>3, ZeroOf
  <2>6. Zero(files.state) /\ Zero(files.knowledge)
    BY <2>4, <2>5, ZeroOf
  <2>7. \A l : Derived(l).index = build_knowledge_index(l)
    BY DEF Derived
  <2> QED BY <2>4, <2>6, <2>7
<1>3. DecidedIds = {} /\ DecidedOnce
  BY <1>1 DEF DecidedIds, DecidedOnce, Promotions
<1>4. OneRecordPerKey(registry)
  BY <1>1, NothingIsList DEF OneRecordPerKey, Active
<1>5. /\ Idle.todo = <<>> /\ Names(Idle.todo) = {} /\ PromotedIn(Idle.todo) = {}
      /\ RecordsIn(Idle.todo) = {} /\ Once(Idle.todo) /\ Idle.list = Nothing
  BY IdleType, EndParts DEF Idle
<1> HIDE DEF Idle
<1>6. PromoReady(Idle, DecidedIds, registry, load_state, load_task_knowledge_view)
  <2>1. DecidedIds \cup PromotedIn(Idle.todo) = {}
    BY <1>3, <1>5
  <2>2. \A list : CanonIn(list, {})
    BY CanonEmpty
  <2> QED BY <1>5, <2>1, <2>2 DEF PromoReady
<1>7. SummaryReady(Idle, evaluation.records, evaluation.baseline)
  BY <1>1, <1>5 DEF SummaryReady
<1>8. ZeroReady(Idle, state, files.state, store, files.knowledge)
  BY <1>1, <1>2, <1>5, ZeroOf DEF ZeroReady
<1>9. IndexReady(Idle, files.derived.index, store, files.knowledge)
  <2>1. files.derived.index =
          build_knowledge_index(IF store # Nothing THEN store ELSE files.knowledge)
    BY <1>1, <1>2
  <2> QED BY <1>5, <2>1 DEF IndexReady
<1>10. \A p \in Procs : ~busy(p)
  BY <1>1, <1>5 DEF busy
<1> QED BY <1>3, <1>4, <1>6, <1>7, <1>8, <1>9, <1>10 DEF TellInv, Rested

LEMMA SameTells == ASSUME TellInv, UNCHANGED vars PROVE TellInv'
<1>1. /\ state' = state /\ store' = store /\ files' = files /\ decisions' = decisions
      /\ registry' = registry /\ evaluation' = evaluation /\ cmd' = cmd
      /\ crashes' = crashes /\ trouble' = trouble
  BY DEF vars
<1>2. /\ DecidedIds' = DecidedIds /\ (DecidedOnce <=> DecidedOnce')
      /\ load_state' = load_state /\ load_task_knowledge_view' = load_task_knowledge_view
      /\ (Calm <=> Calm')
  BY <1>1 DEF DecidedIds, DecidedOnce, Promotions, load_state, load_task_knowledge_view,
     task_exists, task_has_knowledge, Calm
<1>3. \A p \in Procs : busy(p)' <=> busy(p)
  BY <1>1 DEF busy
<1>4. AllIdle' <=> AllIdle
  BY <1>3 DEF AllIdle
<1>5. Rested => Rested'
  BY <1>1, <1>2 DEF Rested
<1>6. \A p \in Procs : Told(p) => Told(p)'
  BY <1>1, <1>2 DEF Told
<1>7. OneRecordPerKey(registry)' <=> OneRecordPerKey(registry)
  BY <1>1
<1> QED BY <1>2, <1>3, <1>4, <1>5, <1>6, <1>7 DEF TellInv

LEMMA NextTells ==
  ASSUME None \notin Lists, TypeInv, AloneInv, TellInv, [Next]_vars
  PROVE  TellInv'
<1>1. CASE UNCHANGED vars
  BY <1>1, SameTells
<1>2. CASE Next /\ ~Calm'
  BY <1>2 DEF TellInv
<1>3. CASE Next /\ Calm'
  <2>1. Calm
    BY <1>3, CalmBefore
  <2>2. ASSUME NEW p \in Procs, Command(p) PROVE TellInv'
    BY <1>3, <2>1, <2>2, CommandTells
  <2>3. ASSUME NEW p \in Procs, Step(p) PROVE TellInv'
    BY <1>3, <2>1, <2>3, StepKeepsTold
  <2>4. ASSUME NEW p \in Procs, Crash(p) PROVE FALSE
    <3>1. crashes' = crashes + 1
      BY <2>4 DEF Crash
    <3> QED BY <1>3, <2>1, <3>1 DEF Calm
  <2> QED BY <1>3, <2>2, <2>3, <2>4 DEF Next
<1> QED BY <1>1, <1>2, <1>3

LEMMA TellsHold ==
  ASSUME None \notin Lists
  PROVE  Spec => [](TypeInv /\ DecisionInv /\ TellInv)
<1>1. Init => TypeInv /\ DecisionInv /\ AloneInv /\ TellInv
  <2>1. Init => AloneInv
    BY IdleType DEF Init, AloneInv, Alone, busy
  <2> QED BY <2>1, InitType, InitDecided, InitTells
<1>2. TypeInv /\ DecisionInv /\ AloneInv /\ TellInv /\ [Next]_vars =>
        TypeInv' /\ DecisionInv' /\ AloneInv' /\ TellInv'
  BY NextType, NextDecided, NextAlone, NextTells
<1> QED BY <1>1, <1>2, PTL DEF Spec

LEMMA UndisturbedRests ==
  ASSUME TellInv, Undisturbed
  PROVE  DecidedOnce /\ OneRecordPerKey(registry) /\ Rested
  BY DEF TellInv, Undisturbed, Calm

LEMMA TellInvCompletes ==
  ASSUME DecisionInv, TellInv PROVE PromotionIsComplete
<1> SUFFICES ASSUME Undisturbed
             PROVE  /\ audit_canonical_registry.duplicate_active_keys = {}
                    /\ audit_canonical_registry.orphan_records \subseteq {0}
                    /\ \A k \in Promotions :
                         LET i == decisions[k].object
                         IN /\ i \in DOMAIN registry
                            /\ load_task_knowledge_view[i].stage = "canonical"
                            /\ build_review_queue(load_task_knowledge_view, decisions)[i] = "none"
                            /\ \A l \in Promotions : decisions[l].object = i => l = k
  BY DEF PromotionIsComplete
<1>1. DecidedOnce /\ OneRecordPerKey(registry) /\ Rested
  BY UndisturbedRests
<1>2. DecidedIds \subseteq DOMAIN registry /\ CanonIn(load_task_knowledge_view, DecidedIds)
  BY <1>1, RestedFacts
<1>3. audit_canonical_registry.duplicate_active_keys = {}
  BY <1>1 DEF audit_canonical_registry, OneRecordPerKey
<1>4. audit_canonical_registry.orphan_records \subseteq {0}
  <2>1. \A i \in DOMAIN registry : i = 0 \/ i \in DOMAIN load_task_knowledge_view
    BY <1>2 DEF DecisionInv, Decided, CanonIn
  <2> QED BY <2>1 DEF audit_canonical_registry
<1>5. ASSUME NEW k \in Promotions
      PROVE  LET i == decisions[k].object
             IN /\ i \in DOMAIN registry
                /\ load_task_knowledge_view[i].stage = "canonical"
                /\ build_review_queue(load_task_knowledge_view, decisions)[i] = "none"
                /\ \A l \in Promotions : decisions[l].object = i => l = k
  <2> DEFINE i == decisions[k].object
             view == load_task_knowledge_view
  <2>1. i \in DecidedIds
    BY DEF DecidedIds
  <2>2. i \in DOMAIN registry /\ i \in DOMAIN view /\ view[i].stage = "canonical"
    BY <1>2, <2>1 DEF CanonIn
  <2>3. \A l \in Promotions : decisions[l].object = i => l = k
    BY <1>1 DEF DecidedOnce
  <2> HIDE DEF i, view
  <2>4. build_review_queue(view, decisions)[i] = "none"
    BY <2>2 DEF build_review_queue, classify_review_entry
  <2> QED BY <2>2, <2>3, <2>4 DEF i, view
<1> QED BY <1>3, <1>4, <1>5

LEMMA TellInvTells == ASSUME TellInv PROVE IndexTellsView
<1> SUFFICES ASSUME Undisturbed
             PROVE  /\ "refresh" \notin trouble =>
                         files.derived.index = build_knowledge_index(load_task_knowledge_view)
                    /\ compare_canonical_reuse_regression = {}
  BY DEF IndexTellsView
<1>1. /\ evaluation.baseline = build_canonical_reuse_evaluation_summary(evaluation.records)
      /\ "refresh" \notin trouble =>
           files.derived.index = build_knowledge_index(load_task_knowledge_view)
  BY UndisturbedRests, RestedFacts
<1>2. compare_canonical_reuse_regression = {}
  BY <1>1 DEF compare_canonical_reuse_regression
<1> QED BY <1>1, <1>2

(* A promotion that nothing disturbed is complete, whatever was captured,  *)
(* decided or run since, by commands of whichever processes: the operator's*)
(* decision and the librarian's round log it once, record it, and leave it *)
(* canonical in the store; later commands read it there and keep it.       *)
THEOREM PromotionsComplete ==
  ASSUME None \notin Lists PROVE Spec => []PromotionIsComplete
<1>1. Spec => [](TypeInv /\ DecisionInv /\ TellInv)
  BY TellsHold
<1>2. TypeInv /\ DecisionInv /\ TellInv => PromotionIsComplete
  BY TellInvCompletes
<1> QED BY <1>1, <1>2, PTL

(* Between undisturbed commands the knowledge index offers for reuse what  *)
(* the view holds ready for it, unless evidence was refreshed, and the     *)
(* baseline of the reuse evaluations is the summary of their log.          *)
THEOREM IndexTellsTheView ==
  ASSUME None \notin Lists PROVE Spec => []IndexTellsView
<1>1. Spec => [](TypeInv /\ DecisionInv /\ TellInv)
  BY TellsHold
<1>2. TypeInv /\ DecisionInv /\ TellInv => IndexTellsView
  BY TellInvTells
<1> QED BY <1>1, <1>2, PTL

=============================================================================
