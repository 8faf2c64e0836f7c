------------------------ MODULE SubtaskFanoutProofs ------------------------
(***************************************************************************)
(* Proofs about SubtaskFanout, for any number of cards, any depends_on     *)
(* lists, number of workers, budget and costs.                             *)
(***************************************************************************)
EXTENDS SubtaskFanout, DataInduction, SequenceTheorems

AllIds == Cards \cup {UnknownCard}
Open == AllIds \ Processed

(* While the levels are built: indegree counts the entries whose card is   *)
(* not in a level yet, and the cards without such an entry are in a level  *)
(* or ready.                                                               *)
Building ==
  pc = "levels" =>
    /\ ~Invalid
    /\ \A c \in Cards : indegree[c] = Listed(depends_on[c], Open)
    /\ {c \in Cards : indegree[c] = 0} = Processed \cup ready
    /\ Processed \cap ready = {}

(* A card's dependencies are cards of lower levels; a card is in one level. *)
Ordered ==
  \A i \in DOMAIN levels : \A c \in levels[i] :
    /\ depends_on[c][UnknownCard] = 0
    /\ \A d \in Cards :
         depends_on[c][d] > 0 => \E j \in DOMAIN levels : j < i /\ d \in levels[j]
Disjoint ==
  \A i, j \in DOMAIN levels : levels[i] \cap levels[j] # {} => i = j

Started == pc \in {"run", "retry", "done"}
Complete == Started => Processed = Cards /\ level \in DOMAIN levels
Refused == pc = "raised" => \E S \in SUBSET Cards : Stuck(S)
NoLevelsYet == pc = "validate" => levels = <<>>

PlanInv == Building /\ Ordered /\ Disjoint /\ Complete /\ Refused /\ NoLevelsYet

(* Lower levels are recorded, higher ones are waiting; a card without its  *)
(* turn has no record.                                                     *)
Phases ==
  /\ ~Started => \A c \in Cards : phase[c] = "waiting"
  /\ Started => \A i \in DOMAIN levels : \A c \in levels[i] :
       (i < level => phase[c] = "recorded") /\ (i > level => phase[c] = "waiting")
  /\ pc \in {"retry", "done"} => \A c \in Cards : phase[c] = "recorded"
Recorded ==
  \A c \in Cards : /\ phase[c] # "recorded" => record[c] = NoRecord
                   /\ record[c].executor = "completed" => record[c].kind = "none"

FanInv == TypeOK /\ PlanInv /\ Phases /\ Recorded

(* Before the retries the log, the queue and the list of exhausted cards   *)
(* are empty; between two cards no round has been counted.                 *)
Untouched ==
  /\ pc \notin {"retry", "done"} => queue = {} /\ exhausted = {} /\ log = <<>>
  /\ pc = "done" => queue = {}
  /\ queue = {} => round = 0 /\ retries = <<>>

(* Attempts 1 to last of a card are in the log, in order, and only the     *)
(* last may say completed.                                                 *)
Logged(c, last, completed) ==
  /\ AttemptsOf(c) = 1 .. last
  /\ \A i, j \in EventsOf(c) : i < j => log[i].attempt < log[j].attempt
  /\ \A i \in EventsOf(c) : log[i].completed <=> log[i].attempt = last /\ completed

(* A card still in the queue has its first attempt in the log; one that is *)
(* through has all its attempts there.                                     *)
Waiting ==
  \A c \in queue : /\ Logged(c, 1, FALSE)
                   /\ c # current => ~Completed(record[c])
Through ==
  pc \in {"retry", "done"} =>
    \A c \in Cards \ queue :
      \E last \in 1 .. DEBATE_MAX_ROUNDS + 1 :
        /\ Logged(c, last, Completed(record[c]))
        /\ c \in exhausted => last = DEBATE_MAX_ROUNDS + 1 /\ Rejected(record[c])
        /\ c \notin exhausted => ~Rejected(record[c])

(* The attempts of the card whose turn it is. *)
Retrying ==
  queue # {} =>
    /\ Len(retries) = round
    /\ \A i \in 1 .. round : retries[i] <=> i = round /\ Completed(record[current])
    /\ round = 0 => ~Completed(record[current])

RetryInv == Untouched /\ exhausted \cap queue = {} /\ Waiting /\ Through /\ Retrying

-----------------------------------------------------------------------------
(* Counting the entries of a depends_on list *)

(* The cards are finitely many. *)
LEMMA FiniteCards == IsFiniteSet(AllIds) /\ IsFiniteSet(Cards)
<1>1. IsFiniteSet(Cards)
  BY PlanAssumption, FS_Interval DEF Cards
<1> QED BY <1>1, FS_AddElement DEF AllIds

(* A list names an id a finite number of times. *)
LEMMA EntriesFinite ==
  ASSUME NEW list \in [AllIds -> Nat], NEW S \in SUBSET AllIds
  PROVE  IsFiniteSet(Entries(list, S))
<1> DEFINE named == [d \in S |-> {d} \X (1 .. list[d])]
           T == {{d} \X (1 .. list[d]) : d \in S}
<1>1. IsFiniteSet(S)
  BY FiniteCards, FS_Subset
<1>2. named \in Surjection(S, T)
  BY DEF Surjection
<1>3. IsFiniteSet(T)
  BY <1>1, <1>2, FS_Surjection
<1>4. \A d \in S : IsFiniteSet({d} \X (1 .. list[d]))
  <2> TAKE d \in S
  <2>1. IsFiniteSet({d})
    BY FS_Singleton
  <2>2. IsFiniteSet(1 .. list[d])
    <3>1. list[d] \in Int /\ 1 \in Int
      OBVIOUS
    <3> QED BY <3>1, FS_Interval
  <2> QED BY <2>1, <2>2, FS_Product
<1>5. \A U \in T : IsFiniteSet(U)
  BY <1>4
<1> QED BY <1>3, <1>5, FS_UNION DEF Entries

(* How often a list names the ids of a set: never, if and only if it names *)
(* none of them; and the ids of a part of the set can be counted apart.    *)
LEMMA ListedFacts ==
  ASSUME NEW list \in [AllIds -> Nat], NEW S \in SUBSET AllIds
  PROVE  /\ Listed(list, S) \in Nat
         /\ Listed(list, S) = 0 <=> \A d \in S : list[d] = 0
         /\ \A T \in SUBSET S : Listed(list, S \ T) = Listed(list, S) - Listed(list, T)
<1>1. IsFiniteSet(Entries(list, S))
  BY EntriesFinite
<1>2. Listed(list, S) \in Nat
  BY <1>1, FS_CardinalityType DEF Listed
<1>3. Entries(list, S) = {} <=> \A d \in S : list[d] = 0
  <2>1. ASSUME NEW d \in S, list[d] # 0 PROVE <<d, 1>> \in Entries(list, S)
    <3>1. <<d, 1>> \in {d} \X (1 .. list[d])
      BY <2>1
    <3> QED BY <3>1 DEF Entries
  <2>2. ASSUME NEW e \in Entries(list, S) PROVE \E d \in S : list[d] # 0
    <3>1. PICK d \in S : e \in {d} \X (1 .. list[d])
      BY <2>2 DEF Entries
    <3> QED BY <3>1
  <2> QED BY <2>1, <2>2
<1>4. ASSUME NEW T \in SUBSET S
      PROVE  Listed(list, S \ T) = Listed(list, S) - Listed(list, T)
  <2>1. Entries(list, T) = Entries(list, S) \cap Entries(list, T)
    BY DEF Entries
  <2>2. Entries(list, S \ T) = Entries(list, S) \ Entries(list, T)
    BY DEF Entries
  <2> QED BY <1>1, <2>1, <2>2, FS_Difference DEF Listed
<1> QED BY <1>1, <1>2, <1>3, <1>4, FS_EmptySet DEF Listed

(* A further level adds its cards. *)
LEMMA ProcessedGrows ==
  ASSUME NEW L \in Seq(SUBSET Cards), NEW R \in SUBSET Cards, levels = L,
         levels' = Append(L, R)
  PROVE  /\ Processed' = Processed \cup R
         /\ Len(levels') = Len(L) + 1
         /\ DOMAIN levels' = 1 .. Len(L) + 1 /\ DOMAIN levels = 1 .. Len(L)
         /\ \A i \in 1 .. Len(L) : levels'[i] = levels[i]
         /\ levels'[Len(L) + 1] = R
<1>1. /\ Len(levels') = Len(L) + 1 /\ levels' \in Seq(SUBSET Cards)
      /\ \A i \in 1 .. Len(L) : levels'[i] = levels[i]
      /\ levels'[Len(L) + 1] = R
  BY AppendProperties
<1>2. DOMAIN levels' = 1 .. Len(L) + 1 /\ DOMAIN levels = 1 .. Len(L) /\ Len(L) \in Nat
  BY <1>1
<1>3. Processed' = Processed \cup R
  BY <1>1, <1>2 DEF Processed
<1> QED BY <1>1, <1>2, <1>3

-----------------------------------------------------------------------------
(* The plan and the phases of its cards *)

(* Init establishes both invariants. *)
LEMMA FanInit == Init => FanInv /\ RetryInv
<1> SUFFICES ASSUME Init PROVE FanInv /\ RetryInv
  OBVIOUS
<1>1. TypeOK
  <2>1. \A S : <<>> \in Seq(S)
    OBVIOUS
  <2>2. /\ retries \in Seq(BOOLEAN) /\ log \in Seq(Attempts)
        /\ levels \in Seq(SUBSET Cards)
    BY <2>1, Zenon DEF Init
  <2>3. depends_on \in [Cards -> [Cards \cup {UnknownCard} -> Nat]]
    BY PlanAssumption DEF Init
  <2>4. record \in [Cards -> Record] /\ round \in 0 .. DEBATE_MAX_ROUNDS
    BY DEF Init, Record, NoRecord, DEBATE_MAX_ROUNDS
  <2>5. counted \in Nat /\ incurred \in Nat
    BY PlanAssumption DEF Init
  <2> QED BY <2>2, <2>3, <2>4, <2>5 DEF Init, TypeOK
<1>2. PlanInv
  BY DEF Init, PlanInv, Building, Ordered, Disjoint, Complete, Started, Refused,
     NoLevelsYet
<1>3. Phases /\ Recorded
  BY DEF Init, Phases, Recorded, Started, NoRecord
<1>4. RetryInv
  BY DEF Init, RetryInv, Untouched, Waiting, Through, Retrying
<1> QED BY <1>1, <1>2, <1>3, <1>4 DEF FanInv

(* Once the cards run, the plan stays as it is. *)
LEMMA PlanFrame ==
  ASSUME FanInv, Started, Started', UNCHANGED <<depends_on, levels>>,
         level' \in DOMAIN levels
  PROVE  PlanInv'
  BY DEF FanInv, PlanInv, Building, Ordered, Disjoint, Complete, Started, Refused,
     NoLevelsYet, Processed

(* Validation refuses a plan with a card that depends on itself or on an   *)
(* unknown card, and counts the entries of the others.                     *)
LEMMA ValidateStep == ASSUME FanInv, validate_cards PROVE FanInv'
<1>1. /\ levels = <<>> /\ levels' = <<>> /\ Processed = {} /\ Processed' = {}
      /\ depends_on' = depends_on /\ depends_on \in [Cards -> [AllIds -> Nat]]
  <2>1. levels = <<>> /\ levels' = <<>> /\ depends_on' = depends_on
    BY DEF FanInv, PlanInv, NoLevelsYet, validate_cards
  <2>2. Processed = {} /\ Processed' = {}
    BY <2>1 DEF Processed
  <2>3. depends_on \in [Cards -> [AllIds -> Nat]]
    BY DEF FanInv, TypeOK, AllIds
  <2> QED BY <2>1, <2>2, <2>3
<1>2. \A c \in Cards : Listed(depends_on[c], AllIds) \in Nat
  BY <1>1, ListedFacts
<1>3. indegree' = [c \in Cards |-> Listed(depends_on[c], AllIds)]
  BY DEF validate_cards, AllIds
<1>4. TypeOK'
  BY <1>2, <1>3 DEF FanInv, TypeOK, validate_cards, cardVars, retryVars, costVars
<1>5. Building'
  BY <1>1, <1>3 DEF Building, validate_cards, Open, Invalid, AllIds
<1>6. Refused'
  <2> SUFFICES ASSUME Invalid PROVE \E S \in SUBSET Cards : Stuck(S)'
    BY DEF Refused, validate_cards
  <2>1. PICK c \in Cards : depends_on[c][c] > 0 \/ depends_on[c][UnknownCard] > 0
    BY DEF Invalid
  <2>2. Stuck({c})'
    BY <1>1, <2>1 DEF Stuck
  <2> QED BY <2>2
<1>7. Ordered' /\ Disjoint' /\ Complete' /\ NoLevelsYet'
  BY <1>1 DEF Ordered, Disjoint, Complete, NoLevelsYet, Started, validate_cards
<1>8. Phases' /\ Recorded'
  BY DEF FanInv, Phases, Recorded, Started, validate_cards, cardVars
<1> QED BY <1>4, <1>5, <1>6, <1>7, <1>8 DEF FanInv, PlanInv

(* A level takes the cards all of whose dependencies are in lower ones. *)
LEMMA NextLevelStep == ASSUME FanInv, next_level PROVE FanInv'
<1>1. /\ pc = "levels" /\ pc' = "levels" /\ ready \in SUBSET Cards
      /\ levels \in Seq(SUBSET Cards) /\ levels' = Append(levels, ready)
      /\ depends_on' = depends_on /\ depends_on \in [Cards -> [AllIds -> Nat]]
      /\ indegree \in [Cards -> Nat] /\ Len(levels) \in Nat
  <2>1. ready \in SUBSET Cards /\ levels \in Seq(SUBSET Cards)
    BY DEF FanInv, TypeOK
  <2>2. Len(levels) \in Nat
    BY <2>1
  <2>3. depends_on \in [Cards -> [AllIds -> Nat]] /\ indegree \in [Cards -> Nat]
    BY DEF FanInv, TypeOK, AllIds
  <2> QED BY <2>1, <2>2, <2>3 DEF next_level
<1>2. /\ Processed' = Processed \cup ready
      /\ DOMAIN levels' = 1 .. Len(levels) + 1 /\ DOMAIN levels = 1 .. Len(levels)
      /\ \A i \in 1 .. Len(levels) : levels'[i] = levels[i]
      /\ levels'[Len(levels) + 1] = ready
  BY <1>1, ProcessedGrows
<1>3. /\ \A c \in Cards : indegree[c] = Listed(depends_on[c], Open)
      /\ {c \in Cards : indegree[c] = 0} = Processed \cup ready
      /\ Processed \cap ready = {} /\ ~Invalid
  BY <1>1 DEF FanInv, PlanInv, Building
<1>4. /\ Open' = Open \ ready /\ ready \in SUBSET Open /\ Open \in SUBSET AllIds
      /\ Open' \in SUBSET AllIds
  BY <1>1, <1>2, <1>3 DEF Open, AllIds
<1>5. \A c \in Cards : indegree'[c] = Listed(depends_on[c], Open')
  <2> TAKE c \in Cards
  <2>1. depends_on[c] \in [AllIds -> Nat]
    BY <1>1
  <2>2. Listed(depends_on[c], Open \ ready)
          = Listed(depends_on[c], Open) - Listed(depends_on[c], ready)
    BY <1>4, <2>1, ListedFacts
  <2> QED BY <1>3, <1>4, <2>2 DEF next_level
<1>6. \A c \in Cards : indegree'[c] \in Nat /\ (indegree[c] = 0 => indegree'[c] = 0)
  <2> TAKE c \in Cards
  <2>1. depends_on[c] \in [AllIds -> Nat]
    BY <1>1
  <2>2. /\ Listed(depends_on[c], Open') \in Nat
        /\ Listed(depends_on[c], Open') = 0 <=> \A d \in Open' : depends_on[c][d] = 0
        /\ Listed(depends_on[c], Open) = 0 <=> \A d \in Open : depends_on[c][d] = 0
    BY <1>4, <2>1, ListedFacts
  <2> QED BY <1>3, <1>4, <1>5, <2>2
<1>7. TypeOK'
  <2>1. indegree' \in [Cards -> Nat]
    BY <1>6 DEF next_level
  <2>2. levels' \in Seq(SUBSET Cards)
    BY <1>1, AppendProperties
  <2>3. ready' \subseteq Cards
    BY DEF next_level
  <2> QED BY <2>1, <2>2, <2>3 DEF FanInv, TypeOK, next_level, cardVars, retryVars,
          costVars
<1>8. Building'
  <2>1. ready' = {c \in Cards : indegree[c] > 0 /\ indegree'[c] = 0}
    BY DEF next_level
  <2>2. {c \in Cards : indegree'[c] = 0} = Processed' \cup ready'
    BY <1>1, <1>2, <1>3, <1>6, <2>1
  <2>3. Processed' \cap ready' = {}
    BY <1>1, <1>2, <1>3, <2>1
  <2>4. ~Invalid'
    BY <1>1, <1>3 DEF Invalid
  <2> QED BY <1>1, <1>5, <2>2, <2>3, <2>4 DEF Building
<1>9. Ordered'
  <2>1. ASSUME NEW c \in ready
        PROVE  /\ depends_on[c][UnknownCard] = 0
               /\ \A d \in Cards : depends_on[c][d] > 0 => d \in Processed
    <3>1. indegree[c] = 0 /\ c \in Cards
      BY <1>1, <1>3
    <3>2. \A d \in Open : depends_on[c][d] = 0
      BY <1>1, <1>3, <1>4, <3>1, ListedFacts
    <3>3. UnknownCard \in Open
      BY <1>1, PlanAssumption DEF Open, AllIds, Processed
    <3> QED BY <1>1, <3>1, <3>2, <3>3 DEF Open, AllIds
  <2>2. \A d \in Processed : \E j \in 1 .. Len(levels) : d \in levels'[j]
    BY <1>2 DEF Processed
  <2>3. \A i \in 1 .. Len(levels) : \A c \in levels'[i] :
          /\ depends_on[c][UnknownCard] = 0
          /\ \A d \in Cards : depends_on[c][d] > 0 =>
               \E j \in 1 .. Len(levels) : j < i /\ d \in levels'[j]
    BY <1>2 DEF FanInv, PlanInv, Ordered
  <2>4. \A c \in levels'[Len(levels) + 1] :
          /\ depends_on[c][UnknownCard] = 0
          /\ \A d \in Cards : depends_on[c][d] > 0 =>
               \E j \in 1 .. Len(levels) : d \in levels'[j]
    BY <1>2, <2>1, <2>2
  <2>5. ASSUME NEW i \in DOMAIN levels', NEW c \in levels'[i]
        PROVE  /\ depends_on'[c][UnknownCard] = 0
               /\ \A d \in Cards : depends_on'[c][d] > 0 =>
                    \E j \in DOMAIN levels' : j < i /\ d \in levels'[j]
    <3>1. CASE i \in 1 .. Len(levels)
      <4>1. \A j \in 1 .. Len(levels) : j \in DOMAIN levels'
        BY <1>1, <1>2
      <4>2. c \in levels'[i] /\ depends_on' = depends_on
        BY <1>1, <2>5
      <4> QED BY <2>3, <3>1, <4>1, <4>2
    <3>2. CASE i = Len(levels) + 1
      BY <1>1, <1>2, <2>4, <2>5, <3>2
    <3> QED BY <1>1, <1>2, <2>5, <3>1, <3>2
  <2> QED BY <2>5 DEF Ordered
<1>10. Disjoint'
  <2>1. \A i \in 1 .. Len(levels) : levels'[i] \cap ready = {}
    BY <1>2, <1>3 DEF Processed
  <2> QED BY <1>1, <1>2, <2>1 DEF FanInv, PlanInv, Disjoint
<1>11. Complete' /\ Refused' /\ NoLevelsYet'
  BY <1>1 DEF Complete, Refused, NoLevelsYet, Started
<1>12. Phases' /\ Recorded'
  BY <1>1 DEF FanInv, Phases, Recorded, Started, next_level, cardVars
<1> QED BY <1>7, <1>8, <1>9, <1>10, <1>11, <1>12 DEF FanInv, PlanInv

(* When no card is ready, the cards that are in no level wait for each     *)
(* other.                                                                  *)
LEMMA LevelsBuiltStep == ASSUME FanInv, levels_built PROVE FanInv'
<1>1. /\ pc = "levels" /\ ready = {} /\ level' = 1 /\ levels' = levels
      /\ depends_on' = depends_on /\ depends_on \in [Cards -> [AllIds -> Nat]]
      /\ pc' = (IF Processed = Cards THEN "run" ELSE "raised")
      /\ indegree \in [Cards -> Nat] /\ levels \in Seq(SUBSET Cards)
  BY DEF FanInv, levels_built, TypeOK, AllIds, levelVars
<1>2. /\ \A c \in Cards : indegree[c] = Listed(depends_on[c], Open)
      /\ {c \in Cards : indegree[c] = 0} = Processed
  BY <1>1 DEF FanInv, PlanInv, Building
<1>3. TypeOK'
  <2>1. level' \in Nat /\ pc' \in {"run", "raised"}
    BY <1>1
  <2> QED BY <2>1 DEF FanInv, TypeOK, levels_built, levelVars, retryVars, costVars
<1>4. Processed' = Processed
  BY <1>1 DEF Processed
<1>5. Refused'
  <2> SUFFICES ASSUME Processed # Cards PROVE \E S \in SUBSET Cards : Stuck(S)'
    BY <1>1 DEF Refused
  <2> DEFINE S == Cards \ Processed
  <2>1. S # {}
    BY <1>2
  <2>2. ASSUME NEW c \in S
        PROVE  depends_on[c][UnknownCard] > 0 \/ \E d \in S : depends_on[c][d] > 0
    <3>1. indegree[c] # 0 /\ Open \in SUBSET AllIds
      BY <1>2 DEF Open
    <3>2. depends_on[c] \in [AllIds -> Nat]
      BY <1>1
    <3>3. PICK d \in Open : depends_on[c][d] # 0
      BY <1>2, <3>1, <3>2, ListedFacts
    <3> QED BY <3>2, <3>3 DEF Open, AllIds
  <2>3. Stuck(S)'
    BY <1>1, <1>4, <2>1, <2>2 DEF Stuck
  <2> QED BY <2>3
<1>6. Complete'
  <2> SUFFICES ASSUME Processed = Cards PROVE 1 \in DOMAIN levels
    BY <1>1, <1>4 DEF Complete, Started
  <2>1. 1 \in Cards
    BY PlanAssumption DEF Cards
  <2> QED BY <1>1, <2>1 DEF Processed
<1>7. Building' /\ Ordered' /\ Disjoint' /\ NoLevelsYet'
  BY <1>1 DEF FanInv, PlanInv, Building, Ordered, Disjoint, NoLevelsYet
<1>8. Phases' /\ Recorded'
  <2>1. \A c \in Cards : phase'[c] = "waiting" /\ record'[c] = record[c]
    BY <1>1 DEF FanInv, Phases, Started, levels_built
  <2>2. \A i \in DOMAIN levels : levels[i] \subseteq Cards /\ i >= 1
    BY <1>1
  <2> QED BY <1>1, <2>1, <2>2 DEF FanInv, Phases, Recorded, Started, levels_built
<1> QED BY <1>3, <1>5, <1>6, <1>7, <1>8 DEF FanInv, PlanInv


(* One card moves within the level being gathered. *)
LEMMA CardPhase ==
  ASSUME FanInv, NEW c \in Cards, phase[c] # "recorded", pc' = pc,
         UNCHANGED <<depends_on, levels, level>>,
         NEW p \in {"waiting", "executing", "reviewing", "recorded"},
         NEW rec \in Record, phase' = [phase EXCEPT ![c] = p],
         record' = [record EXCEPT ![c] = rec],
         p # "recorded" => rec = NoRecord,
         rec.executor = "completed" => rec.kind = "none",
         Started, c \in levels[level]
  PROVE  /\ PlanInv' /\ Phases' /\ Recorded'
         /\ phase' \in [Cards -> {"waiting", "executing", "reviewing", "recorded"}]
         /\ record' \in [Cards -> Record]
<1>1. phase \in [Cards -> {"waiting", "executing", "reviewing", "recorded"}]
      /\ record \in [Cards -> Record] /\ levels \in Seq(SUBSET Cards)
  BY DEF FanInv, TypeOK
<1>2. level \in DOMAIN levels
  BY DEF FanInv, PlanInv, Complete
<1>3. PlanInv'
  BY <1>2, PlanFrame DEF Started
<1>4. \A i \in DOMAIN levels : c \in levels[i] => i = level
  BY <1>2 DEF FanInv, PlanInv, Disjoint
<1>5. pc = "run"
  BY DEF FanInv, Phases, Started
<1>6. Phases'
  <2>1. ASSUME NEW i \in DOMAIN levels, NEW d \in levels[i]
        PROVE  (i < level => phase'[d] = "recorded") /\ (i > level => phase'[d] = "waiting")
    <3>1. d \in Cards /\ i \in Nat /\ level \in Nat
      BY <1>1, <1>2
    <3>2. (i < level => phase[d] = "recorded") /\ (i > level => phase[d] = "waiting")
      BY DEF FanInv, Phases
    <3>3. CASE d = c
      BY <1>4, <3>1, <3>3
    <3>4. CASE d # c
      BY <1>1, <3>1, <3>2, <3>4
    <3> QED BY <3>3, <3>4
  <2> QED BY <1>5, <2>1 DEF Phases, Started
<1>7. Recorded'
  BY <1>1 DEF FanInv, Recorded
<1> QED BY <1>1, <1>3, <1>6, <1>7

(* A card with a phase of its own is a card of the level being gathered. *)
LEMMA InFlightLevel ==
  ASSUME FanInv, NEW c \in Cards, phase[c] \in {"executing", "reviewing"}
  PROVE  pc = "run" /\ c \in levels[level]
<1>1. pc = "run"
  BY DEF FanInv, Phases, Started, TypeOK
<1>2. levels \in Seq(SUBSET Cards) /\ level \in DOMAIN levels /\ Processed = Cards
  BY <1>1 DEF FanInv, PlanInv, Complete, Started, TypeOK
<1>3. PICK i \in DOMAIN levels : c \in levels[i]
  BY <1>2 DEF Processed
<1>4. ~(i < level) /\ ~(i > level)
  BY <1>1, <1>3 DEF FanInv, Phases, Started
<1>5. i \in Nat /\ level \in Nat
  BY <1>2
<1> QED BY <1>1, <1>3, <1>4, <1>5

(* The records a card can get are records. *)
LEMMA RecordTypes ==
  /\ \A kind \in {"call_failed", "subtask_timeout", "budget_exhausted"} :
       FailedRecord(kind) \in Record /\ FailedRecord(kind).executor = "failed"
  /\ \A verdict \in {"passed", "failed"} :
       /\ ReviewedRecord(verdict) \in Record
       /\ ReviewedRecord(verdict).kind = "none"
       /\ ReviewedRecord(verdict).executor = "completed"
  /\ NoRecord \in Record /\ NoRecord.executor = "none"
  BY DEF FailedRecord, ReviewedRecord, NoRecord, Record

(* The steps of a card within its level. *)
LEMMA CardStepFan == ASSUME FanInv, NEW c \in Cards, CardStep(c) PROVE FanInv'
<1>1. /\ pc = "run" /\ c \in levels[level] /\ phase[c] # "recorded"
      /\ record[c] = NoRecord
  BY InFlightLevel DEF CardStep, execute_subtask, run_execution, run_review_gate,
     subtask_timeout, FanInv, Recorded
<1>2. PICK p \in {"waiting", "executing", "reviewing", "recorded"}, rec \in Record :
        /\ phase' = [phase EXCEPT ![c] = p]
        /\ record' = [record EXCEPT ![c] = rec]
        /\ p # "recorded" => rec = NoRecord
        /\ rec.executor = "completed" => rec.kind = "none"
  <2>0. record = [record EXCEPT ![c] = NoRecord]
    BY <1>1 DEF FanInv, TypeOK
  <2>1. CASE execute_subtask(c)
    BY <2>0, <2>1, RecordTypes DEF execute_subtask, Put
  <2>2. CASE run_execution(c)
    BY <2>0, <2>2, RecordTypes DEF run_execution, Put
  <2>3. CASE run_review_gate(c)
    BY <2>3, RecordTypes DEF run_review_gate, Put
  <2>4. CASE subtask_timeout(c)
    BY <2>4, RecordTypes DEF subtask_timeout, Put
  <2> QED BY <2>1, <2>2, <2>3, <2>4 DEF CardStep
<1>3. /\ pc' = pc /\ UNCHANGED <<depends_on, levels, level, indegree, ready, queue,
                                 round, retries, exhausted, counted, log>>
      /\ incurred' \in Nat
  BY PlanAssumption DEF CardStep, execute_subtask, run_execution, run_review_gate,
     subtask_timeout, levelVars, retryVars, costVars, FanInv, TypeOK
<1>4. /\ PlanInv' /\ Phases' /\ Recorded'
      /\ phase' \in [Cards -> {"waiting", "executing", "reviewing", "recorded"}]
      /\ record' \in [Cards -> Record]
  BY <1>1, <1>2, <1>3, CardPhase DEF Started
<1> QED BY <1>3, <1>4 DEF FanInv, TypeOK

(* The steps between levels and to the retries. *)
LEMMA LevelStepFan == ASSUME FanInv, finish_level \/ collect_records PROVE FanInv'
<1>1. /\ pc = "run" /\ UNCHANGED <<depends_on, levels, indegree, ready, phase, record,
                                  round, retries, exhausted, counted, incurred>>
      /\ \A c \in levels[level] : phase[c] = "recorded"
  BY DEF finish_level, collect_records, LevelDone, levelVars, cardVars, retryVars,
     costVars
<1>2. /\ levels \in Seq(SUBSET Cards) /\ level \in DOMAIN levels /\ Processed = Cards
      /\ DOMAIN levels = 1 .. Len(levels) /\ Len(levels) \in Nat
  BY <1>1 DEF FanInv, PlanInv, Complete, Started, TypeOK
<1>3. \A i \in DOMAIN levels : \A c \in levels[i] :
        (i <= level => phase[c] = "recorded") /\ (i > level => phase[c] = "waiting")
  BY <1>1, <1>2 DEF FanInv, Phases, Started
<1>4. CASE finish_level
  <2>1. level' = level + 1 /\ level < Len(levels) /\ UNCHANGED <<pc, queue, log>>
    BY <1>4 DEF finish_level, retryVars
  <2>2. level' \in DOMAIN levels /\ level' \in Nat
    BY <1>2, <2>1
  <2>3. PlanInv'
    BY <1>1, <2>1, <2>2, PlanFrame DEF Started
  <2>4. Phases' /\ Recorded'
    BY <1>1, <1>2, <1>3, <2>1 DEF FanInv, Phases, Recorded, Started
  <2> QED BY <1>1, <2>1, <2>2, <2>3, <2>4 DEF FanInv, TypeOK
<1>5. CASE collect_records
  <2>1. /\ level = Len(levels) /\ level' = level /\ pc' = "retry"
        /\ queue' \subseteq Cards
    BY <1>5 DEF collect_records, cardVars
  <2>2. log' \in Seq(Attempts)
    <3>1. CardCount \in Nat
      BY PlanAssumption
    <3>2. \A i \in 1 .. CardCount : Completed(record[i]) \in BOOLEAN
      BY Zenon DEF Completed
    <3>3. \A i \in 1 .. CardCount :
            [card |-> i, attempt |-> 1, completed |-> Completed(record[i])] \in Attempts
      BY <3>2 DEF Attempts, Cards
    <3> QED BY <1>5, <3>1, <3>3 DEF collect_records
  <2>3. PlanInv'
    BY <1>1, <1>2, <2>1, PlanFrame DEF Started
  <2>4. \A c \in Cards : phase[c] = "recorded"
    BY <1>2, <1>3, <2>1 DEF Processed
  <2>5. Phases' /\ Recorded'
    BY <1>1, <1>2, <1>3, <2>1, <2>4 DEF FanInv, Phases, Recorded, Started
  <2> QED BY <1>1, <2>1, <2>2, <2>3, <2>5 DEF FanInv, TypeOK
<1> QED BY <1>4, <1>5

(* The first card of the queue is a card of it. *)
LEMMA CurrentQueued ==
  ASSUME TypeOK, queue # {}
  PROVE  current \in queue /\ current \in Cards /\ queue \subseteq Cards
<1>1. queue \subseteq Cards /\ queue \in SUBSET Nat
  BY PlanAssumption DEF TypeOK, Cards
<1>2. \E x \in queue : \A y \in queue : x <= y
  BY <1>1, LeastNatural
<1> QED BY <1>1, <1>2 DEF current, Min

(* The events of the retries are attempts. *)
LEMMA RetryEventsType ==
  ASSUME TypeOK, queue # {}
  PROVE  RetryEvents \in Seq(Attempts) /\ Len(RetryEvents) = Len(retries)
<1>0. retries \in Seq(BOOLEAN)
  BY DEF TypeOK
<1>1. Len(retries) \in Nat /\ current \in Cards
  BY <1>0, CurrentQueued
<1>2. \A i \in 1 .. Len(retries) : retries[i] \in BOOLEAN
  BY <1>0
<1>3. \A i \in 1 .. Len(retries) :
        [card |-> current, attempt |-> i + 1, completed |-> retries[i]] \in Attempts
  BY <1>1, <1>2 DEF Attempts
<1> QED BY <1>1, <1>3 DEF RetryEvents

(* The retries leave the plan and the phases alone. *)
LEMMA RetryStepFan ==
  ASSUME FanInv, run_subtask_attempt \/ finish_retries \/ append_parent_executor_event
  PROVE  FanInv'
<1>1. /\ pc = "retry" /\ pc' \in {"retry", "done"}
      /\ UNCHANGED <<depends_on, indegree, ready, levels, level, phase, counted>>
  BY DEF run_subtask_attempt, finish_retries, append_parent_executor_event, levelVars,
     cardVars, costVars
<1>2. level' \in DOMAIN levels
  BY <1>1 DEF FanInv, PlanInv, Complete, Started
<1>3. PlanInv' /\ Phases'
  BY <1>1, <1>2, PlanFrame DEF FanInv, Phases, Started
<1>4. CASE run_subtask_attempt
  <2>1. PICK rec \in {FailedRecord("budget_exhausted"), FailedRecord("call_failed"),
                     ReviewedRecord("failed"), ReviewedRecord("passed")} :
          /\ record' = [record EXCEPT ![current] = rec]
          /\ retries' = Append(retries, Completed(rec))
    BY <1>4 DEF run_subtask_attempt
  <2>2. current \in Cards /\ current \in queue
    BY <1>4, CurrentQueued DEF run_subtask_attempt, FanInv
  <2>3. rec \in Record /\ (rec.executor = "completed" => rec.kind = "none")
    BY RecordTypes
  <2>4. record' \in [Cards -> Record] /\ Recorded'
    BY <1>1, <2>1, <2>2, <2>3 DEF FanInv, TypeOK, Recorded, Phases
  <2>5. retries' \in Seq(BOOLEAN)
    <3>1. Completed(rec) \in BOOLEAN
      BY Zenon DEF Completed
    <3>2. retries \in Seq(BOOLEAN)
      BY DEF FanInv, TypeOK
    <3> QED BY <2>1, <3>1, <3>2, AppendProperties
  <2>6. incurred' \in Nat
    BY <1>4, PlanAssumption DEF run_subtask_attempt, FanInv, TypeOK
  <2>7. round' \in 0 .. DEBATE_MAX_ROUNDS
    BY <1>4 DEF run_subtask_attempt, retry_scheduled, FanInv, TypeOK, DEBATE_MAX_ROUNDS
  <2> QED BY <1>1, <1>3, <1>4, <2>4, <2>5, <2>6, <2>7 DEF FanInv, TypeOK,
          run_subtask_attempt
<1>5. CASE finish_retries
  <2>1. log' \in Seq(Attempts)
    BY <1>5, RetryEventsType, ConcatProperties DEF finish_retries, FanInv, TypeOK
  <2>2. queue' \subseteq Cards /\ exhausted' \subseteq Cards /\ round' \in 0 .. DEBATE_MAX_ROUNDS
    <3>1. current \in Cards /\ queue \subseteq Cards /\ exhausted \subseteq Cards
      BY <1>5, CurrentQueued DEF finish_retries, FanInv, TypeOK
    <3>2. round' \in 0 .. DEBATE_MAX_ROUNDS
      BY <1>5 DEF finish_retries, DEBATE_MAX_ROUNDS
    <3> QED BY <1>5, <3>1, <3>2 DEF finish_retries
  <2>3. retries' \in Seq(BOOLEAN)
    <3>1. \A S : <<>> \in Seq(S)
      OBVIOUS
    <3> QED BY <1>5, <3>1, Zenon DEF finish_retries
  <2>4. UNCHANGED <<record, incurred, pc>>
    BY <1>5 DEF finish_retries, cardVars, costVars
  <2> QED BY <1>1, <1>3, <2>1, <2>2, <2>3, <2>4 DEF FanInv, TypeOK, Recorded
<1>6. CASE append_parent_executor_event
  <2>1. UNCHANGED <<record, incurred, queue, round, retries, exhausted, log>>
    BY <1>6 DEF append_parent_executor_event, cardVars, costVars, retryVars
  <2> QED BY <1>1, <1>3, <2>1 DEF FanInv, TypeOK, Recorded
<1> QED BY <1>4, <1>5, <1>6

(* Every step keeps the plan, the levels and the phases in order. *)
LEMMA FanStep == FanInv /\ [Next]_vars => FanInv'
<1> SUFFICES ASSUME FanInv, [Next]_vars
             PROVE  FanInv'
  OBVIOUS
<1>1. CASE UNCHANGED vars
  <2>1. UNCHANGED <<depends_on, pc, indegree, ready, levels, level, phase, record,
                    queue, round, retries, exhausted, counted, incurred, log>>
    BY <1>1 DEF vars, levelVars, cardVars, retryVars, costVars
  <2>2. TypeOK' /\ Phases' /\ Recorded'
    BY <2>1 DEF FanInv, TypeOK, Phases, Recorded, Started
  <2>3. PlanInv'
    <3>1. Building'
      BY <2>1 DEF FanInv, PlanInv, Building, Processed, Open, Invalid
    <3>2. Ordered' /\ Disjoint' /\ NoLevelsYet'
      BY <2>1 DEF FanInv, PlanInv, Ordered, Disjoint, NoLevelsYet
    <3>3. Complete' /\ Refused'
      BY <2>1 DEF FanInv, PlanInv, Complete, Refused, Started, Processed, Stuck
    <3> QED BY <3>1, <3>2, <3>3 DEF PlanInv
  <2> QED BY <2>2, <2>3 DEF FanInv
<1> QED BY <1>1, ValidateStep, NextLevelStep, LevelsBuiltStep, CardStepFan,
           LevelStepFan, RetryStepFan DEF Next

(* The variables of the fan-out keep their types, whatever fails, times    *)
(* out or is retried.                                                      *)
THEOREM TypeCorrect == Spec => []TypeOK
<1>1. FanInv => TypeOK
  BY DEF FanInv
<1> QED BY <1>1, FanInit, FanStep, PTL DEF Spec

(* build_subtask_levels refuses a plan exactly when some cards wait for    *)
(* each other, for themselves or for an unknown card: for every number of  *)
(* cards and every depends_on list, repeated entries included.             *)
THEOREM RefusalIsExact == Spec => []RefusesExactlyBadPlans
<1>1. FanInv => RefusesExactlyBadPlans
  <2> SUFFICES ASSUME FanInv, pc = "run", NEW S \in SUBSET Cards, Stuck(S)
               PROVE  FALSE
    BY DEF FanInv, PlanInv, Refused, RefusesExactlyBadPlans
  <2>1. Processed = Cards /\ Ordered /\ levels \in Seq(SUBSET Cards)
    BY DEF FanInv, PlanInv, Complete, Started, TypeOK
  <2> DEFINE I == {i \in DOMAIN levels : levels[i] \cap S # {}}
  <2>2. I \in SUBSET Nat /\ I # {}
    BY <2>1 DEF Processed, Stuck
  <2>3. PICK i \in I : \A j \in I : i <= j
    BY <2>2, LeastNatural
  <2>4. PICK c \in S : c \in levels[i]
    BY <2>3
  <2>5. PICK d \in S : depends_on[c][d] > 0
    BY <2>1, <2>3, <2>4 DEF Stuck, Ordered
  <2>6. \E j \in DOMAIN levels : j < i /\ d \in levels[j]
    BY <2>1, <2>3, <2>4, <2>5 DEF Ordered
  <2>7. PICK j \in I : j < i
    BY <2>5, <2>6
  <2> QED BY <2>2, <2>3, <2>7
<1> QED BY <1>1, FanInit, FanStep, PTL DEF Spec

(* A card starts only after every card it depends on has its record, and   *)
(* none is left out, for every plan.                                       *)
THEOREM DependenciesComeFirst == Spec => []DependenciesFirst
<1>1. FanInv => DependenciesFirst
  <2> SUFFICES ASSUME FanInv, NEW c \in Cards, NEW d \in Cards
               PROVE  /\ depends_on[c][d] > 0 /\ phase[c] # "waiting" => phase[d] = "recorded"
                      /\ pc = "done" => phase[c] = "recorded"
    BY DEF DependenciesFirst
  <2>1. pc = "done" => phase[c] = "recorded"
    BY DEF FanInv, Phases
  <2>2. ASSUME depends_on[c][d] > 0, phase[c] # "waiting"
        PROVE  phase[d] = "recorded"
    <3>1. Started /\ Processed = Cards /\ levels \in Seq(SUBSET Cards)
          /\ level \in DOMAIN levels
      BY <2>2 DEF FanInv, Phases, PlanInv, Complete, TypeOK
    <3>2. PICK i \in DOMAIN levels : c \in levels[i]
      BY <3>1 DEF Processed
    <3>3. PICK j \in DOMAIN levels : j < i /\ d \in levels[j]
      BY <2>2, <3>2 DEF FanInv, PlanInv, Ordered
    <3>4. ~(i > level)
      BY <2>2, <3>1, <3>2 DEF FanInv, Phases
    <3>5. i \in Nat /\ j \in Nat /\ level \in Nat
      BY <3>1
    <3>6. j < level
      BY <3>3, <3>4, <3>5
    <3> QED BY <3>1, <3>3, <3>6 DEF FanInv, Phases
  <2> QED BY <2>1, <2>2
<1> QED BY <1>1, FanInit, FanStep, PTL DEF Spec

(* A card whose executor call failed, or that ran into its timeout or into *)
(* the budget, is never called again.                                      *)
THEOREM FailedIsFinal == Spec => OnlyRejectedAreRetried
<1>1. FanInv /\ [Next]_vars =>
        [\A c \in Cards : record[c].executor = "failed" => record'[c] = record[c]]_vars
  <2> SUFFICES ASSUME FanInv, Next, NEW c \in Cards, record[c].executor = "failed"
               PROVE  record'[c] = record[c]
    OBVIOUS
  <2>1. record \in [Cards -> Record] /\ phase[c] = "recorded"
    BY RecordTypes DEF FanInv, TypeOK, Recorded
  <2>2. ASSUME NEW d \in Cards, CardStep(d)
        PROVE  record'[c] = record[c]
    <3>1. phase[d] # "recorded"
      BY <2>2 DEF CardStep, execute_subtask, run_execution, run_review_gate,
         subtask_timeout
    <3> QED BY <2>1, <2>2, <3>1 DEF CardStep, execute_subtask, run_execution,
            run_review_gate, subtask_timeout, Put
  <2>3. CASE run_subtask_attempt
    <3>1. current # c
      BY <2>3 DEF run_subtask_attempt, retry_scheduled, Rejected
    <3> QED BY <2>1, <2>3, <3>1 DEF run_subtask_attempt
  <2> QED BY <2>2, <2>3 DEF Next, validate_cards, next_level, levels_built, finish_level,
          collect_records, finish_retries, append_parent_executor_event, cardVars
<1> QED BY <1>1, FanInit, FanStep, PTL DEF Spec, OnlyRejectedAreRetried

-----------------------------------------------------------------------------
(* The retries and the log *)

(* What is logged of a card depends on its events and its record only. *)
LEMMA LoggedSame ==
  ASSUME NEW c, NEW last, NEW completed, Logged(c, last, completed),
         EventsOf(c)' = EventsOf(c), \A i \in EventsOf(c) : log'[i] = log[i]
  PROVE  Logged(c, last, completed)'
  BY DEF Logged, AttemptsOf

(* Before the retries there is nothing to keep. *)
LEMMA RetryIdle ==
  ASSUME RetryInv, pc \notin {"retry", "done"}, pc' \notin {"retry", "done"},
         UNCHANGED <<queue, round, retries, exhausted, log>>
  PROVE  RetryInv'
  BY DEF RetryInv, Untouched, Waiting, Through, Retrying

(* Collecting the records logs the first attempt of every card. *)
LEMMA CollectRetry == ASSUME FanInv, RetryInv, collect_records PROVE RetryInv'
<1>1. /\ pc' = "retry" /\ record' = record /\ round' = 0 /\ retries' = <<>>
      /\ exhausted' = {} /\ queue' = {c \in Cards : ~Completed(record[c])}
      /\ log' = [i \in 1 .. CardCount |->
                  [card |-> i, attempt |-> 1, completed |-> Completed(record[i])]]
  BY DEF collect_records, LevelDone, RetryInv, Untouched, cardVars
<1>2. CardCount \in Nat
  BY PlanAssumption
<1>3. ASSUME NEW c \in Cards
      PROVE  EventsOf(c)' = {c} /\ log'[c].attempt = 1 /\
             (log'[c].completed <=> Completed(record[c]))
  <2>1. DOMAIN log' = Cards /\ \A i \in Cards : log'[i].card = i
    BY <1>1, <1>2 DEF Cards
  <2>2. EventsOf(c)' = {c}
    BY <2>1 DEF EventsOf
  <2>3. log'[c].attempt = 1 /\ log'[c].completed = Completed(record[c])
    BY <1>1, <1>2 DEF Cards
  <2> QED BY <2>2, <2>3
<1>4. ASSUME NEW c \in Cards, NEW b, b <=> Completed(record[c])
      PROVE  Logged(c, 1, b)'
  <2>1. AttemptsOf(c)' = {1} /\ 1 .. 1 = {1}
    BY <1>3 DEF AttemptsOf
  <2>2. c \in Nat
    BY <1>2 DEF Cards
  <2> QED BY <1>3, <1>4, <2>1, <2>2 DEF Logged
<1>5. Waiting'
  BY <1>1, <1>4 DEF Waiting
<1>6. Through'
  <2> SUFFICES ASSUME NEW c \in Cards \ queue'
               PROVE  \E last \in 1 .. DEBATE_MAX_ROUNDS + 1 :
                        /\ Logged(c, last, Completed(record[c]))'
                        /\ c \in exhausted' => last = DEBATE_MAX_ROUNDS + 1 /\ Rejected(record'[c])
                        /\ c \notin exhausted' => ~Rejected(record'[c])
    BY DEF Through
  <2>1. Completed(record[c]) /\ c \in Cards
    BY <1>1
  <2>2. Logged(c, 1, Completed(record[c]))'
    BY <1>1, <1>4, <2>1
  <2> QED BY <1>1, <2>1, <2>2 DEF DEBATE_MAX_ROUNDS, Completed, Rejected
<1>7. Retrying'
  <2> SUFFICES ASSUME queue' # {} PROVE ~Completed(record'[current'])
    BY <1>1 DEF Retrying
  <2>1. queue' \in SUBSET Nat
    BY <1>1, <1>2 DEF Cards
  <2>2. \E x \in queue' : \A y \in queue' : x <= y
    BY <2>1, LeastNatural
  <2>3. current' \in queue'
    BY <2>2 DEF current, Min
  <2> QED BY <1>1, <2>3
<1> QED BY <1>1, <1>5, <1>6, <1>7 DEF RetryInv, Untouched

(* A retry replaces the record of the card whose turn it is. *)
LEMMA AttemptRetry == ASSUME FanInv, RetryInv, run_subtask_attempt PROVE RetryInv'
<1>1. /\ pc = "retry" /\ queue # {} /\ UNCHANGED <<pc, queue, exhausted, log>>
      /\ Rejected(record[current]) /\ round' = round + 1 /\ round \in Nat
  BY DEF run_subtask_attempt, retry_scheduled, FanInv, TypeOK, DEBATE_MAX_ROUNDS
<1>2. current \in queue /\ current \in Cards /\ current' = current
  BY <1>1, CurrentQueued DEF FanInv, current
<1>3. PICK rec : /\ record' = [record EXCEPT ![current] = rec]
                 /\ retries' = Append(retries, Completed(rec))
  BY DEF run_subtask_attempt
<1>4. /\ record'[current] = rec
      /\ \A c \in Cards \ {current} : record'[c] = record[c]
  BY <1>2, <1>3 DEF FanInv, TypeOK
<1>5. \A c : EventsOf(c)' = EventsOf(c)
  BY <1>1 DEF EventsOf
<1>6. Waiting'
  <2> SUFFICES ASSUME NEW c \in queue
               PROVE  Logged(c, 1, FALSE)' /\ (c # current => ~Completed(record'[c]))
    BY <1>1, <1>2 DEF Waiting
  <2>1. Logged(c, 1, FALSE) /\ (c # current => ~Completed(record[c])) /\ c \in Cards
    BY <1>1, CurrentQueued DEF RetryInv, Waiting, FanInv
  <2>2. Logged(c, 1, FALSE)'
    BY <1>1, <1>5, <2>1, LoggedSame
  <2> QED BY <1>4, <2>1, <2>2
<1>7. Through'
  <2> SUFFICES ASSUME NEW c \in Cards \ queue
               PROVE  \E last \in 1 .. DEBATE_MAX_ROUNDS + 1 :
                        /\ Logged(c, last, Completed(record[c]))'
                        /\ c \in exhausted => last = DEBATE_MAX_ROUNDS + 1 /\ Rejected(record'[c])
                        /\ c \notin exhausted => ~Rejected(record'[c])
    BY <1>1 DEF Through
  <2>1. record'[c] = record[c]
    BY <1>2, <1>4
  <2>2. PICK last \in 1 .. DEBATE_MAX_ROUNDS + 1 :
          /\ Logged(c, last, Completed(record[c]))
          /\ c \in exhausted => last = DEBATE_MAX_ROUNDS + 1 /\ Rejected(record[c])
          /\ c \notin exhausted => ~Rejected(record[c])
    BY <1>1 DEF RetryInv, Through
  <2>3. Logged(c, last, Completed(record[c]))'
    BY <1>1, <1>5, <2>1, <2>2 DEF Logged, AttemptsOf
  <2> QED BY <2>1, <2>2, <2>3
<1>8. Retrying'
  <2>1. Len(retries) = round /\ \A i \in 1 .. round : ~retries[i]
    BY <1>1 DEF RetryInv, Retrying, Rejected, Completed
  <2>2. retries \in Seq(BOOLEAN)
    BY DEF FanInv, TypeOK
  <2>3. Completed(rec) \in BOOLEAN
    BY Zenon DEF Completed
  <2>4. /\ Len(retries') = round + 1
        /\ \A i \in 1 .. round : retries'[i] = retries[i]
        /\ retries'[round + 1] = Completed(rec)
    BY <1>3, <2>1, <2>2, <2>3, AppendProperties
  <2>5. \A i \in 1 .. round + 1 : retries'[i] <=> i = round + 1 /\ Completed(rec)
    BY <1>1, <2>1, <2>4
  <2> QED BY <1>1, <1>2, <1>4, <2>4, <2>5 DEF Retrying
<1>9. Untouched'
  BY <1>1 DEF RetryInv, Untouched
<1> QED BY <1>1, <1>6, <1>7, <1>8, <1>9 DEF RetryInv

(* The retries of a card are appended to the log: its events are extended, *)
(* those of the other cards stay.                                          *)
LEMMA LogRetries ==
  ASSUME FanInv, RetryInv, finish_retries,
         NEW c, c = current, NEW last, last = round + 1,
         NEW b, b <=> Completed(record[current])
  PROVE  /\ Logged(c, last, b)'
         /\ \A d : d # c => /\ EventsOf(d)' = EventsOf(d)
                            /\ \A i \in EventsOf(d) : log'[i] = log[i]
<1>1. queue # {} /\ log' = log \o RetryEvents /\ log \in Seq(Attempts)
  BY DEF finish_retries, FanInv, TypeOK
<1>2. /\ RetryEvents \in Seq(Attempts) /\ Len(RetryEvents) = round /\ round \in Nat
      /\ Len(retries) = round
  <2>1. RetryEvents \in Seq(Attempts) /\ Len(RetryEvents) = Len(retries)
    BY <1>1, RetryEventsType DEF FanInv
  <2>2. Len(retries) = round
    BY <1>1 DEF RetryInv, Retrying
  <2>3. round \in Nat
    BY DEF FanInv, TypeOK, DEBATE_MAX_ROUNDS
  <2> QED BY <2>1, <2>2, <2>3
<1> DEFINE n == Len(log)
<1>3. n \in Nat /\ DOMAIN log = 1 .. n
  BY <1>1
<1>4. /\ log' \in Seq(Attempts) /\ Len(log') = n + round
      /\ \A i \in 1 .. n : log'[i] = log[i]
      /\ \A i \in n + 1 .. n + round : log'[i] = RetryEvents[i - n]
  BY <1>1, <1>2, <1>3, ConcatProperties
<1>5. \A i \in 1 .. round :
        RetryEvents[i] = [card |-> current, attempt |-> i + 1, completed |-> retries[i]]
  BY <1>2 DEF RetryEvents
<1>6. DOMAIN log' = 1 .. n + round
  BY <1>4
<1>7. \A i \in n + 1 .. n + round :
        /\ log'[i].card = c /\ log'[i].attempt = i - n + 1
        /\ log'[i].completed = retries[i - n]
  <2> TAKE i \in n + 1 .. n + round
  <2>1. i - n \in 1 .. round
    BY <1>2, <1>3
  <2>2. log'[i] = RetryEvents[i - n]
    BY <1>4
  <2>3. RetryEvents[i - n] =
          [card |-> current, attempt |-> (i - n) + 1, completed |-> retries[i - n]]
    BY <1>5, <2>1
  <2> QED BY <2>2, <2>3
<1>8. EventsOf(c)' = EventsOf(c) \cup (n + 1 .. n + round)
  BY <1>2, <1>3, <1>4, <1>6, <1>7 DEF EventsOf
<1>9. ASSUME NEW d, d # c
      PROVE  EventsOf(d)' = EventsOf(d) /\ \A i \in EventsOf(d) : log'[i] = log[i]
  BY <1>2, <1>3, <1>4, <1>6, <1>7, <1>9 DEF EventsOf
<1>10. Logged(c, 1, FALSE)
  BY <1>1, CurrentQueued DEF RetryInv, Waiting, FanInv
<1>11. /\ EventsOf(c) # {} /\ EventsOf(c) \subseteq 1 .. n
       /\ \A i \in EventsOf(c) : log'[i].attempt = 1 /\ ~log'[i].completed
  <2>1. AttemptsOf(c) = {1} /\ EventsOf(c) \subseteq 1 .. n
    BY <1>3, <1>10 DEF Logged, EventsOf
  <2>2. EventsOf(c) # {} /\ \A i \in EventsOf(c) : log[i].attempt = 1
    BY <2>1 DEF AttemptsOf
  <2>3. \A i \in EventsOf(c) : ~log[i].completed
    BY <1>10 DEF Logged
  <2> QED BY <1>4, <2>1, <2>2, <2>3
<1>12. \A i, j \in EventsOf(c) : ~(i < j)
  BY <1>3, <1>4, <1>10, <1>11 DEF Logged
<1>13. /\ \A i \in 1 .. round : retries[i] <=> i = round /\ b
       /\ round = 0 => ~b
  BY <1>1 DEF RetryInv, Retrying
<1>14. AttemptsOf(c)' = 1 .. last
  <2>1. \A i \in EventsOf(c)' : log'[i].attempt \in 1 .. last
    BY <1>2, <1>3, <1>7, <1>8, <1>11
  <2>2. ASSUME NEW k \in 1 .. last PROVE \E i \in EventsOf(c)' : log'[i].attempt = k
    <3>1. CASE k = 1
      BY <1>8, <1>11, <3>1
    <3>2. CASE k # 1
      <4>1. n + k - 1 \in n + 1 .. n + round
        BY <1>2, <1>3, <3>2
      <4>2. log'[n + k - 1].attempt = k
        BY <1>3, <1>7, <4>1
      <4> QED BY <1>8, <4>1, <4>2
    <3> QED BY <3>1, <3>2
  <2> QED BY <2>1, <2>2 DEF AttemptsOf
<1>15. \A i, j \in EventsOf(c)' : i < j => log'[i].attempt < log'[j].attempt
  BY <1>2, <1>3, <1>7, <1>8, <1>11, <1>12
<1>16. \A i \in EventsOf(c)' : log'[i].completed <=> log'[i].attempt = last /\ b
  <2> TAKE i \in EventsOf(c)'
  <2>1. CASE i \in EventsOf(c)
    BY <1>2, <1>11, <1>13, <2>1
  <2>2. CASE i \in n + 1 .. n + round
    <3>1. i - n \in 1 .. round /\ log'[i].attempt = i - n + 1
      BY <1>2, <1>3, <1>7, <2>2
    <3>2. log'[i].completed = retries[i - n]
      BY <1>7, <2>2
    <3>3. retries[i - n] <=> i - n = round /\ b
      BY <1>13, <3>1
    <3>4. i - n = round <=> log'[i].attempt = last
      BY <1>2, <1>3, <3>1
    <3> QED BY <3>2, <3>3, <3>4
  <2> QED BY <1>8, <2>1, <2>2
<1>17. Logged(c, last, b)'
  BY <1>14, <1>15, <1>16 DEF Logged
<1> QED BY <1>9, <1>17

(* A card leaves the queue with all its attempts in the log; it is handed  *)
(* to a human if the last of all its rounds was rejected.                  *)
LEMMA FinishRetry == ASSUME FanInv, RetryInv, finish_retries PROVE RetryInv'
<1> DEFINE c == current
<1>1. /\ pc = "retry" /\ queue # {} /\ pc' = pc /\ record' = record
      /\ queue' = queue \ {c} /\ round' = 0 /\ retries' = <<>>
      /\ exhausted' = IF Rejected(record[c]) THEN exhausted \cup {c} ELSE exhausted
      /\ round \in 0 .. DEBATE_MAX_ROUNDS
  BY DEF finish_retries, cardVars, FanInv, TypeOK
<1>2. c \in queue /\ c \in Cards /\ queue \subseteq Cards
  BY <1>1, CurrentQueued DEF FanInv
<1>3. PICK e : e = c
  OBVIOUS
<1>4. PICK last : last = round + 1
  OBVIOUS
<1>5. last \in 1 .. DEBATE_MAX_ROUNDS + 1 /\ (Rejected(record[c]) => last = DEBATE_MAX_ROUNDS + 1)
  BY <1>1, <1>4 DEF finish_retries, retry_scheduled, DEBATE_MAX_ROUNDS
<1>6. \A d : d # e => /\ EventsOf(d)' = EventsOf(d)
                     /\ \A i \in EventsOf(d) : log'[i] = log[i]
  BY <1>3, <1>4, LogRetries
<1>7. \A b : (b <=> Completed(record[e])) => Logged(e, last, b)'
  BY <1>3, <1>4, LogRetries
<1> HIDE DEF c
<1>8. Waiting'
  <2> SUFFICES ASSUME NEW d \in queue'
               PROVE  Logged(d, 1, FALSE)' /\ ~Completed(record'[d])
    BY DEF Waiting
  <2>1. Logged(d, 1, FALSE) /\ ~Completed(record[d]) /\ d # e
    BY <1>1, <1>3 DEF RetryInv, Waiting, c
  <2> QED BY <1>1, <1>6, <2>1, LoggedSame
<1>9. Through'
  <2> SUFFICES ASSUME NEW d \in Cards \ queue'
               PROVE  \E l \in 1 .. DEBATE_MAX_ROUNDS + 1 :
                        /\ Logged(d, l, Completed(record[d]))'
                        /\ d \in exhausted' => l = DEBATE_MAX_ROUNDS + 1 /\ Rejected(record'[d])
                        /\ d \notin exhausted' => ~Rejected(record'[d])
    BY DEF Through
  <2>1. CASE d = e
    <3>1. Logged(d, last, Completed(record[d]))'
      BY <1>1, <1>7, <2>1
    <3>2. d \notin exhausted /\ (d \in exhausted' <=> Rejected(record[d]))
      BY <1>1, <1>2, <1>3, <2>1 DEF RetryInv
    <3> QED BY <1>1, <1>3, <1>5, <2>1, <3>1, <3>2
  <2>2. CASE d # e
    <3>1. d \notin queue /\ (d \in exhausted' <=> d \in exhausted)
      BY <1>1, <1>3, <2>2
    <3>2. PICK l \in 1 .. DEBATE_MAX_ROUNDS + 1 :
            /\ Logged(d, l, Completed(record[d]))
            /\ d \in exhausted => l = DEBATE_MAX_ROUNDS + 1 /\ Rejected(record[d])
            /\ d \notin exhausted => ~Rejected(record[d])
      BY <1>1, <3>1 DEF RetryInv, Through
    <3>3. Logged(d, l, Completed(record[d]))'
      BY <1>1, <1>6, <2>2, <3>2 DEF Logged, AttemptsOf
    <3> QED BY <1>1, <3>1, <3>2, <3>3
  <2> QED BY <2>1, <2>2
<1>10. Retrying'
  <2> SUFFICES ASSUME queue' # {} PROVE ~Completed(record'[current'])
    BY <1>1 DEF Retrying
  <2>1. queue' \in SUBSET Nat
    BY <1>1, <1>2, PlanAssumption DEF Cards
  <2>2. \E x \in queue' : \A y \in queue' : x <= y
    BY <2>1, LeastNatural
  <2>3. current' \in queue'
    BY <2>2 DEF current, Min
  <2> QED BY <1>1, <2>3 DEF RetryInv, Waiting, c
<1>11. Untouched' /\ exhausted' \cap queue' = {}
  BY <1>1 DEF RetryInv, Untouched
<1> QED BY <1>8, <1>9, <1>10, <1>11 DEF RetryInv

(* Every step keeps the log, the queue and the exhausted cards in order. *)
LEMMA RetryStep == FanInv /\ RetryInv /\ [Next]_vars => RetryInv'
<1> SUFFICES ASSUME FanInv, RetryInv, [Next]_vars
             PROVE  RetryInv'
  OBVIOUS
<1>1. ASSUME NEW c \in Cards, CardStep(c) PROVE RetryInv'
  <2>1. pc = "run"
    BY <1>1, InFlightLevel DEF CardStep, execute_subtask, run_execution, run_review_gate,
       subtask_timeout
  <2> QED BY <1>1, <2>1, RetryIdle DEF CardStep, execute_subtask, run_execution,
          run_review_gate, subtask_timeout, retryVars
<1>2. CASE validate_cards \/ next_level \/ levels_built \/ finish_level
  BY <1>2, RetryIdle DEF validate_cards, next_level, levels_built, finish_level, LevelDone,
     retryVars
<1>3. CASE append_parent_executor_event \/ UNCHANGED vars
  <2>1. /\ UNCHANGED <<queue, round, retries, exhausted, log, record>>
        /\ pc' = pc \/ (pc = "retry" /\ pc' = "done" /\ queue = {})
    BY <1>3 DEF append_parent_executor_event, vars, retryVars, cardVars
  <2>2. current' = current /\ \A c : EventsOf(c)' = EventsOf(c)
    BY <2>1 DEF current, EventsOf
  <2>3. Untouched' /\ Retrying'
    BY <2>1, <2>2 DEF RetryInv, Untouched, Retrying
  <2>4. \A c, last, b : Logged(c, last, b) => Logged(c, last, b)'
    BY <2>1, <2>2 DEF Logged, AttemptsOf
  <2>5. Waiting'
    BY <2>1, <2>2, <2>4 DEF RetryInv, Waiting
  <2>6. Through'
    BY <2>1, <2>2 DEF RetryInv, Through, Logged, AttemptsOf
  <2> QED BY <2>1, <2>3, <2>5, <2>6 DEF RetryInv
<1> QED BY <1>1, <1>2, <1>3, CollectRetry, AttemptRetry, FinishRetry DEF Next

(* When the fan-out is over the log tells what became of every card: its   *)
(* attempts in order and without a gap, the last of them deciding.         *)
THEOREM LogIsFaithful == Spec => []LogTellsOutcome
<1>1. FanInv /\ RetryInv => LogTellsOutcome
  BY DEF RetryInv, Untouched, Through, Logged, LogTellsOutcome
<1> QED BY <1>1, FanInit, FanStep, RetryStep, PTL DEF Spec

(* A card reaches a human only after its own four attempts were rejected,  *)
(* whatever the cards before it in the queue went through.                 *)
THEOREM ExhaustionIsEarned == Spec => []ExhaustedCardsUsedAllRounds
<1>1. FanInv /\ RetryInv => ExhaustedCardsUsedAllRounds
  BY DEF RetryInv, Untouched, Through, Logged, ExhaustedCardsUsedAllRounds, FanInv, TypeOK
<1> QED BY <1>1, FanInit, FanStep, RetryStep, PTL DEF Spec

(* The safety half of Ends: a fan-out that is over has one of the results  *)
(* TaskRun assumes of an execution (_build_subtask_executor_result).       *)
OutcomeIsExpected == pc = "done" => Outcome \in Outcomes

(* Whatever the cards went through, the result is one TaskRun assumes. *)
THEOREM ReturnsExpectedOutcomes == Spec => []OutcomeIsExpected
<1>1. FanInv /\ RetryInv => OutcomeIsExpected
  <2> SUFFICES ASSUME FanInv, RetryInv, pc = "done"
               PROVE  Outcome \in Outcomes
    BY DEF OutcomeIsExpected
  <2>1. \A c \in exhausted : c \in Cards /\ ~Completed(record[c])
    BY DEF RetryInv, Untouched, Through, FanInv, TypeOK, Completed, Rejected
  <2>2. \A c \in BudgetExhausted : c \in Cards /\ ~Completed(record[c])
    BY DEF BudgetExhausted, FanInv, Recorded, Completed
  <2> QED BY <2>1, <2>2 DEF Outcome, Outcomes
<1> QED BY <1>1, FanInit, FanStep, RetryStep, PTL DEF Spec

=============================================================================
