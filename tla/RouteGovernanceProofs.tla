----------------------- MODULE RouteGovernanceProofs -----------------------
(***************************************************************************)
(* Theorems about RouteGovernance: what a process selects with, and that   *)
(* the change logs and the memory of every process follow the rows.        *)
(***************************************************************************)
EXTENDS RouteGovernance, DataInduction

-----------------------------------------------------------------------------
(* Routes in order *)

LEMMA RouteFacts ==
  /\ IsFiniteSet(Routes)
  /\ \A r \in Routes : Rank(r) \in Nat /\ RouteOrder[Rank(r)] = r
  /\ \A r, s \in Routes : Rank(r) = Rank(s) => r = s
  <1>1. DOMAIN RouteOrder = 1 .. Len(RouteOrder) /\ Len(RouteOrder) \in Nat
    BY RouteAssumption
  <1>2. IsFiniteSet(Routes)
    <2>1. IsFiniteSet(DOMAIN RouteOrder)
      BY <1>1, FS_Interval
    <2>2. RouteOrder \in Surjection(DOMAIN RouteOrder, Routes)
      BY RouteAssumption DEF Routes, Surjection
    <2>. QED BY <2>1, <2>2, FS_Surjection
  <1>3. ASSUME NEW r \in Routes PROVE Rank(r) \in Nat /\ RouteOrder[Rank(r)] = r
    <2>1. \E i \in DOMAIN RouteOrder : RouteOrder[i] = r
      BY DEF Routes
    <2>2. Rank(r) \in DOMAIN RouteOrder /\ RouteOrder[Rank(r)] = r
      BY <2>1 DEF Rank
    <2>. QED BY <1>1, <2>2
  <1>. QED BY <1>2, <1>3

LEMMA RegistryFacts ==
  ASSUME NEW reg, IsRegistry(reg), NEW r \in DOMAIN reg
  PROVE  /\ r \in Routes /\ reg[r] \in RouteSpec /\ reg[r].weight \in Nat
         /\ \A f \in Families : _task_family_score(reg[r], f) \in Nat
  <1>1. r \in Routes /\ reg[r] \in RouteSpec
    BY DEF IsRegistry
  <1>2. reg[r].weight \in Nat /\ reg[r].scores \in [Families -> Nat \cup {None}]
    BY <1>1 DEF RouteSpec
  <1>. QED BY <1>1, <1>2 DEF _task_family_score

(* The list of routes by preference has a first one, *)
LEMMA PreferredExists ==
  ASSUME NEW reg, IsRegistry(reg), NEW S \in SUBSET DOMAIN reg, S # {}, NEW family \in Families
  PROVE  _sort_routes_by_preference(reg, S, family) \in S
  <1> DEFINE R == {e \in S \X S : preferred(reg, family, e[1], e[2])}
  <1>1. \A r, s \in S : <<r, s>> \in R <=> preferred(reg, family, r, s)
    OBVIOUS
  <1>2. IsFiniteSet(S)
    BY RouteFacts, FS_Subset DEF IsRegistry
  <1>3. \A r \in S : /\ r \in Routes /\ reg[r].weight \in Nat /\ Rank(r) \in Nat
                     /\ _task_family_score(reg[r], family) \in Nat
    BY RegistryFacts, RouteFacts
  <1>4. \A r, s \in S : r # s => preferred(reg, family, r, s) \/ preferred(reg, family, s, r)
    BY <1>3, RouteFacts DEF preferred
  <1>5. \A r, s, t \in S : preferred(reg, family, r, s) /\ preferred(reg, family, s, t)
                             => preferred(reg, family, r, t)
    BY <1>3 DEF preferred
  <1> HIDE DEF R
  <1>6. \E r \in S : \A s \in S \ {r} : <<r, s>> \in R
    BY <1>1, <1>2, <1>4, <1>5, FirstOfOrder
  <1>7. \E r \in S : \A s \in S \ {r} : preferred(reg, family, r, s)
    BY <1>1, <1>6
  <1>. QED BY <1>7 DEF _sort_routes_by_preference

(* and so has the list by weight and name. *)
LEMMA HeaviestExists ==
  ASSUME NEW reg, IsRegistry(reg), NEW S \in SUBSET DOMAIN reg, S # {}
  PROVE  \E r \in S : \A s \in S \ {r} :
           \/ reg[r].weight > reg[s].weight
           \/ reg[r].weight = reg[s].weight /\ Rank(r) < Rank(s)
  <1> DEFINE before(r, s) == \/ reg[r].weight > reg[s].weight
                             \/ reg[r].weight = reg[s].weight /\ Rank(r) < Rank(s)
             R == {e \in S \X S : before(e[1], e[2])}
  <1>1. \A r, s \in S : <<r, s>> \in R <=> before(r, s)
    OBVIOUS
  <1>2. IsFiniteSet(S)
    BY RouteFacts, FS_Subset DEF IsRegistry
  <1>3. \A r \in S : r \in Routes /\ reg[r].weight \in Nat /\ Rank(r) \in Nat
    BY RegistryFacts, RouteFacts
  <1>4. \A r, s \in S : r # s => before(r, s) \/ before(s, r)
    BY <1>3, RouteFacts
  <1>5. \A r, s, t \in S : before(r, s) /\ before(s, t) => before(r, t)
    BY <1>3
  <1> HIDE DEF R
  <1>6. \E r \in S : \A s \in S \ {r} : <<r, s>> \in R
    <2> HIDE DEF before
    <2>. QED BY <1>1, <1>2, <1>4, <1>5, FirstOfOrder
  <1>. QED BY <1>1, <1>6

(* Candidates that are listed for a family that some route supports, and    *)
(* with requirements, support it, and there is one in front.                *)
Supporting(reg, family) == {r \in DOMAIN reg : family \notin reg[r].unsupported}

LEMMA CandidatesSupport ==
  ASSUME NEW reg, IsRegistry(reg), NEW policy, NEW executor, NEW model, NEW lane,
         NEW required, required # None, NEW family \in Families, Supporting(reg, family) # {}
  PROVE  LET list == candidate_routes(reg, policy, executor, model, lane, required, family)
         IN /\ list.routes # {} /\ list.routes \subseteq Supporting(reg, family)
            /\ list.head \in list.routes
  <1> DEFINE supported(S) == _filter_supported_task_family(reg, S, family)
             exact == supported({r \in DOMAIN reg : reg[r].executor = executor})
             models == _filter_model_hint_matches(reg, exact, model)
             inLane == {r \in DOMAIN reg : reg[r].lane = lane}
             inLaneAble == _filter_capability_matches(reg, supported(inLane), required)
             able == supported(_filter_capability_matches(reg, DOMAIN reg, required))
             left == supported(DOMAIN reg)
             list == candidate_routes(reg, policy, executor, model, lane, required, family)
  <1>1. /\ exact \subseteq Supporting(reg, family) /\ models \subseteq Supporting(reg, family)
        /\ inLaneAble \subseteq Supporting(reg, family) /\ able \subseteq Supporting(reg, family)
        /\ left = Supporting(reg, family)
    BY DEF Supporting, _filter_supported_task_family, _filter_model_hint_matches,
       _filter_capability_matches
  <1>2. ASSUME NEW S \in SUBSET Supporting(reg, family), S # {}, NEW kind
        PROVE  LET l == Sorted(reg, S, family, kind)
               IN l.routes = S /\ l.head \in S
    <2>1. _sort_routes_by_preference(reg, S, family) \in S
      BY <1>2, PreferredExists DEF Supporting
    <2>. QED BY <1>2, <2>1 DEF Sorted, Listed
  <1>3. \/ \E kind : \/ models # {} /\ list = Sorted(reg, models, family, kind)
                     \/ exact # {} /\ list = Sorted(reg, exact, family, kind)
                     \/ inLaneAble # {} /\ list = Sorted(reg, inLaneAble, family, kind)
                     \/ able # {} /\ list = Sorted(reg, able, family, kind)
                     \/ left # {} /\ list = Sorted(reg, left, family, kind)
        \/ policy.summary \in left /\ list.routes = {policy.summary} /\ list.head = policy.summary
    BY <1>1 DEF candidate_routes, Listed
  <1> HIDE DEF exact, models, inLaneAble, able, left, list
  <1>4. list.routes # {} /\ list.routes \subseteq Supporting(reg, family) /\ list.head \in list.routes
    BY <1>1, <1>2, <1>3
  <1>. QED BY <1>4 DEF list

(* A task with requirements, in automatic mode or with an executor          *)
(* override, gets a route that supports its family if the registry has one. *)
LEMMA SelectionSupports ==
  ASSUME NEW reg, IsRegistry(reg), NEW policy, NEW task, NEW override,
         task.required # None, task.family \in Families, override # None \/ task.mode = "auto",
         Supporting(reg, task.family) # {}
  PROVE  task.family \notin
           reg[select_route(reg, policy, task, override, None, DEFAULT_EXECUTOR).base].unsupported
  <1> DEFINE able(list) == /\ list.routes # {} /\ list.routes \subseteq Supporting(reg, task.family)
                           /\ list.head \in list.routes
             chosen(list) == _apply_complexity_bias(reg, policy, list, task.complexity)
  <1>1. \A executor, model : able(candidate_routes(reg, policy, executor, model, task.lane,
                                                   task.required, task.family))
    BY CandidatesSupport
  <1>2. ASSUME NEW list, able(list) PROVE chosen(list) \in Supporting(reg, task.family)
    <2>1. \E r \in list.routes : \A s \in list.routes \ {r} :
            \/ reg[r].weight > reg[s].weight
            \/ reg[r].weight = reg[s].weight /\ Rank(r) < Rank(s)
      <3>1. list.routes \in SUBSET DOMAIN reg /\ list.routes # {}
        BY <1>2 DEF Supporting
      <3>. QED BY <3>1, HeaviestExists
    <2>2. (CHOOSE r \in list.routes : \A s \in list.routes \ {r} :
             \/ reg[r].weight > reg[s].weight
             \/ reg[r].weight = reg[s].weight /\ Rank(r) < Rank(s)) \in list.routes
      BY <2>1
    <2>. QED BY <1>2, <2>2 DEF _apply_complexity_bias
  <1>3. \E list : /\ able(list)
                  /\ select_route(reg, policy, task, override, None, DEFAULT_EXECUTOR).base = chosen(list)
    <2> HIDE DEF able
    <2> DEFINE executor == IF override # None THEN override
                           ELSE IF task.mode = "auto" /\ task.executor = DEFAULT_EXECUTOR
                           THEN DEFAULT_EXECUTOR ELSE task.executor
               asked == candidate_routes(reg, policy, executor, task.model, task.lane,
                                         task.required, task.family)
               strategy == candidate_routes(reg, policy, None, {}, task.lane,
                                            task.required, task.family)
               uses == /\ task.complexity \in policy.strategy
                       /\ override = None /\ task.mode = "auto"
                       /\ task.executor = DEFAULT_EXECUTOR
                       /\ strategy.routes # {}
               list == IF uses THEN strategy ELSE asked
    <2>1. able(asked) /\ able(strategy)
      BY <1>1
    <2>2. able(list) /\ list.routes # {}
      BY <2>1 DEF able
    <2>3. select_route(reg, policy, task, override, None, DEFAULT_EXECUTOR).base = chosen(list)
      BY <2>2 DEF select_route, Chosen
    <2> HIDE DEF list
    <2>. QED BY <2>2, <2>3
  <1>. QED BY <1>2, <1>3 DEF Supporting

-----------------------------------------------------------------------------
(* Rows: what saving and loading weights and profiles does *)

Registries == UNION {[D -> RouteSpec] : D \in SUBSET Routes}
Weights == [RouteName -> Nat]
Profiles == [RouteName -> Profile]

LEMMA RegistryIs ==
  ASSUME NEW reg
  PROVE  reg \in Registries <=> IsRegistry(reg)
  BY DEF Registries, IsRegistry

LEMMA RegistryShape ==
  ASSUME NEW reg \in Registries
  PROVE  /\ DOMAIN reg \subseteq Routes /\ reg \in [DOMAIN reg -> RouteSpec]
         /\ \A r \in DOMAIN reg : Plain(r) \in RouteName /\ reg[r] \in RouteSpec
  BY DEF Registries, Plain, RouteName

LEMMA LoadWeightsType ==
  ASSUME NEW reg \in Registries
  PROVE  /\ load_route_weights(reg) \in Weights
         /\ \A r \in DOMAIN reg : load_route_weights(reg)[Plain(r)] = reg[r].weight
  <1>1. \A r \in DOMAIN reg : reg[r].weight \in Nat
    BY RegistryShape DEF RouteSpec
  <1>2. load_route_weights(reg) \in Weights
    BY <1>1 DEF load_route_weights, Weights, Full
  <1>3. \A r \in DOMAIN reg : load_route_weights(reg)[Plain(r)] = reg[r].weight
    <2>1. \A r \in DOMAIN reg : Plain(r) \in RouteName
      BY RegistryShape
    <2>. QED BY <2>1 DEF load_route_weights, Plain
  <1>. QED BY <1>2, <1>3

LEMMA LoadProfilesType ==
  ASSUME NEW reg \in Registries
  PROVE  /\ load_route_capability_profiles(reg) \in Profiles
         /\ \A r \in DOMAIN reg :
              load_route_capability_profiles(reg)[Plain(r)]
                = [scores |-> reg[r].scores, unsupported |-> reg[r].unsupported]
  <1>1. \A r \in DOMAIN reg : /\ reg[r].scores \in [Families -> Nat \cup {None}]
                              /\ reg[r].unsupported \in SUBSET Families
    BY RegistryShape DEF RouteSpec
  <1>2. blank_profile \in Profile
    BY DEF blank_profile, Profile
  <1>3. \A r \in DOMAIN reg :
          [scores |-> reg[r].scores, unsupported |-> reg[r].unsupported] \in Profile
    BY <1>1 DEF Profile
  <1>4. load_route_capability_profiles(reg) \in Profiles
    BY <1>2, <1>3 DEF load_route_capability_profiles, Profiles
  <1>5. \A r \in DOMAIN reg :
          load_route_capability_profiles(reg)[Plain(r)]
            = [scores |-> reg[r].scores, unsupported |-> reg[r].unsupported]
    <2>1. \A r \in DOMAIN reg : Plain(r) \in RouteName
      BY RegistryShape
    <2>. QED BY <2>1 DEF load_route_capability_profiles, Plain
  <1>. QED BY <1>4, <1>5

LEMMA SpecWith ==
  ASSUME NEW a \in RouteSpec, NEW x \in Nat, NEW f \in Profile
  PROVE  /\ [a EXCEPT !.weight = x] \in RouteSpec
         /\ [a EXCEPT !.scores = f.scores, !.unsupported = f.unsupported] \in RouteSpec
  <1> DEFINE b == [executor |-> a.executor, model |-> a.model, lane |-> a.lane,
                   ability |-> a.ability, fallback |-> a.fallback, weight |-> x,
                   scores |-> a.scores, unsupported |-> a.unsupported]
             c == [executor |-> a.executor, model |-> a.model, lane |-> a.lane,
                   ability |-> a.ability, fallback |-> a.fallback, weight |-> a.weight,
                   scores |-> f.scores, unsupported |-> f.unsupported]
  <1>1. [a EXCEPT !.weight = x] = b
    BY DEF RouteSpec
  <1>2. [a EXCEPT !.scores = f.scores, !.unsupported = f.unsupported] = c
    <2> DEFINE d == [a EXCEPT !.scores = f.scores]
    <2>1. d = [executor |-> a.executor, model |-> a.model, lane |-> a.lane,
               ability |-> a.ability, fallback |-> a.fallback, weight |-> a.weight,
               scores |-> f.scores, unsupported |-> a.unsupported]
      BY DEF RouteSpec
    <2>2. ASSUME NEW g, g = [executor |-> a.executor, model |-> a.model, lane |-> a.lane,
                             ability |-> a.ability, fallback |-> a.fallback, weight |-> a.weight,
                             scores |-> f.scores, unsupported |-> a.unsupported]
          PROVE  [g EXCEPT !.unsupported = f.unsupported] = c
      BY <2>2
    <2>. QED BY <2>1, <2>2
  <1>3. /\ a.executor \in Executors /\ a.model \in SUBSET Words /\ a.lane \in Lanes
        /\ a.ability \in Abilities /\ a.fallback \in Routes \cup {None} /\ a.weight \in Nat
        /\ a.scores \in [Families -> Nat \cup {None}] /\ a.unsupported \in SUBSET Families
    BY DEF RouteSpec
  <1>4. f.scores \in [Families -> Nat \cup {None}] /\ f.unsupported \in SUBSET Families
    BY DEF Profile
  <1>5. b \in RouteSpec
    BY <1>3 DEF RouteSpec
  <1>6. c \in RouteSpec
    BY <1>3, <1>4 DEF RouteSpec
  <1>. QED BY <1>1, <1>2, <1>5, <1>6

blank_profiles == [n \in RouteName |-> blank_profile]
LEMMA BlankProfiles == blank_profiles \in Profiles
  BY DEF blank_profiles, blank_profile, Profiles, Profile

LEMMA SaveTypes ==
  ASSUME NEW reg \in Registries, NEW w \in Weights, NEW f \in Profiles
  PROVE  /\ save_route_weights(reg, w) \in Registries
         /\ DOMAIN save_route_weights(reg, w) = DOMAIN reg
         /\ save_route_capability_profiles(reg, f) \in Registries
         /\ DOMAIN save_route_capability_profiles(reg, f) = DOMAIN reg
  <1>1. \A r \in DOMAIN reg : [reg[r] EXCEPT !.weight = w[Plain(r)]] \in RouteSpec
    <2>1. \A r \in DOMAIN reg : w[Plain(r)] \in Nat /\ reg[r] \in RouteSpec
      BY RegistryShape DEF Weights
    <2>2. blank_profile \in Profile
      BY DEF blank_profile, Profile
    <2>. QED BY <2>1, <2>2, SpecWith
  <1>2. ASSUME NEW r \in DOMAIN reg
        PROVE  [reg[r] EXCEPT !.scores = f[Plain(r)].scores,
                              !.unsupported = f[Plain(r)].unsupported] \in RouteSpec
    <2>1. f[Plain(r)] \in Profile
      BY RegistryShape DEF Profiles
    <2>. QED BY <2>1, RegistryShape, SpecWith
  <1>3. DOMAIN reg \in SUBSET Routes
    BY RegistryShape
  <1>4. /\ save_route_weights(reg, w) \in [DOMAIN reg -> RouteSpec]
        /\ save_route_capability_profiles(reg, f) \in [DOMAIN reg -> RouteSpec]
    BY <1>1, <1>2 DEF save_route_weights, save_route_capability_profiles
  <1>. QED BY <1>3, <1>4 DEF Registries

(* Two routes agree apart from weight, scores and marks. *)
Alike(a, b) ==
  /\ a.executor = b.executor /\ a.model = b.model /\ a.lane = b.lane
  /\ a.ability = b.ability /\ a.fallback = b.fallback

LEMMA SpecsEqual ==
  ASSUME NEW a \in RouteSpec, NEW b \in RouteSpec, Alike(a, b),
         a.weight = b.weight, a.scores = b.scores, a.unsupported = b.unsupported
  PROVE  a = b
  BY DEF RouteSpec, Alike

(* What a registry holds after a save. *)
LEMMA SavedWeights ==
  ASSUME NEW reg \in Registries, NEW w \in Weights, NEW r \in DOMAIN reg
  PROVE  LET s == save_route_weights(reg, w)[r]
         IN /\ Alike(s, reg[r]) /\ s.weight = w[Plain(r)]
            /\ s.scores = reg[r].scores /\ s.unsupported = reg[r].unsupported
  <1>1. reg[r] \in RouteSpec
    BY RegistryShape
  <1>2. save_route_weights(reg, w)[r] = [reg[r] EXCEPT !.weight = w[Plain(r)]]
    BY DEF save_route_weights
  <1>. QED BY <1>1, <1>2 DEF RouteSpec, Alike

LEMMA SavedProfiles ==
  ASSUME NEW reg \in Registries, NEW f \in Profiles, NEW r \in DOMAIN reg
  PROVE  LET s == save_route_capability_profiles(reg, f)[r]
         IN /\ Alike(s, reg[r]) /\ s.weight = reg[r].weight
            /\ s.scores = f[Plain(r)].scores /\ s.unsupported = f[Plain(r)].unsupported
  <1>1. reg[r] \in RouteSpec
    BY RegistryShape
  <1>2. save_route_capability_profiles(reg, f)[r]
          = [reg[r] EXCEPT !.scores = f[Plain(r)].scores, !.unsupported = f[Plain(r)].unsupported]
    BY DEF save_route_capability_profiles
  <1>. QED BY <1>1, <1>2 DEF RouteSpec, Alike

LEMMA RegistriesEqual ==
  ASSUME NEW a \in Registries, NEW b \in Registries, DOMAIN a = DOMAIN b,
         \A r \in DOMAIN a : /\ Alike(a[r], b[r]) /\ a[r].weight = b[r].weight
                             /\ a[r].scores = b[r].scores
                             /\ a[r].unsupported = b[r].unsupported
  PROVE  a = b
  <1>1. \A r \in DOMAIN a : a[r] = b[r]
    BY RegistryShape, SpecsEqual
  <1>2. a \in [DOMAIN a -> RouteSpec] /\ b \in [DOMAIN a -> RouteSpec]
    BY RegistryShape
  <1>. QED BY <1>1, <1>2

(* The routes of one registry with these weights and these profiles. *)
Built(reg, w, f) == save_route_capability_profiles(save_route_weights(reg, w), f)

LEMMA BuiltHas ==
  ASSUME NEW reg \in Registries, NEW w \in Weights, NEW f \in Profiles
  PROVE  /\ Built(reg, w, f) \in Registries /\ DOMAIN Built(reg, w, f) = DOMAIN reg
         /\ \A r \in DOMAIN reg : LET b == Built(reg, w, f)[r]
                                  IN /\ Alike(b, reg[r]) /\ b.weight = w[Plain(r)]
                                     /\ b.scores = f[Plain(r)].scores
                                     /\ b.unsupported = f[Plain(r)].unsupported
  <1> DEFINE m == save_route_weights(reg, w)
             b == save_route_capability_profiles(m, f)
  <1>1. m \in Registries /\ DOMAIN m = DOMAIN reg
    BY SaveTypes
  <1>2. \A r \in DOMAIN reg : Alike(m[r], reg[r]) /\ m[r].weight = w[Plain(r)]
    BY SavedWeights
  <1> HIDE DEF m
  <1>3. b \in Registries /\ DOMAIN b = DOMAIN reg
    BY <1>1, SaveTypes
  <1>4. \A r \in DOMAIN reg : /\ Alike(b[r], m[r]) /\ b[r].weight = m[r].weight
                              /\ b[r].scores = f[Plain(r)].scores
                              /\ b[r].unsupported = f[Plain(r)].unsupported
    BY <1>1, SavedProfiles
  <1>5. b = Built(reg, w, f)
    BY DEF Built, m
  <1> HIDE DEF b
  <1>6. \A r \in DOMAIN reg : Alike(b[r], reg[r])
    BY <1>2, <1>4 DEF Alike
  <1>. QED BY <1>2, <1>3, <1>4, <1>5, <1>6

(* A registry is built from itself. *)
LEMMA BuiltFromItself ==
  ASSUME NEW reg \in Registries
  PROVE  reg = Built(reg, load_route_weights(reg), load_route_capability_profiles(reg))
  <1> DEFINE w == load_route_weights(reg)
             f == load_route_capability_profiles(reg)
  <1>1. w \in Weights /\ \A r \in DOMAIN reg : w[Plain(r)] = reg[r].weight
    BY LoadWeightsType
  <1>2. f \in Profiles /\ \A r \in DOMAIN reg : /\ f[Plain(r)].scores = reg[r].scores
                                                 /\ f[Plain(r)].unsupported = reg[r].unsupported
    <2>1. f \in Profiles /\ \A r \in DOMAIN reg :
            f[Plain(r)] = [scores |-> reg[r].scores, unsupported |-> reg[r].unsupported]
      BY LoadProfilesType
    <2> HIDE DEF f
    <2>2. ASSUME NEW r \in DOMAIN reg
          PROVE  f[Plain(r)].scores = reg[r].scores /\ f[Plain(r)].unsupported = reg[r].unsupported
      <3>1. f[Plain(r)] = [scores |-> reg[r].scores, unsupported |-> reg[r].unsupported]
        BY <2>1
      <3>. QED BY <3>1
    <2>. QED BY <2>1, <2>2
  <1> HIDE DEF w, f
  <1>3. /\ Built(reg, w, f) \in Registries /\ DOMAIN Built(reg, w, f) = DOMAIN reg
        /\ \A r \in DOMAIN reg : LET b == Built(reg, w, f)[r]
                                 IN /\ Alike(b, reg[r]) /\ b.weight = w[Plain(r)]
                                    /\ b.scores = f[Plain(r)].scores
                                    /\ b.unsupported = f[Plain(r)].unsupported
    BY <1>1, <1>2, BuiltHas
  <1>4. Built(reg, w, f) = reg
    BY <1>1, <1>2, <1>3, RegistriesEqual
  <1>. QED BY <1>4 DEF w, f

(* Weights and profiles that are saved later replace those that were built *)
(* in, and leave each other alone.                                         *)
LEMMA BuiltAgain ==
  ASSUME NEW reg \in Registries, NEW w \in Weights, NEW f \in Profiles,
         NEW v \in Weights, NEW g \in Profiles
  PROVE  /\ save_route_weights(Built(reg, w, f), v) = Built(reg, v, f)
         /\ save_route_capability_profiles(Built(reg, w, f), g) = Built(reg, w, g)
         /\ Built(Built(reg, w, f), v, g) = Built(reg, v, g)
  <1>1. \A a \in Weights, b \in Profiles :
          /\ Built(reg, a, b) \in Registries /\ DOMAIN Built(reg, a, b) = DOMAIN reg
          /\ \A r \in DOMAIN reg : LET c == Built(reg, a, b)[r]
                                   IN /\ Alike(c, reg[r]) /\ c.weight = a[Plain(r)]
                                      /\ c.scores = b[Plain(r)].scores
                                      /\ c.unsupported = b[Plain(r)].unsupported
    BY BuiltHas
  <1> DEFINE m == Built(reg, w, f)
  <1>2. m \in Registries /\ DOMAIN m = DOMAIN reg
    BY <1>1
  <1>3. save_route_weights(m, v) = Built(reg, v, f)
    <2> DEFINE s == save_route_weights(m, v)
    <2> HIDE DEF m
    <2>1. s \in Registries /\ DOMAIN s = DOMAIN reg
      BY <1>2, SaveTypes
    <2>2. \A r \in DOMAIN reg : /\ Alike(s[r], m[r]) /\ s[r].weight = v[Plain(r)]
                                /\ s[r].scores = m[r].scores
                                /\ s[r].unsupported = m[r].unsupported
      BY <1>2, SavedWeights
    <2> HIDE DEF s
    <2>3. \A r \in DOMAIN reg : Alike(s[r], Built(reg, v, f)[r])
      BY <1>1, <2>2 DEF Alike, m
    <2>4. s = Built(reg, v, f)
      BY <1>1, <2>1, <2>2, <2>3, RegistriesEqual DEF m
    <2>. QED BY <2>4 DEF s
  <1>4. save_route_capability_profiles(m, g) = Built(reg, w, g)
    <2> DEFINE s == save_route_capability_profiles(m, g)
    <2> HIDE DEF m
    <2>1. s \in Registries /\ DOMAIN s = DOMAIN reg
      BY <1>2, SaveTypes
    <2>2. \A r \in DOMAIN reg : /\ Alike(s[r], m[r]) /\ s[r].weight = m[r].weight
                                /\ s[r].scores = g[Plain(r)].scores
                                /\ s[r].unsupported = g[Plain(r)].unsupported
      BY <1>2, SavedProfiles
    <2> HIDE DEF s
    <2>3. \A r \in DOMAIN reg : Alike(s[r], Built(reg, w, g)[r])
      BY <1>1, <2>2 DEF Alike, m
    <2>4. s = Built(reg, w, g)
      BY <1>1, <2>1, <2>2, <2>3, RegistriesEqual DEF m
    <2>. QED BY <2>4 DEF s
  <1>5. Built(m, v, g) = Built(reg, v, g)
    <2> HIDE DEF m
    <2>1. \A r \in DOMAIN reg : LET c == Built(m, v, g)[r]
                                IN /\ Alike(c, m[r]) /\ c.weight = v[Plain(r)]
                                   /\ c.scores = g[Plain(r)].scores
                                   /\ c.unsupported = g[Plain(r)].unsupported
      BY <1>2, BuiltHas
    <2>2. Built(m, v, g) \in Registries /\ DOMAIN Built(m, v, g) = DOMAIN reg
      BY <1>2, BuiltHas
    <2>3. \A r \in DOMAIN reg : Alike(Built(m, v, g)[r], Built(reg, v, g)[r])
      BY <1>1, <2>1 DEF Alike, m
    <2>. QED BY <1>1, <2>1, <2>2, <2>3, RegistriesEqual
  <1>. QED BY <1>3, <1>4, <1>5

(* What was built in is what is loaded. *)
LEMMA BuiltLoaded ==
  ASSUME NEW reg \in Registries, NEW w \in Weights, NEW f \in Profiles
  PROVE  LET b == Built(reg, w, f)
         IN /\ Built(reg, load_route_weights(b), load_route_capability_profiles(b)) = b
            /\ load_route_weights(save_route_weights(reg, w)) = load_route_weights(b)
  <1> DEFINE b == Built(reg, w, f)
             m == save_route_weights(reg, w)
  <1>1. b \in Registries /\ DOMAIN b = DOMAIN reg
    BY BuiltHas
  <1>2. b = Built(b, load_route_weights(b), load_route_capability_profiles(b))
    <2> HIDE DEF b
    <2>. QED BY <1>1, BuiltFromItself
  <1>3. ASSUME NEW v \in Weights, NEW g \in Profiles PROVE Built(b, v, g) = Built(reg, v, g)
    BY BuiltAgain
  <1>4. /\ load_route_weights(b) \in Weights
        /\ load_route_capability_profiles(b) \in Profiles
    <2> HIDE DEF b
    <2>. QED BY <1>1, LoadWeightsType, LoadProfilesType
  <1>5. m \in Registries /\ DOMAIN m = DOMAIN reg /\ \A r \in DOMAIN reg : m[r].weight = w[Plain(r)]
    BY SaveTypes, SavedWeights
  <1>6. \A r \in DOMAIN reg : b[r].weight = w[Plain(r)]
    BY BuiltHas
  <1> HIDE DEF b, m
  <1>7. load_route_weights(m) = load_route_weights(b)
    BY <1>1, <1>5, <1>6 DEF load_route_weights
  <1>8. Built(reg, load_route_weights(b), load_route_capability_profiles(b)) = b
    BY <1>2, <1>3, <1>4
  <1>. QED BY <1>7, <1>8 DEF b, m

(* Weights and profiles are saved independently of each other, and what is *)
(* saved last counts.                                                      *)
LEMMA SavesCommute ==
  ASSUME NEW reg \in Registries, NEW w \in Weights, NEW f \in Profiles,
         NEW v \in Weights, NEW g \in Profiles
  PROVE  /\ save_route_weights(save_route_weights(reg, w), v) = save_route_weights(reg, v)
         /\ save_route_capability_profiles(save_route_capability_profiles(reg, f), g)
              = save_route_capability_profiles(reg, g)
         /\ save_route_weights(save_route_capability_profiles(reg, f), v)
              = save_route_capability_profiles(save_route_weights(reg, v), f)
  <1> DEFINE w0 == load_route_weights(reg)
             f0 == load_route_capability_profiles(reg)
  <1>1. w0 \in Weights /\ f0 \in Profiles /\ reg = Built(reg, w0, f0)
    BY LoadWeightsType, LoadProfilesType, BuiltFromItself
  <1> HIDE DEF w0, f0
  <1>2. \A a, b \in Weights : \A h \in Profiles :
          save_route_weights(Built(reg, a, h), b) = Built(reg, b, h)
    BY BuiltAgain
  <1>3. \A a \in Weights : \A h, k \in Profiles :
          save_route_capability_profiles(Built(reg, a, h), k) = Built(reg, a, k)
    BY BuiltAgain
  <1>4. \A b \in Weights : save_route_weights(reg, b) = Built(reg, b, f0)
    BY <1>1, <1>2
  <1>5. \A k \in Profiles : save_route_capability_profiles(reg, k) = Built(reg, w0, k)
    BY <1>1, <1>3
  <1>6. save_route_weights(save_route_weights(reg, w), v) = save_route_weights(reg, v)
    BY <1>1, <1>2, <1>4
  <1>7. save_route_capability_profiles(save_route_capability_profiles(reg, f), g)
          = save_route_capability_profiles(reg, g)
    BY <1>1, <1>3, <1>5
  <1>8. save_route_weights(save_route_capability_profiles(reg, f), v) = Built(reg, v, f)
    BY <1>1, <1>2, <1>5
  <1>. QED BY <1>6, <1>7, <1>8 DEF Built

(* Saving again what was saved changes nothing. *)
LEMMA SavedIsLoaded ==
  ASSUME NEW reg \in Registries, NEW w \in Weights, NEW f \in Profiles
  PROVE  /\ save_route_weights(reg, load_route_weights(save_route_weights(reg, w)))
              = save_route_weights(reg, w)
         /\ save_route_capability_profiles(reg,
              load_route_capability_profiles(save_route_capability_profiles(reg, f)))
              = save_route_capability_profiles(reg, f)
  <1>1. ASSUME NEW s, s = save_route_weights(reg, w)
        PROVE  save_route_weights(reg, load_route_weights(s)) = s
    <2>1. s \in Registries /\ DOMAIN s = DOMAIN reg
      BY <1>1, SaveTypes
    <2>2. \A r \in DOMAIN reg : load_route_weights(s)[Plain(r)] = s[r].weight
      BY <2>1, LoadWeightsType
    <2>3. \A r \in DOMAIN reg : s[r].weight = w[Plain(r)]
      BY <1>1, SavedWeights
    <2>. QED BY <1>1, <2>2, <2>3 DEF save_route_weights
  <1>2. ASSUME NEW s, s = save_route_capability_profiles(reg, f)
        PROVE  save_route_capability_profiles(reg, load_route_capability_profiles(s)) = s
    <2> DEFINE g == load_route_capability_profiles(s)
    <2>1. s \in Registries /\ DOMAIN s = DOMAIN reg
      BY <1>2, SaveTypes
    <2>2. \A r \in DOMAIN reg : g[Plain(r)] = [scores |-> s[r].scores, unsupported |-> s[r].unsupported]
      BY <2>1, LoadProfilesType
    <2> HIDE DEF g
    <2>3. \A r \in DOMAIN reg : /\ g[Plain(r)].scores = f[Plain(r)].scores
                                /\ g[Plain(r)].unsupported = f[Plain(r)].unsupported
      <3>1. \A r \in DOMAIN reg : /\ s[r].scores = f[Plain(r)].scores
                                  /\ s[r].unsupported = f[Plain(r)].unsupported
        BY <1>2, SavedProfiles
      <3>2. ASSUME NEW r \in DOMAIN reg
            PROVE  g[Plain(r)].scores = s[r].scores /\ g[Plain(r)].unsupported = s[r].unsupported
        <4>1. g[Plain(r)] = [scores |-> s[r].scores, unsupported |-> s[r].unsupported]
          BY <2>2
        <4>. QED BY <4>1
      <3>. QED BY <3>1, <3>2
    <2>4. save_route_capability_profiles(reg, g) = s
      BY <1>2, <2>3 DEF save_route_capability_profiles
    <2>. QED BY <2>4 DEF g
  <1>. QED BY <1>1, <1>2

-----------------------------------------------------------------------------
(* Change logs: what one more entry does to a replay *)

Entry == [registry : Registries] \cup [policy : RoutePolicy]
         \cup [weights : Weights, profiles : Profiles]
         \cup [weights : Weights] \cup [profiles : Profiles]
         \cup [audit : AuditTriggerPolicy] \cup [rounds : 1 .. 3]

LEMMA EntryShape ==
  ASSUME NEW e \in Entry
  PROVE  /\ "registry" \in DOMAIN e => e["registry"] \in Registries
         /\ "policy" \in DOMAIN e => e["policy"] \in RoutePolicy
         /\ "weights" \in DOMAIN e => e["weights"] \in Weights
         /\ "profiles" \in DOMAIN e => e["profiles"] \in Profiles
  <1>1. CASE e \in [registry : Registries]
    BY <1>1
  <1>2. CASE e \in [policy : RoutePolicy]
    BY <1>2
  <1>3. CASE e \in [weights : Weights, profiles : Profiles]
    BY <1>3
  <1>4. CASE e \in [audit : AuditTriggerPolicy]
    BY <1>4
  <1>5. CASE e \in [rounds : 1 .. 3]
    BY <1>5
  <1>6. CASE e \in [weights : Weights]
    BY <1>6
  <1>7. CASE e \in [profiles : Profiles]
    BY <1>7
  <1>. QED BY <1>1, <1>2, <1>3, <1>4, <1>5, <1>6, <1>7 DEF Entry

With(l, kind, n) == {i \in 1 .. n : kind \in DOMAIN l[i]}

LEMMA LatestIs ==
  ASSUME NEW l, NEW kind, NEW n \in Nat
  PROVE  /\ Latest(l, kind, n) \in With(l, kind, n) \cup {0}
         /\ Latest(l, kind, n) \in 0 .. n
         /\ \A i \in With(l, kind, n) : i <= Latest(l, kind, n)
  <1> DEFINE T == With(l, kind, n) \cup {0}
  <1>1. T \in SUBSET Nat /\ T # {} /\ \A i \in T : i \in Nat /\ i <= n
    BY DEF With
  <1>2. Latest(l, kind, n) = Max(T)
    BY DEF Latest, With
  <1> HIDE DEF T
  <1>3. \E i \in T : \A j \in T : j <= i
    BY <1>1, GreatestNatural
  <1>4. \E i \in T : \A j \in T : i >= j
    <2>1. PICK i \in T : \A j \in T : j <= i
      BY <1>3
    <2>2. \A j \in T : i >= j
      BY <1>1, <2>1
    <2>. QED BY <2>2
  <1>5. Max(T) \in T /\ \A j \in T : Max(T) >= j
    BY <1>4 DEF Max
  <1>6. \A j \in T : j <= Max(T)
    BY <1>1, <1>5
  <1>7. Max(T) \in 0 .. n
    <2>1. Max(T) \in T
      BY <1>5
    <2>2. Max(T) \in Nat /\ Max(T) <= n
      BY <1>1, <2>1
    <2>. QED BY <2>2
  <1>. QED BY <1>2, <1>5, <1>6, <1>7 DEF T

LEMMA LatestOf ==
  ASSUME NEW l, NEW kind, NEW m, NEW k, NEW n, With(l, kind, n) = With(m, kind, k)
  PROVE  Latest(l, kind, n) = Latest(m, kind, k)
  BY DEF Latest, With

LEMMA LatestKept ==
  ASSUME NEW l \in Seq(Entry), NEW e \in Entry, NEW kind, NEW n \in 0 .. Len(l)
  PROVE  Latest(Append(l, e), kind, n) = Latest(l, kind, n)
  <1>1. \A i \in 1 .. n : Append(l, e)[i] = l[i]
    OBVIOUS
  <1>2. With(Append(l, e), kind, n) = With(l, kind, n)
    BY <1>1 DEF With
  <1>. QED BY <1>2, LatestOf

LEMMA LatestNew ==
  ASSUME NEW l \in Seq(Entry), NEW e \in Entry, NEW kind
  PROVE  Latest(Append(l, e), kind, Len(l) + 1)
           = IF kind \in DOMAIN e THEN Len(l) + 1 ELSE Latest(l, kind, Len(l))
  <1> DEFINE m == Append(l, e)
             n == Len(l)
  <1>1. n \in Nat /\ m[n + 1] = e /\ \A i \in 1 .. n : m[i] = l[i]
    OBVIOUS
  <1> HIDE DEF m, n
  <1>2. CASE kind \in DOMAIN e
    <2>1. n + 1 \in With(m, kind, n + 1)
      BY <1>1, <1>2 DEF With
    <2>2. Latest(m, kind, n + 1) \in 0 .. n + 1 /\ n + 1 <= Latest(m, kind, n + 1)
      BY <1>1, <2>1, LatestIs
    <2>. QED BY <1>1, <1>2, <2>2 DEF m, n
  <1>3. CASE kind \notin DOMAIN e
    <2>1. With(m, kind, n + 1) = With(l, kind, n)
      BY <1>1, <1>3 DEF With
    <2>2. Latest(m, kind, n + 1) = Latest(l, kind, n)
      BY <2>1, LatestOf
    <2>. QED BY <1>3, <2>2 DEF m, n
  <1>. QED BY <1>2, <1>3

LEMMA LoggedKept ==
  ASSUME NEW l \in Seq(Entry), NEW e \in Entry, NEW kind, NEW before, NEW n \in 0 .. Len(l)
  PROVE  Logged(Append(l, e), kind, n, before) = Logged(l, kind, n, before)
  <1>1. Latest(Append(l, e), kind, n) = Latest(l, kind, n)
    BY LatestKept
  <1>2. Latest(l, kind, n) \in 0 .. n
    BY LatestIs
  <1>3. \A i \in 1 .. n : Append(l, e)[i] = l[i]
    OBVIOUS
  <1>. QED BY <1>1, <1>2, <1>3 DEF Logged

LEMMA LoggedNew ==
  ASSUME NEW l \in Seq(Entry), NEW e \in Entry, NEW kind, NEW before
  PROVE  Logged(Append(l, e), kind, Len(l) + 1, before)
           = IF kind \in DOMAIN e THEN e[kind] ELSE Logged(l, kind, Len(l), before)
  <1>1. Latest(Append(l, e), kind, Len(l) + 1)
          = IF kind \in DOMAIN e THEN Len(l) + 1 ELSE Latest(l, kind, Len(l))
    BY LatestNew
  <1>2. Latest(l, kind, Len(l)) \in 0 .. Len(l) /\ Len(l) \in Nat
    BY LatestIs
  <1>3. Append(l, e)[Len(l) + 1] = e /\ \A i \in 1 .. Len(l) : Append(l, e)[i] = l[i]
    OBVIOUS
  <1>. QED BY <1>1, <1>2, <1>3 DEF Logged

LEMMA ReplayKept ==
  ASSUME NEW l \in Seq(Entry), NEW e \in Entry, NEW n \in 0 .. Len(l)
  PROVE  Replay(Append(l, e), n) = Replay(l, n)
  BY LatestKept, LoggedKept DEF Replay

(* The rows that bootstraps write. *)
LEMMA StoredTypes ==
  /\ Stored.registry \in Registries /\ Stored.policy \in RoutePolicy /\ Stored.policy # None
  /\ Stored.audit \in AuditTriggerPolicy /\ Stored.rounds \in 0 .. 3
  /\ DOMAIN Stored = {"registry", "policy", "audit", "rounds"} /\ DOMAIN Stored.registry # {}
  BY GovernanceAssumption, RegistryIs DEF IsRows

LEMMA LoggedTypes ==
  ASSUME NEW l \in Seq(Entry), NEW n \in 0 .. Len(l)
  PROVE  /\ Logged(l, "registry", n, Stored.registry) \in Registries
         /\ Logged(l, "policy", n, Stored.policy) \in RoutePolicy
         /\ Latest(l, "weights", n) > Latest(l, "registry", n)
              => Logged(l, "weights", n, None) \in Weights
         /\ Latest(l, "profiles", n) > Latest(l, "registry", n)
              => Logged(l, "profiles", n, None) \in Profiles
  <1>1. ASSUME NEW kind
        PROVE  /\ Latest(l, kind, n) \in Nat
               /\ Latest(l, kind, n) # 0 => /\ l[Latest(l, kind, n)] \in Entry
                                           /\ kind \in DOMAIN l[Latest(l, kind, n)]
    <2>1. Latest(l, kind, n) \in With(l, kind, n) \cup {0} /\ Latest(l, kind, n) \in 0 .. n
      BY LatestIs
    <2>2. Latest(l, kind, n) # 0 => Latest(l, kind, n) \in 1 .. Len(l)
      BY <2>1
    <2>. QED BY <2>1, <2>2 DEF With
  <1>2. Stored.registry \in Registries /\ Stored.policy \in RoutePolicy
    BY StoredTypes
  <1>3. Logged(l, "registry", n, Stored.registry) \in Registries
    BY <1>1, <1>2, EntryShape DEF Logged
  <1>4. Logged(l, "policy", n, Stored.policy) \in RoutePolicy
    BY <1>1, <1>2, EntryShape DEF Logged
  <1>5. Latest(l, "weights", n) # 0 => Logged(l, "weights", n, None) \in Weights
    BY <1>1, EntryShape DEF Logged
  <1>6. Latest(l, "profiles", n) # 0 => Logged(l, "profiles", n, None) \in Profiles
    BY <1>1, EntryShape DEF Logged
  <1>. QED BY <1>1, <1>3, <1>4, <1>5, <1>6

(* A replay has the logged routes with some weights and profiles. *)
LEMMA ReplayBuilt ==
  ASSUME NEW l \in Seq(Entry), NEW n \in 0 .. Len(l)
  PROVE  /\ Logged(l, "registry", n, Stored.registry) \in Registries
         /\ \E w \in Weights, f \in Profiles :
              Replay(l, n).registry = Built(Logged(l, "registry", n, Stored.registry), w, f)
         /\ Replay(l, n).registry \in Registries
         /\ Replay(l, n).policy \in RoutePolicy
  <1> DEFINE routes == Logged(l, "registry", n, Stored.registry)
             hasWeights == Latest(l, "weights", n) > Latest(l, "registry", n)
             hasProfiles == Latest(l, "profiles", n) > Latest(l, "registry", n)
             lw == Logged(l, "weights", n, None)
             lf == Logged(l, "profiles", n, None)
             w == IF hasWeights THEN lw ELSE load_route_weights(routes)
             f == IF hasProfiles THEN lf ELSE load_route_capability_profiles(routes)
             weighed == IF hasWeights THEN save_route_weights(routes, lw) ELSE routes
  <1>1. /\ routes \in Registries /\ (hasWeights => lw \in Weights) /\ (hasProfiles => lf \in Profiles)
        /\ Replay(l, n).policy \in RoutePolicy
    BY LoggedTypes DEF Replay
  <1>2. Replay(l, n).registry = IF hasProfiles THEN save_route_capability_profiles(weighed, lf)
                                ELSE weighed
    BY DEF Replay
  <1> HIDE DEF routes, hasWeights, hasProfiles, lw, lf
  <1>3. load_route_weights(routes) \in Weights /\ load_route_capability_profiles(routes) \in Profiles
    BY <1>1, LoadWeightsType, LoadProfilesType
  <1>4. w \in Weights /\ f \in Profiles
    BY <1>1, <1>3
  <1>5. routes = Built(routes, load_route_weights(routes), load_route_capability_profiles(routes))
    BY <1>1, BuiltFromItself
  <1>6. weighed = Built(routes, w, load_route_capability_profiles(routes))
    <2>1. CASE hasWeights
      BY <1>1, <1>3, <1>5, <2>1, BuiltAgain
    <2>2. CASE ~hasWeights
      BY <1>5, <2>2
    <2>. QED BY <2>1, <2>2
  <1> HIDE DEF weighed, w
  <1>7. Replay(l, n).registry = Built(routes, w, f)
    <2>1. CASE hasProfiles
      BY <1>1, <1>2, <1>3, <1>4, <1>6, <2>1, BuiltAgain
    <2>2. CASE ~hasProfiles
      BY <1>2, <1>6, <2>2
    <2>. QED BY <2>1, <2>2
  <1> HIDE DEF f
  <1>8. Built(routes, w, f) \in Registries
    BY <1>1, <1>4, BuiltHas
  <1>. QED BY <1>1, <1>4, <1>7, <1>8 DEF routes

(* What the next entry says of each kind counts; a registry comes without  *)
(* the weights and profiles that were logged before it.                    *)
LEMMA ReplayNew ==
  ASSUME NEW l \in Seq(Entry), NEW e \in Entry
  PROVE  LET old == Replay(l, Len(l))
             new == Replay(Append(l, e), Len(l) + 1)
             routes == Logged(l, "registry", Len(l), Stored.registry)
         IN /\ new.policy = IF "policy" \in DOMAIN e THEN e["policy"] ELSE old.policy
            /\ new.audit = IF "audit" \in DOMAIN e THEN e["audit"] ELSE old.audit
            /\ new.rounds = IF "rounds" \in DOMAIN e THEN e["rounds"] ELSE old.rounds
            /\ DOMAIN e = {"registry"} => new.registry = e["registry"]
            /\ DOMAIN e = {"weights", "profiles"}
                 => new.registry = Built(routes, e["weights"], e["profiles"])
            /\ DOMAIN e = {"weights"}
                 => new.registry = save_route_weights(old.registry, e["weights"])
            /\ DOMAIN e = {"profiles"}
                 => new.registry = save_route_capability_profiles(old.registry, e["profiles"])
            /\ DOMAIN e \cap {"registry", "weights", "profiles"} = {}
                 => new.registry = old.registry
  <1> DEFINE m == Append(l, e)
             n == Len(l)
  <1>1. \A kind : Latest(m, kind, n + 1) = IF kind \in DOMAIN e THEN n + 1 ELSE Latest(l, kind, n)
    BY LatestNew
  <1>2. \A kind, before : Logged(m, kind, n + 1, before)
                            = IF kind \in DOMAIN e THEN e[kind] ELSE Logged(l, kind, n, before)
    BY LoggedNew
  <1>3. n \in Nat /\ \A kind : Latest(l, kind, n) \in 0 .. n
    BY LatestIs
  <1> HIDE DEF m, n
  <1>4. /\ Replay(m, n + 1).policy = IF "policy" \in DOMAIN e THEN e["policy"] ELSE Replay(l, n).policy
        /\ Replay(m, n + 1).audit = IF "audit" \in DOMAIN e THEN e["audit"] ELSE Replay(l, n).audit
        /\ Replay(m, n + 1).rounds = IF "rounds" \in DOMAIN e THEN e["rounds"] ELSE Replay(l, n).rounds
    BY <1>2 DEF Replay
  <1>5. ASSUME DOMAIN e = {"registry"} PROVE Replay(m, n + 1).registry = e["registry"]
    <2>1. /\ Latest(m, "registry", n + 1) = n + 1
          /\ Latest(m, "weights", n + 1) \in 0 .. n /\ Latest(m, "profiles", n + 1) \in 0 .. n
          /\ Logged(m, "registry", n + 1, Stored.registry) = e["registry"]
      BY <1>1, <1>2, <1>3, <1>5
    <2>2. /\ ~(Latest(m, "weights", n + 1) > Latest(m, "registry", n + 1))
          /\ ~(Latest(m, "profiles", n + 1) > Latest(m, "registry", n + 1))
      BY <1>3, <2>1
    <2>. QED BY <2>1, <2>2 DEF Replay
  <1>6. ASSUME DOMAIN e = {"weights", "profiles"}
        PROVE  Replay(m, n + 1).registry
                 = Built(Logged(l, "registry", n, Stored.registry), e["weights"], e["profiles"])
    <2>1. /\ Latest(m, "registry", n + 1) \in 0 .. n
          /\ Latest(m, "weights", n + 1) = n + 1 /\ Latest(m, "profiles", n + 1) = n + 1
      BY <1>1, <1>3, <1>6
    <2>2. /\ Logged(m, "registry", n + 1, Stored.registry) = Logged(l, "registry", n, Stored.registry)
          /\ Logged(m, "weights", n + 1, None) = e["weights"]
          /\ Logged(m, "profiles", n + 1, None) = e["profiles"]
      BY <1>2, <1>6
    <2>3. /\ Latest(m, "weights", n + 1) > Latest(m, "registry", n + 1)
          /\ Latest(m, "profiles", n + 1) > Latest(m, "registry", n + 1)
      BY <1>3, <2>1
    <2>. QED BY <2>2, <2>3 DEF Replay, Built
  <1>7. ASSUME DOMAIN e \cap {"registry", "weights", "profiles"} = {}
        PROVE  Replay(m, n + 1).registry = Replay(l, n).registry
    <2>1. \A kind \in {"registry", "weights", "profiles"} :
            /\ Latest(m, kind, n + 1) = Latest(l, kind, n)
            /\ \A before : Logged(m, kind, n + 1, before) = Logged(l, kind, n, before)
      BY <1>1, <1>2, <1>7
    <2>. QED BY <2>1 DEF Replay
  <1> DEFINE routes == Logged(l, "registry", n, Stored.registry)
             hasWeights == Latest(l, "weights", n) > Latest(l, "registry", n)
             hasProfiles == Latest(l, "profiles", n) > Latest(l, "registry", n)
             lw == Logged(l, "weights", n, None)
             lf == Logged(l, "profiles", n, None)
             weighed == IF hasWeights THEN save_route_weights(routes, lw) ELSE routes
  <1>8. /\ routes \in Registries /\ (hasWeights => lw \in Weights) /\ (hasProfiles => lf \in Profiles)
        /\ "weights" \in DOMAIN e => e["weights"] \in Weights
        /\ "profiles" \in DOMAIN e => e["profiles"] \in Profiles
    BY LoggedTypes, EntryShape DEF n
  <1>9. Replay(l, n).registry = IF hasProfiles THEN save_route_capability_profiles(weighed, lf)
                                ELSE weighed
    BY DEF Replay
  <1>10. ASSUME DOMAIN e = {"weights"}
         PROVE  Replay(m, n + 1).registry = save_route_weights(Replay(l, n).registry, e["weights"])
    <2>1. /\ Latest(m, "registry", n + 1) = Latest(l, "registry", n)
          /\ Latest(m, "profiles", n + 1) = Latest(l, "profiles", n)
          /\ Latest(m, "weights", n + 1) > Latest(l, "registry", n)
      BY <1>1, <1>3, <1>10
    <2>2. /\ Logged(m, "registry", n + 1, Stored.registry) = routes
          /\ Logged(m, "profiles", n + 1, None) = lf
          /\ Logged(m, "weights", n + 1, None) = e["weights"]
      BY <1>2, <1>10
    <2>3. Replay(m, n + 1).registry
            = IF hasProfiles
              THEN save_route_capability_profiles(save_route_weights(routes, e["weights"]), lf)
              ELSE save_route_weights(routes, e["weights"])
      BY <2>1, <2>2 DEF Replay
    <2> HIDE DEF routes, hasWeights, hasProfiles, lw, lf
    <2>4. e["weights"] \in Weights
      BY <1>8, <1>10
    <2>5. /\ weighed \in Registries
          /\ save_route_weights(weighed, e["weights"]) = save_route_weights(routes, e["weights"])
      <3>1. blank_profiles \in Profiles
        BY BlankProfiles
      <3>. QED BY <1>8, <2>4, <3>1, SaveTypes, SavesCommute
    <2> HIDE DEF weighed
    <2>6. hasProfiles => save_route_weights(save_route_capability_profiles(weighed, lf), e["weights"])
                           = save_route_capability_profiles(save_route_weights(weighed, e["weights"]), lf)
      BY <1>8, <2>4, <2>5, SavesCommute
    <2>. QED BY <1>9, <2>3, <2>5, <2>6
  <1>11. ASSUME DOMAIN e = {"profiles"}
         PROVE  Replay(m, n + 1).registry
                  = save_route_capability_profiles(Replay(l, n).registry, e["profiles"])
    <2>1. /\ Latest(m, "registry", n + 1) = Latest(l, "registry", n)
          /\ Latest(m, "weights", n + 1) = Latest(l, "weights", n)
          /\ Latest(m, "profiles", n + 1) > Latest(l, "registry", n)
      BY <1>1, <1>3, <1>11
    <2>2. /\ Logged(m, "registry", n + 1, Stored.registry) = routes
          /\ Logged(m, "weights", n + 1, None) = lw
          /\ Logged(m, "profiles", n + 1, None) = e["profiles"]
      BY <1>2, <1>11
    <2>3. Replay(m, n + 1).registry = save_route_capability_profiles(weighed, e["profiles"])
      BY <2>1, <2>2 DEF Replay
    <2> HIDE DEF routes, hasWeights, hasProfiles, lw, lf
    <2>4. e["profiles"] \in Profiles
      BY <1>8, <1>11
    <2>5. weighed \in Registries
      <3>1. blank_profiles \in Profiles
        BY BlankProfiles
      <3>. QED BY <1>8, <3>1, SaveTypes
    <2> HIDE DEF weighed
    <2>6. hasProfiles => save_route_capability_profiles(save_route_capability_profiles(weighed, lf), e["profiles"])
                           = save_route_capability_profiles(weighed, e["profiles"])
      <3>1. load_route_weights(weighed) \in Weights
        BY <2>5, LoadWeightsType
      <3>. QED BY <1>8, <2>4, <2>5, <3>1, SavesCommute
    <2>. QED BY <1>9, <2>3, <2>6
  <1>. QED BY <1>4, <1>5, <1>6, <1>7, <1>10, <1>11 DEF m, n

-----------------------------------------------------------------------------
(* Proposals: what the meta optimizer suggests can be applied *)

Sound(q) ==
  /\ q.type = "route_weight" => q.weight \in Nat /\ q.weight # 0
  /\ q.type = "route_capability" =>
       /\ q.family \in Families /\ q.score \in Nat \cup {None} /\ q.unsupported \in BOOLEAN
       /\ IF q.unsupported THEN q.score = None ELSE q.score \in Nat

LEMMA CountIsNatural ==
  ASSUME NEW ev \in Seq(TelemetryEvent), NEW I \in SUBSET DOMAIN ev
  PROVE  Cardinality(I) \in Nat
  <1>1. IsFiniteSet(DOMAIN ev)
    <2>1. DOMAIN ev = 1 .. Len(ev) /\ Len(ev) \in Nat
      OBVIOUS
    <2>. QED BY <2>1, FS_Interval
  <1>2. IsFiniteSet(I)
    BY <1>1, FS_Subset
  <1>. QED BY <1>2, FS_CardinalityType

(* A rate over a positive number of events is a number. *)
LEMMA HundredthsIsInteger ==
  ASSUME NEW a \in Int, NEW b \in Int, b > 0
  PROVE  hundredths(a, b) \in Int
  <1>1. 200 * a + b \in Int /\ 2 * b \in Int /\ 2 * b # 0
    OBVIOUS
  <1>. QED BY <1>1 DEF hundredths

LEMMA WeightsAreSound ==
  ASSUME NEW ev \in Seq(TelemetryEvent), NEW r
  PROVE  \A q \in route_weight_proposals(ev, r) : Sound(q)
  <1> DEFINE stats == RouteTelemetryStats(ev, r)
             rate == hundredths(stats.events - stats.failures, stats.events)
             q == [Advice("route_weight", r, "failures") EXCEPT !.weight = IF rate > 10 THEN rate ELSE 10]
  <1>1. stats.events \in Nat /\ stats.failures \in Nat
    BY CountIsNatural DEF RouteTelemetryStats, executed
  <1>2. route_weight_proposals(ev, r) # {} => stats.events > 0
    BY DEF route_weight_proposals, crossed
  <1>3. route_weight_proposals(ev, r) \subseteq {q}
    BY DEF route_weight_proposals
  <1> HIDE DEF stats
  <1>4. stats.events > 0 => rate \in Int
    <2>1. stats.events \in Int /\ stats.events - stats.failures \in Int
      BY <1>1
    <2>. QED BY <2>1, HundredthsIsInteger
  <1> HIDE DEF rate
  <1>5. q.type = "route_weight" /\ q.weight = (IF rate > 10 THEN rate ELSE 10)
    BY DEF Advice
  <1> HIDE DEF q
  <1>6. stats.events > 0 => Sound(q)
    <2>1. stats.events > 0 => q.weight \in Nat /\ q.weight # 0
      BY <1>4, <1>5
    <2>. QED BY <1>5, <2>1 DEF Sound
  <1>. QED BY <1>2, <1>3, <1>6

LEMMA ScoreIsNatural ==
  ASSUME NEW ev \in Seq(TelemetryEvent), NEW r, NEW f,
         RouteTaskFamilyTelemetryStats(ev, r, f).events # 0
  PROVE  _suggest_task_family_score(RouteTaskFamilyTelemetryStats(ev, r, f)) \in Nat
  <1> DEFINE stats == RouteTaskFamilyTelemetryStats(ev, r, f)
             score == hundredths(4 * stats.successes - stats.degraded, 4 * stats.events)
  <1>1. stats.events \in Nat /\ stats.successes \in Nat /\ stats.degraded \in Nat
    BY CountIsNatural DEF RouteTaskFamilyTelemetryStats, executed
  <1>2. stats.events # 0
    OBVIOUS
  <1> HIDE DEF stats
  <1>2a. 4 * stats.successes - stats.degraded \in Int /\ 4 * stats.events \in Int /\ 4 * stats.events > 0
    BY <1>1, <1>2
  <1>3. score \in Int
    BY <1>2a, HundredthsIsInteger
  <1>4. _suggest_task_family_score(stats) = IF score < 0 THEN 0 ELSE IF score > Full THEN Full ELSE score
    BY DEF _suggest_task_family_score
  <1> HIDE DEF score
  <1>5. _suggest_task_family_score(stats) \in Nat
    BY <1>3, <1>4 DEF Full
  <1>. QED BY <1>5 DEF stats

(* A capability suggestion marks a family unsupported or sets its score. *)
Capability(r, f, s, u) ==
  [Advice("route_capability", r, "capability") EXCEPT !.family = f, !.score = s, !.unsupported = u]
Marking(r, f) == Capability(r, f, None, TRUE)
Scoring(r, f, s) == Capability(r, f, s, FALSE)

CapabilityFields(r, f, s, u) ==
  [type |-> "route_capability", route |-> r, family |-> f, weight |-> None, score |-> s,
   unsupported |-> u, why |-> "capability"]

LEMMA CapabilityHas ==
  ASSUME NEW r, NEW f, NEW s, NEW u \in BOOLEAN
  PROVE  Capability(r, f, s, u) = CapabilityFields(r, f, s, u)
  <1> DEFINE a == Advice("route_capability", r, "capability")
             b == [a EXCEPT !.family = f]
             c == [b EXCEPT !.score = s]
             d == [c EXCEPT !.unsupported = u]
  <1>1. b = [a EXCEPT !.family = f]
    OBVIOUS
  <1>7. c = [b EXCEPT !.score = s]
    OBVIOUS
  <1>8. d = [c EXCEPT !.unsupported = u]
    OBVIOUS
  <1>2. a = [type |-> "route_capability", route |-> r, family |-> None, weight |-> None, score |-> None,
             unsupported |-> FALSE, why |-> "capability"]
    BY DEF Advice
  <1>3. d = Capability(r, f, s, u)
    BY DEF Capability
  <1> HIDE DEF a, b, c, d
  <1>4. b = [type |-> "route_capability", route |-> r, family |-> f, weight |-> None, score |-> None,
             unsupported |-> FALSE, why |-> "capability"]
    BY <1>1, <1>2
  <1>5. c = [type |-> "route_capability", route |-> r, family |-> f, weight |-> None, score |-> s,
             unsupported |-> FALSE, why |-> "capability"]
    BY <1>4, <1>7
  <1>6. d = [type |-> "route_capability", route |-> r, family |-> f, weight |-> None, score |-> s,
             unsupported |-> u, why |-> "capability"]
    BY <1>5, <1>8
  <1>. QED BY <1>3, <1>6 DEF CapabilityFields

LEMMA MarkingHas ==
  ASSUME NEW r, NEW f
  PROVE  Marking(r, f) = CapabilityFields(r, f, None, TRUE)
  <1> DEFINE u == TRUE
  <1>1. u \in BOOLEAN /\ Marking(r, f) = Capability(r, f, None, u)
    BY DEF Marking
  <1> HIDE DEF u
  <1>2. Capability(r, f, None, u) = CapabilityFields(r, f, None, u)
    BY <1>1, CapabilityHas
  <1>. QED BY <1>1, <1>2 DEF u

LEMMA ScoringHas ==
  ASSUME NEW r, NEW f, NEW s
  PROVE  Scoring(r, f, s) = CapabilityFields(r, f, s, FALSE)
  <1> DEFINE u == FALSE
  <1>1. u \in BOOLEAN /\ Scoring(r, f, s) = Capability(r, f, s, u)
    BY DEF Scoring
  <1> HIDE DEF u
  <1>2. Capability(r, f, s, u) = CapabilityFields(r, f, s, u)
    BY <1>1, CapabilityHas
  <1>. QED BY <1>1, <1>2 DEF u

(* A suggestion is made from at least two events: to mark the family when  *)
(* none of them succeeded, else to set the score they give.                *)
FromStats(q, r, f, stats) ==
  /\ ~(stats.events < 2)
  /\ IF stats.successes = 0 THEN q = Marking(r, f)
     ELSE q = Scoring(r, f, _suggest_task_family_score(stats))

LEMMA CapabilityIs ==
  ASSUME NEW reg, NEW profiles, NEW ev,
         NEW q \in _build_route_capability_proposals(reg, profiles, ev)
  PROVE  \E r \in RouteName, f \in Families :
           FromStats(q, r, f, RouteTaskFamilyTelemetryStats(ev, r, f))
  <1>1. PICK r \in RouteName, f \in Families : q \in capability_suggestion(reg, profiles, ev, r, f)
    BY DEF _build_route_capability_proposals
  <1>2. FromStats(q, r, f, RouteTaskFamilyTelemetryStats(ev, r, f))
    BY <1>1 DEF capability_suggestion, Capability, Marking, Scoring, FromStats
  <1>. QED BY <1>2

LEMMA CapabilitiesAreSound ==
  ASSUME NEW reg, NEW profiles, NEW ev \in Seq(TelemetryEvent),
         NEW q \in _build_route_capability_proposals(reg, profiles, ev)
  PROVE  Sound(q)
  <1>1. PICK r \in RouteName, f \in Families :
          FromStats(q, r, f, RouteTaskFamilyTelemetryStats(ev, r, f))
    BY CapabilityIs
  <1> DEFINE stats == RouteTaskFamilyTelemetryStats(ev, r, f)
             score == _suggest_task_family_score(stats)
  <1>2. score \in Nat
    <2>1. stats.events # 0
      BY <1>1 DEF FromStats
    <2>. QED BY <2>1, ScoreIsNatural
  <1>3. q = Marking(r, f) \/ q = Scoring(r, f, score)
    BY <1>1 DEF FromStats
  <1> HIDE DEF score
  <1>4. /\ q.type = "route_capability" /\ q.family = f
        /\ (q.score = None /\ q.unsupported = TRUE) \/ (q.score = score /\ q.unsupported = FALSE)
    <2>1. CASE q = Marking(r, f)
      BY <2>1, MarkingHas DEF CapabilityFields
    <2>2. CASE q = Scoring(r, f, score)
      BY <2>2, ScoringHas DEF CapabilityFields
    <2>. QED BY <1>3, <2>1, <2>2
  <1>. QED BY <1>2, <1>4 DEF Sound

(* Every proposal is a note, a weight or a capability. *)
LEMMA ProposalsAre ==
  ASSUME NEW reg, NEW profiles, NEW ev,
         NEW q \in build_optimization_proposals(reg, profiles, ev)
  PROVE  \/ q.type \in {"route", "workflow"}
         \/ \E r : q \in route_weight_proposals(ev, r)
         \/ q \in _build_route_capability_proposals(reg, profiles, ev)
  <1> DEFINE R == routes_seen(ev)
             perRoute == each_route_advice(ev, R)
  <1>1. \/ q \in perRoute \cup fingerprint_advice(ev)
        \/ q \in cost_comparison_advice(ev, R) \cup cost_trend_advice(ev, R) \cup workflow_advice(ev)
        \/ q \in _build_route_capability_proposals(reg, profiles, ev)
        \/ q = Advice("workflow", None, "nothing_found")
    BY DEF build_optimization_proposals
  <1>2. q \in perRoute => q.type = "route" \/ \E r : q \in route_weight_proposals(ev, r)
    <2> SUFFICES ASSUME q \in perRoute
                 PROVE  q.type = "route" \/ \E r : q \in route_weight_proposals(ev, r)
      OBVIOUS
    <2>1. PICK r \in R : q \in route_advice(ev, r) \cup route_weight_proposals(ev, r)
      <3> HIDE DEF R
      <3>. QED BY DEF each_route_advice
    <2>2. q \in route_advice(ev, r) => q.type = "route"
      BY DEF route_advice, Advice
    <2>. QED BY <2>1, <2>2
  <1>3. q \in fingerprint_advice(ev) => q.type = "route"
    BY DEF fingerprint_advice, Advice
  <1>4. q \in cost_comparison_advice(ev, R) => q.type = "route"
    BY DEF cost_comparison_advice, Advice
  <1>5. q \in cost_trend_advice(ev, R) => q.type = "route"
    BY DEF cost_trend_advice, Advice
  <1>6. q \in workflow_advice(ev) => q.type = "workflow"
    <2>1. q \in workflow_advice(ev) =>
            \E f, why : q = [Advice("workflow", None, why) EXCEPT !.family = f]
      BY DEF workflow_advice
    <2>2. \A f, why : [Advice("workflow", None, why) EXCEPT !.family = f].type = "workflow"
      BY DEF Advice
    <2>. QED BY <2>1, <2>2
  <1>7. q = Advice("workflow", None, "nothing_found") => q.type = "workflow"
    BY DEF Advice
  <1> HIDE DEF R, perRoute
  <1>. QED BY <1>1, <1>2, <1>3, <1>4, <1>5, <1>6, <1>7

LEMMA ProposalsAreSound ==
  ASSUME NEW reg, NEW profiles, NEW ev \in Seq(TelemetryEvent),
         NEW q \in build_optimization_proposals(reg, profiles, ev)
  PROVE  Sound(q)
  <1>1. q.type \in {"route", "workflow"} => Sound(q)
    BY DEF Sound
  <1>2. (\E r : q \in route_weight_proposals(ev, r)) => Sound(q)
    BY WeightsAreSound
  <1>3. q \in _build_route_capability_proposals(reg, profiles, ev) => Sound(q)
    BY CapabilitiesAreSound
  <1>. QED BY <1>1, <1>2, <1>3, ProposalsAre

AllSound(S) == \A q \in S : Sound(q)

LEMMA ApprovedTypes ==
  ASSUME NEW w \in Weights, NEW f \in Profiles, NEW approved, AllSound(approved)
  PROVE  approved_weights(w, approved) \in Weights /\ approved_profiles(f, approved) \in Profiles
  <1>1. ASSUME NEW n \in RouteName PROVE approved_weights(w, approved)[n] \in Nat
    <2> DEFINE mine == {q \in approved : q.type = "route_weight" /\ q.route = n}
               first_of == CHOOSE q \in mine : TRUE
    <2>1. approved_weights(w, approved)[n]
            = IF mine = {} THEN w[n] ELSE IF first_of.weight = 0 THEN Full ELSE first_of.weight
      BY DEF approved_weights
    <2>2. mine # {} => first_of \in mine
      OBVIOUS
    <2>3. \A q \in mine : q.weight \in Nat
      BY DEF AllSound, Sound
    <2>4. w[n] \in Nat
      BY DEF Weights
    <2> HIDE DEF mine, first_of
    <2>. QED BY <2>1, <2>2, <2>3, <2>4 DEF Full
  <1>2. approved_weights(w, approved) \in Weights
    <2>1. approved_weights(w, approved) = [n \in RouteName |-> approved_weights(w, approved)[n]]
      BY DEF approved_weights
    <2>. QED BY <1>1, <2>1 DEF Weights
  <1> DEFINE of(n, g) == {q \in approved : q.type = "route_capability" /\ q.route = n /\ q.family = g}
             now(n, g) == IF of(n, g) = {} THEN f[n]
                          ELSE apply_capability(f[n], CHOOSE q \in of(n, g) : TRUE)
  <1>3. ASSUME NEW n \in RouteName, NEW g \in Families
        PROVE  now(n, g).scores[g] \in Nat \cup {None}
    <2>1. f[n] \in Profile
      BY DEF Profiles
    <2>2. DOMAIN f[n] = {"scores", "unsupported"} /\ f[n].scores \in [Families -> Nat \cup {None}]
      BY <2>1 DEF Profile
    <2>3. ASSUME NEW q \in of(n, g) PROVE apply_capability(f[n], q).scores[g] \in Nat \cup {None}
      <3>1. q.family = g /\ q.score \in Nat \cup {None}
        BY <2>3 DEF AllSound, Sound
      <3>2. apply_capability(f[n], q).scores[g] \in {f[n].scores[g], None, q.score}
        BY <2>2, <3>1 DEF apply_capability
      <3>. QED BY <2>2, <3>1, <3>2
    <2>4. of(n, g) # {} => (CHOOSE q \in of(n, g) : TRUE) \in of(n, g)
      OBVIOUS
    <2> HIDE DEF of
    <2>. QED BY <2>2, <2>3, <2>4
  <1>4. ASSUME NEW n \in RouteName PROVE approved_profiles(f, approved)[n] \in Profile
    <2>1. approved_profiles(f, approved)[n] = [scores |-> [g \in Families |-> now(n, g).scores[g]],
                                             unsupported |-> {g \in Families : g \in now(n, g).unsupported}]
      BY DEF approved_profiles
    <2> HIDE DEF now
    <2>2. [g \in Families |-> now(n, g).scores[g]] \in [Families -> Nat \cup {None}]
      BY <1>3
    <2>. QED BY <2>1, <2>2 DEF Profile
  <1>5. approved_profiles(f, approved) \in Profiles
    <2>1. approved_profiles(f, approved) = [n \in RouteName |-> approved_profiles(f, approved)[n]]
      BY DEF approved_profiles
    <2>. QED BY <1>4, <2>1 DEF Profiles
  <1>. QED BY <1>2, <1>5

-----------------------------------------------------------------------------
(* The invariant of processes and transactions *)

Rows == [registry : Registries, policy : RoutePolicy \cup {None},
         audit : AuditTriggerPolicy, rounds : 0 .. 3]
Memory == [registry : Registries, policy : RoutePolicy]
Changes == {"registry", "policy", "weights", "profiles", "audit", "rounds", "review"}
FullTodo(op) == IF op = "review" THEN <<"weights", "profiles">> ELSE <<op>>

(* What a command is about to write. *)
ValueOK(c) ==
  /\ c.op = "registry" => c.value.registry \in Registries /\ DOMAIN c.value.registry # {}
  /\ c.op = "policy" => c.value.policy \in RoutePolicy
  /\ c.op = "audit" => c.value.audit \in AuditTriggerPolicy
  /\ c.op = "rounds" => c.value.rounds \in 1 .. 3
  /\ c.op \in {"weights", "review"} => c.value.weights \in Weights
  /\ c.op \in {"profiles", "review"} => c.value.profiles \in Profiles

(* A process past the registry's SELECT has seen its rows. *)
PastRegistry(step, op) ==
  \/ step \in {"policy", "weights", "profiles", "load_profiles", "begin", "write"}
  \/ step = "body" /\ op \notin {"decide", "review"}

Reading(step, op) ==
  step \in {"registry", "policy", "begin"} \/ (step = "body" /\ op = "review")

(* The locals of a process at a step, given the committed routes. *)
LocalsOK(step, c, reg) ==
  /\ c = [op |-> c.op, boot |-> c.boot, todo |-> c.todo, value |-> c.value]
  /\ c.boot \in BOOLEAN
  /\ c.boot => Reading(step, c.op)
  /\ step = "load_profiles" =>
       c.op = "review" /\ AllSound(c.value.approved) /\ c.value.weights \in Weights
  /\ step \in {"begin", "write"} => c.op \in Changes /\ ValueOK(c)
  /\ step = "begin" => c.todo = FullTodo(c.op)
  /\ PastRegistry(step, c.op) => reg # Empty

(* The rows of a transaction are the committed ones and what was saved. *)
Result(c, rows) ==
  CASE c.op = "registry" -> save_route_registry(rows, c.value.registry)
    [] c.op = "policy"   -> save_route_policy(rows, c.value.policy)
    [] c.op = "audit"    -> save_audit_trigger_policy(rows, c.value.audit)
    [] c.op = "rounds"   -> save_mps_policy(rows, c.value.rounds)
    [] c.op = "weights"  -> save_route_registry(rows,
                              save_route_weights(rows.registry, c.value.weights))
    [] c.op = "profiles" -> save_route_registry(rows,
                              save_route_capability_profiles(rows.registry, c.value.profiles))
    [] c.op = "review"   -> save_route_registry(rows,
                              Built(rows.registry, c.value.weights, c.value.profiles))

WriteOK(c, view, rows) ==
  \/ c.todo = FullTodo(c.op) /\ view = rows
  \/ /\ c.op = "review" /\ c.todo = <<"profiles">>
     /\ view = save_route_registry(rows, save_route_weights(rows.registry, c.value.weights))
  \/ c.todo = <<>> /\ view = Result(c, rows)

StateTyped ==
  /\ db \in Rows /\ log \in Seq(Entry) /\ mem \in [Procs -> Memory]
  /\ AllSound(bundle.proposals) /\ AllSound(review.approved)
  /\ pc \in [Procs -> Steps] /\ cmd = [q \in Procs |-> cmd[q]]

LocalsInv == \A p \in Procs : LocalsOK(pc[p], cmd[p], db.registry)

TxInv ==
  /\ tx = NoTx \/ (tx.owner \in Procs /\ tx = [owner |-> tx.owner, rows |-> tx.rows])
  /\ \A p \in Procs : pc[p] = "write" <=> tx.owner = p
  /\ \A p \in Procs : pc[p] = "write" => WriteOK(cmd[p], tx.rows, db)

GovInv == StateTyped /\ LocalsInv /\ TxInv

(* A step moves one process; it leaves the transaction alone, finds none,  *)
(* ends its own or works in its own.                                       *)
LEMMA StepKeeps ==
  ASSUME GovInv, NEW p \in Procs, NEW to \in Steps, NEW c, NEW m \in Memory,
         pc' = [pc EXCEPT ![p] = to], cmd' = [cmd EXCEPT ![p] = c], mem' = [mem EXCEPT ![p] = m],
         db' \in Rows, log' \in Seq(Entry), AllSound(bundle'.proposals), AllSound(review'.approved),
         db.registry # Empty => db'.registry # Empty,
         LocalsOK(to, c, db'.registry),
         \/ tx' = tx /\ db' = db /\ pc[p] # "write" /\ to # "write"
         \/ tx' = tx /\ tx.owner = None /\ to # "write"
         \/ pc[p] = "write" /\ tx' = NoTx /\ to # "write"
         \/ /\ tx.owner \in {None, p} /\ to = "write" /\ db' = db
            /\ \E view : tx' = [owner |-> p, rows |-> view] /\ WriteOK(c, view, db)
  PROVE  GovInv'
  <1>1. /\ mem \in [Procs -> Memory] /\ pc \in [Procs -> Steps] /\ cmd = [q \in Procs |-> cmd[q]]
        /\ None \notin Procs
    BY GovernanceAssumption DEF GovInv, StateTyped
  <1>2. StateTyped'
    BY <1>1 DEF StateTyped
  <1>3. /\ pc'[p] = to /\ cmd'[p] = c
        /\ \A q \in Procs \ {p} : pc'[q] = pc[q] /\ cmd'[q] = cmd[q]
    BY <1>1
  <1>4. LocalsInv'
    <2>1. ASSUME NEW q \in Procs \ {p} PROVE LocalsOK(pc'[q], cmd'[q], db'.registry)
      <3>1. LocalsOK(pc[q], cmd[q], db.registry)
        BY DEF GovInv, LocalsInv
      <3>. QED BY <1>3, <3>1 DEF LocalsOK
    <2>. QED BY <1>3, <2>1 DEF LocalsInv
  <1>5. /\ tx = NoTx \/ (tx.owner \in Procs /\ tx = [owner |-> tx.owner, rows |-> tx.rows])
        /\ \A q \in Procs : pc[q] = "write" <=> tx.owner = q
        /\ \A q \in Procs : pc[q] = "write" => WriteOK(cmd[q], tx.rows, db)
        /\ NoTx.owner = None
    BY DEF GovInv, TxInv, NoTx
  <1>6. TxInv'
    <2>1. CASE tx' = tx /\ db' = db /\ pc[p] # "write" /\ to # "write"
      BY <1>1, <1>3, <1>5, <2>1 DEF TxInv
    <2>2. CASE tx' = tx /\ tx.owner = None /\ to # "write"
      <3>1. \A q \in Procs : pc'[q] # "write" /\ tx.owner # q
        BY <1>1, <1>3, <1>5, <2>2
      <3>. QED BY <1>1, <1>5, <2>2, <3>1 DEF TxInv
    <2>3. CASE pc[p] = "write" /\ tx' = NoTx /\ to # "write"
      <3>1. \A q \in Procs : pc'[q] # "write" /\ tx'.owner # q
        BY <1>1, <1>3, <1>5, <2>3
      <3>. QED BY <2>3, <3>1 DEF TxInv
    <2>4. ASSUME tx.owner \in {None, p}, to = "write", db' = db,
                 NEW view, tx' = [owner |-> p, rows |-> view], WriteOK(c, view, db)
          PROVE  TxInv'
      <3>1. \A q \in Procs \ {p} : pc'[q] # "write"
        BY <1>1, <1>3, <1>5, <2>4
      <3>2. tx'.owner = p /\ tx'.rows = view /\ pc'[p] = "write" /\ cmd'[p] = c
        BY <1>3, <2>4
      <3>3. \A q \in Procs : pc'[q] = "write" <=> tx'.owner = q
        BY <3>1, <3>2
      <3>4. \A q \in Procs : pc'[q] = "write" => WriteOK(cmd'[q], tx'.rows, db')
        BY <2>4, <3>1, <3>2
      <3>5. tx' = [owner |-> tx'.owner, rows |-> tx'.rows] /\ tx'.owner \in Procs
        BY <2>4, <3>2
      <3>. QED BY <3>3, <3>4, <3>5 DEF TxInv
    <2>. QED BY <2>1, <2>2, <2>3, <2>4
  <1>. QED BY <1>2, <1>4, <1>6 DEF GovInv

LEMMA Facts ==
  ASSUME GovInv, NEW p \in Procs
  PROVE  /\ db \in Rows /\ log \in Seq(Entry) /\ mem \in [Procs -> Memory]
         /\ AllSound(bundle.proposals) /\ AllSound(review.approved)
         /\ pc \in [Procs -> Steps] /\ cmd = [q \in Procs |-> cmd[q]]
         /\ mem[p] \in Memory /\ pc[p] \in Steps
         /\ LocalsOK(pc[p], cmd[p], db.registry)
         /\ pc[p] = "write" <=> tx.owner = p
         /\ pc[p] = "write" => WriteOK(cmd[p], tx.rows, db)
         /\ Shipped \in Memory
         /\ None \notin Procs
  <1>1. Shipped \in Memory
    <2>1. Shipped.registry \in Registries /\ Shipped.policy \in RoutePolicy
      BY GovernanceAssumption, RegistryIs
    <2>2. Shipped = [registry |-> Shipped.registry, policy |-> Shipped.policy]
      BY GovernanceAssumption
    <2>. QED BY <2>1, <2>2 DEF Memory
  <1>2. mem[p] \in Memory /\ pc[p] \in Steps
    BY DEF GovInv, StateTyped
  <1>. QED BY <1>1, <1>2, GovernanceAssumption DEF GovInv, StateTyped, LocalsInv, TxInv

LEMMA IdleOK ==
  ASSUME NEW reg
  PROVE  LocalsOK("idle", Idle, reg)
  BY DEF LocalsOK, Idle, PastRegistry, Reading

(* A command that ends outside of a transaction. *)
LEMMA StopKeeps ==
  ASSUME GovInv, NEW p \in Procs, pc[p] # "write", stop(p), UNCHANGED <<db, tx, log>>,
         AllSound(bundle'.proposals), AllSound(review'.approved)
  PROVE  GovInv'
  <1>1. kept(p, mem[p]) \in Memory
    BY Facts DEF kept
  <1>2. /\ pc' = [pc EXCEPT ![p] = "idle"] /\ cmd' = [cmd EXCEPT ![p] = Idle]
        /\ mem' = [mem EXCEPT ![p] = kept(p, mem[p])]
    BY DEF stop, goto, set
  <1>3. db' \in Rows /\ log' \in Seq(Entry) /\ LocalsOK("idle", Idle, db'.registry)
    BY Facts, IdleOK
  <1>4. "idle" \in Steps /\ "idle" # "write"
    BY DEF Steps
  <1>. QED BY <1>1, <1>2, <1>3, <1>4, StepKeeps

(* A command that goes on with other locals. *)
LEMMA ProceedKeeps ==
  ASSUME GovInv, NEW p \in Procs, NEW to \in Steps, NEW c, pc[p] # "write", to # "write",
         proceed(p, to, c), UNCHANGED <<db, tx, log, bundle, review>>,
         LocalsOK(to, c, db.registry)
  PROVE  GovInv'
  <1>1. /\ pc' = [pc EXCEPT ![p] = to] /\ cmd' = [cmd EXCEPT ![p] = c]
        /\ mem' = [mem EXCEPT ![p] = mem[p]]
    BY Facts DEF proceed, goto, set
  <1>2. /\ mem[p] \in Memory /\ db' \in Rows /\ log' \in Seq(Entry)
        /\ AllSound(bundle'.proposals) /\ AllSound(review'.approved)
    BY Facts
  <1>. QED BY <1>1, <1>2, StepKeeps

Whole(c) == c = [op |-> c.op, boot |-> c.boot, todo |-> c.todo, value |-> c.value]

LEMMA TodoWith ==
  ASSUME NEW c, Whole(c), NEW t, NEW d, d = [c EXCEPT !.todo = t]
  PROVE  Whole(d) /\ d.op = c.op /\ d.boot = c.boot /\ d.todo = t /\ d.value = c.value
  BY DEF Whole

LEMMA ValueWith ==
  ASSUME NEW c, Whole(c), NEW v, NEW d, d = [c EXCEPT !.value = v]
  PROVE  Whole(d) /\ d.op = c.op /\ d.boot = c.boot /\ d.todo = c.todo /\ d.value = v
  BY DEF Whole

LEMMA Planned ==
  ASSUME NEW c, Whole(c), NEW t, NEW v
  PROVE  LET d == planned(c, t, v)
         IN Whole(d) /\ d.op = c.op /\ d.boot = c.boot /\ d.todo = t /\ d.value = v
  <1> DEFINE e == [c EXCEPT !.todo = t]
  <1>1. Whole(e) /\ e.op = c.op /\ e.boot = c.boot /\ e.todo = t /\ e.value = c.value
    BY TodoWith
  <1>2. planned(c, t, v) = [e EXCEPT !.value = v]
    BY DEF planned
  <1> HIDE DEF e
  <1>3. LET d == planned(c, t, v)
        IN Whole(d) /\ d.op = e.op /\ d.boot = e.boot /\ d.todo = e.todo /\ d.value = v
    BY <1>1, <1>2, ValueWith
  <1>. QED BY <1>1, <1>3

LEMMA BootWith ==
  ASSUME NEW c, Whole(c), NEW b \in BOOLEAN
  PROVE  LET d == [c EXCEPT !.boot = b]
         IN Whole(d) /\ d.op = c.op /\ d.boot = b /\ d.todo = c.todo /\ d.value = c.value
  <1> DEFINE d == [c EXCEPT !.boot = b]
  <1>1. DOMAIN c = {"op", "boot", "todo", "value"}
    BY DEF Whole
  <1>2. d.op = c.op /\ d.todo = c.todo /\ d.value = c.value
    BY <1>1
  <1>3. d.boot = b
    BY <1>1
  <1>4. Whole(d)
    <2>1. d = [f \in {"op", "boot", "todo", "value"} |-> d[f]]
      BY <1>1
    <2> HIDE DEF d
    <2>. QED BY <2>1 DEF Whole
  <1>. QED BY <1>2, <1>3, <1>4

(* The rows have their types after a save. *)
LEMMA RowsWithRegistry ==
  ASSUME NEW rows \in Rows, NEW reg \in Registries
  PROVE  LET new == save_route_registry(rows, reg)
         IN /\ new \in Rows /\ new.registry = reg /\ new.policy = rows.policy
            /\ new.audit = rows.audit /\ new.rounds = rows.rounds
  BY DEF Rows, save_route_registry

LEMMA RowsWithPolicy ==
  ASSUME NEW rows \in Rows, NEW policy \in RoutePolicy \cup {None}
  PROVE  LET new == save_route_policy(rows, policy)
         IN /\ new \in Rows /\ new.registry = rows.registry /\ new.policy = policy
            /\ new.audit = rows.audit /\ new.rounds = rows.rounds
  BY DEF Rows, save_route_policy

LEMMA RowsWithAudit ==
  ASSUME NEW rows \in Rows, NEW audit \in AuditTriggerPolicy
  PROVE  LET new == save_audit_trigger_policy(rows, audit)
         IN /\ new \in Rows /\ new.registry = rows.registry /\ new.policy = rows.policy
            /\ new.audit = audit /\ new.rounds = rows.rounds
  BY DEF Rows, save_audit_trigger_policy

LEMMA RowsWithRounds ==
  ASSUME NEW rows \in Rows, NEW rounds \in 0 .. 3
  PROVE  LET new == save_mps_policy(rows, rounds)
         IN /\ new \in Rows /\ new.registry = rows.registry /\ new.policy = rows.policy
            /\ new.audit = rows.audit /\ new.rounds = rounds
  BY DEF Rows, save_mps_policy

LEMMA MemoryWith ==
  ASSUME NEW m \in Memory
  PROVE  /\ \A reg \in Registries :
              LET new == [m EXCEPT !.registry = reg]
              IN new \in Memory /\ new.registry = reg /\ new.policy = m.policy
         /\ \A policy \in RoutePolicy :
              LET new == [m EXCEPT !.policy = policy]
              IN new \in Memory /\ new.registry = m.registry /\ new.policy = policy
  BY DEF Memory

LEMMA EmptyIs ==
  ASSUME NEW reg \in Registries
  PROVE  reg = Empty <=> DOMAIN reg = {}
  BY RegistryShape DEF Empty

(* Reading, unless the rows are absent. *)
LEMMA ApplyTypes ==
  ASSUME NEW m \in Memory, NEW rows \in Rows, NEW kind \in Kinds,
         kind = "policy" => rows.policy # None
  PROVE  /\ apply_route(m, rows, kind) \in Memory
         /\ kind = "registry" => /\ apply_route(m, rows, kind).registry = rows.registry
                                 /\ apply_route(m, rows, kind).policy = m.policy
         /\ kind = "policy" => /\ apply_route(m, rows, kind).registry = m.registry
                               /\ apply_route(m, rows, kind).policy = rows.policy
         /\ kind = "weights" =>
              /\ apply_route(m, rows, kind).registry
                   = save_route_weights(m.registry, load_route_weights(rows.registry))
              /\ apply_route(m, rows, kind).policy = m.policy
         /\ kind = "profiles" =>
              /\ apply_route(m, rows, kind).registry
                   = save_route_capability_profiles(m.registry,
                       load_route_capability_profiles(rows.registry))
              /\ apply_route(m, rows, kind).policy = m.policy
         /\ kind \in {"audit", "rounds"} => apply_route(m, rows, kind) = m
  <1>1. /\ rows.registry \in Registries /\ rows.policy \in RoutePolicy \cup {None}
        /\ m.registry \in Registries /\ m.policy \in RoutePolicy
    BY DEF Rows, Memory
  <1>2. /\ save_route_weights(m.registry, load_route_weights(rows.registry)) \in Registries
        /\ save_route_capability_profiles(m.registry,
             load_route_capability_profiles(rows.registry)) \in Registries
    BY <1>1, LoadWeightsType, LoadProfilesType, SaveTypes
  <1>3. CASE kind = "registry"
    BY <1>1, <1>3, MemoryWith DEF apply_route
  <1>4. CASE kind = "policy"
    BY <1>1, <1>4, MemoryWith DEF apply_route
  <1>5. CASE kind = "weights"
    BY <1>1, <1>2, <1>5, MemoryWith DEF apply_route
  <1>6. CASE kind = "profiles"
    BY <1>1, <1>2, <1>6, MemoryWith DEF apply_route
  <1>7. CASE kind \in {"audit", "rounds"}
    BY <1>7 DEF apply_route
  <1>. QED BY <1>3, <1>4, <1>5, <1>6, <1>7 DEF Kinds

LEMMA NoticeEmptyKeeps ==
  ASSUME GovInv, NEW p \in Procs, NoticeEmpty(p)
  PROVE  GovInv'
  <1> DEFINE c == [cmd[p] EXCEPT !.boot = TRUE]
  <1>1. /\ Empties(p) /\ cmd' = [cmd EXCEPT ![p] = c]
        /\ UNCHANGED <<db, tx, log, mem, bundle, review, pc>>
    BY DEF NoticeEmpty, set
  <1>2. LocalsOK(pc[p], cmd[p], db.registry) /\ Whole(cmd[p])
    BY Facts DEF LocalsOK, Whole
  <1>3. Whole(c) /\ c.op = cmd[p].op /\ c.boot = TRUE /\ c.todo = cmd[p].todo /\ c.value = cmd[p].value
    BY <1>2, BootWith
  <1>4. Reading(pc[p], cmd[p].op)
    BY <1>1 DEF Empties, reads, Reading
  <1> HIDE DEF c
  <1>5. LocalsOK(pc[p], c, db.registry)
    <2>1. ValueOK(cmd[p]) => ValueOK(c)
      BY <1>3 DEF ValueOK
    <2>. QED BY <1>2, <1>3, <1>4, <2>1 DEF LocalsOK, Whole
  <1>6. pc[p] = "write" => WriteOK(c, tx.rows, db)
    <2>1. pc[p] # "write"
      BY <1>4 DEF Reading
    <2>. QED BY <2>1
  <1>7. pc[p] # "write" /\ pc' = [pc EXCEPT ![p] = pc[p]] /\ mem' = [mem EXCEPT ![p] = mem[p]]
    BY <1>1, <1>4, Facts DEF Reading
  <1>8. /\ db' \in Rows /\ log' \in Seq(Entry) /\ mem[p] \in Memory /\ pc[p] \in Steps
        /\ AllSound(bundle'.proposals) /\ AllSound(review'.approved)
    BY <1>1, Facts
  <1>. QED BY <1>1, <1>5, <1>7, <1>8, StepKeeps

(* What a bootstrap writes. *)
LEMMA BootstrapWrites ==
  ASSUME GovInv, NEW p \in Procs, Bootstrap(p)
  PROVE  /\ db' \in Rows /\ db'.audit = db.audit /\ db'.rounds = db.rounds
         /\ db'.registry \in {db.registry, IF db.registry = Empty THEN Stored.registry ELSE db.registry}
         /\ db'.policy \in {db.policy, IF db.policy = None THEN Stored.policy ELSE db.policy}
         /\ Stored.registry \in Registries /\ Stored.registry # Empty
  <1>1. LocalsOK(pc[p], cmd[p], db.registry) /\ db \in Rows
    BY Facts
  <1>2. cmd[p].boot /\ db' = bootstrap_rows(db, reads(p))
    BY DEF Bootstrap
  <1>3. reads(p) \in {"registry", "policy"}
    BY <1>1, <1>2 DEF LocalsOK, Reading, reads
  <1>4. Stored.registry \in Registries /\ Stored.registry # Empty /\ Stored.policy \in RoutePolicy
    BY StoredTypes, EmptyIs
  <1>5. /\ db.registry \in Registries /\ db.policy \in RoutePolicy \cup {None}
        /\ db.audit \in AuditTriggerPolicy /\ db.rounds \in 0 .. 3
    BY <1>1 DEF Rows
  <1>6. CASE reads(p) = "registry"
    <2> DEFINE reg == IF db.registry = Empty THEN Stored.registry ELSE db.registry
    <2>1. db' = save_route_registry(db, reg)
      <3>1. db' = bootstrap_rows(db, "registry")
        BY <1>2, <1>6
      <3>2. bootstrap_rows(db, "registry") = [db EXCEPT !["registry"] = reg]
        BY SMT DEF bootstrap_rows
      <3>. QED BY <3>1, <3>2 DEF save_route_registry
    <2>2. reg \in Registries
      BY <1>4, <1>5
    <2> HIDE DEF reg
    <2>3. db' \in Rows /\ db'.registry = reg /\ db'.policy = db.policy
          /\ db'.audit = db.audit /\ db'.rounds = db.rounds
      BY <1>1, <2>1, <2>2, RowsWithRegistry
    <2>. QED BY <1>4, <2>3 DEF reg
  <1>7. CASE reads(p) = "policy"
    <2> DEFINE policy == IF db.policy = None THEN Stored.policy ELSE db.policy
    <2>1. db' = save_route_policy(db, policy)
      <3>1. db' = bootstrap_rows(db, "policy")
        BY <1>2, <1>7
      <3>2. bootstrap_rows(db, "policy") = [db EXCEPT !["policy"] = policy]
        BY SMT DEF bootstrap_rows
      <3>. QED BY <3>1, <3>2 DEF save_route_policy
    <2>2. policy \in RoutePolicy \cup {None}
      BY <1>4, <1>5
    <2> HIDE DEF policy
    <2>3. db' \in Rows /\ db'.registry = db.registry /\ db'.policy = policy
          /\ db'.audit = db.audit /\ db'.rounds = db.rounds
      BY <1>1, <2>1, <2>2, RowsWithPolicy
    <2>. QED BY <1>4, <2>3 DEF policy
  <1>. QED BY <1>3, <1>6, <1>7

LEMMA BootstrapKeeps ==
  ASSUME GovInv, NEW p \in Procs, Bootstrap(p)
  PROVE  GovInv'
  <1> DEFINE c == [cmd[p] EXCEPT !.boot = FALSE]
  <1>1. /\ tx.owner = None /\ cmd' = [cmd EXCEPT ![p] = c]
        /\ UNCHANGED <<tx, log, mem, bundle, review, pc>>
    BY DEF Bootstrap, set
  <1>2. LocalsOK(pc[p], cmd[p], db.registry) /\ Whole(cmd[p])
    BY Facts DEF LocalsOK, Whole
  <1>3. Whole(c) /\ c.op = cmd[p].op /\ c.boot = FALSE /\ c.todo = cmd[p].todo /\ c.value = cmd[p].value
    BY <1>2, BootWith
  <1>4. db' \in Rows /\ (db.registry # Empty => db'.registry # Empty)
    BY BootstrapWrites
  <1> HIDE DEF c
  <1>5. LocalsOK(pc[p], c, db'.registry)
    <2>1. ValueOK(cmd[p]) => ValueOK(c)
      BY <1>3 DEF ValueOK
    <2>. QED BY <1>2, <1>3, <1>4, <2>1 DEF LocalsOK, Whole
  <1>6. pc[p] # "write" /\ pc' = [pc EXCEPT ![p] = pc[p]] /\ mem' = [mem EXCEPT ![p] = mem[p]]
    BY <1>1, Facts
  <1>7. /\ log' \in Seq(Entry) /\ mem[p] \in Memory /\ pc[p] \in Steps
        /\ AllSound(bundle'.proposals) /\ AllSound(review'.approved)
    BY <1>1, Facts
  <1>. QED BY <1>1, <1>4, <1>5, <1>6, <1>7, StepKeeps

(* What a reader makes of its memory, and where it goes on. *)
LEMMA RefreshReads ==
  ASSUME GovInv, NEW p \in Procs, refresh(p)
  PROVE  LET m == apply_route(mem[p], db, pc[p])
             done == pc[p] = "profiles" /\ cmd[p].op = "none"
             to == IF pc[p] = "registry" THEN "policy" ELSE IF pc[p] = "policy" THEN "weights"
                   ELSE IF pc[p] = "weights" THEN "profiles" ELSE IF done THEN "idle" ELSE "body"
         IN /\ pc[p] \in {"registry", "policy", "weights", "profiles"}
            /\ db.registry # Empty /\ (pc[p] = "policy" => db.policy # None) /\ ~cmd[p].boot
            /\ m \in Memory
            /\ mem' = [mem EXCEPT ![p] = IF done THEN kept(p, m) ELSE m]
            /\ pc' = [pc EXCEPT ![p] = to]
            /\ UNCHANGED <<db, tx, log, bundle, review, cmd>>
  <1>1. /\ pc[p] \in {"registry", "policy", "weights", "profiles"} /\ ~cmd[p].boot /\ ~Empties(p)
        /\ UNCHANGED <<db, tx, log, bundle, review, cmd>>
    BY DEF refresh, Ready
  <1>2. db.registry # Empty /\ (pc[p] = "policy" => db.policy # None)
    <2>1. pc[p] = "registry" => db.registry # Empty
      BY <1>1 DEF Empties, reads
    <2>2. pc[p] = "policy" => db.policy # None
      BY <1>1 DEF Empties, reads
    <2>3. pc[p] # "registry" => db.registry # Empty
      BY <1>1, Facts DEF LocalsOK, PastRegistry
    <2>. QED BY <2>1, <2>2, <2>3
  <1>3. apply_route(mem[p], db, pc[p]) \in Memory
    BY <1>1, <1>2, Facts, ApplyTypes DEF Kinds
  <1> DEFINE m == apply_route(mem[p], db, pc[p])
             done == pc[p] = "profiles" /\ cmd[p].op = "none"
             next == [registry |-> "policy", policy |-> "weights", weights |-> "profiles"]
  <1>4. mem' = [mem EXCEPT ![p] = IF done THEN kept(p, m) ELSE m]
    BY DEF refresh
  <1>5. pc' = [pc EXCEPT ![p] = IF pc[p] # "profiles" THEN next[pc[p]] ELSE IF done THEN "idle" ELSE "body"]
    BY DEF refresh, goto
  <1>6. next["registry"] = "policy" /\ next["policy"] = "weights" /\ next["weights"] = "profiles"
    OBVIOUS
  <1> HIDE DEF next
  <1>7. (IF pc[p] # "profiles" THEN next[pc[p]] ELSE IF done THEN "idle" ELSE "body")
          = IF pc[p] = "registry" THEN "policy" ELSE IF pc[p] = "policy" THEN "weights"
            ELSE IF pc[p] = "weights" THEN "profiles" ELSE IF done THEN "idle" ELSE "body"
    BY <1>1, <1>6
  <1>. QED BY <1>1, <1>2, <1>3, <1>4, <1>5, <1>7

LEMMA RefreshKeeps ==
  ASSUME GovInv, NEW p \in Procs, refresh(p)
  PROVE  GovInv'
  <1> DEFINE m == apply_route(mem[p], db, pc[p])
             done == pc[p] = "profiles" /\ cmd[p].op = "none"
             to == IF pc[p] = "registry" THEN "policy" ELSE IF pc[p] = "policy" THEN "weights"
                   ELSE IF pc[p] = "weights" THEN "profiles" ELSE IF done THEN "idle" ELSE "body"
             n == IF done THEN kept(p, m) ELSE m
  <1>1. /\ pc[p] \in {"registry", "policy", "weights", "profiles"}
        /\ db.registry # Empty /\ ~cmd[p].boot /\ m \in Memory
        /\ mem' = [mem EXCEPT ![p] = n] /\ pc' = [pc EXCEPT ![p] = to]
        /\ UNCHANGED <<db, tx, log, bundle, review, cmd>>
    BY RefreshReads
  <1>2. n \in Memory
    BY <1>1, Facts DEF kept
  <1>3. to \in Steps /\ to \in {"policy", "weights", "profiles", "idle", "body"}
    BY <1>1 DEF Steps
  <1>4. LocalsOK(pc[p], cmd[p], db.registry)
    BY Facts
  <1> HIDE DEF to, n, m
  <1>5. LocalsOK(to, cmd[p], db.registry)
    BY <1>1, <1>3, <1>4 DEF LocalsOK
  <1>6. cmd' = [cmd EXCEPT ![p] = cmd[p]]
    BY <1>1, Facts
  <1>7. /\ db' \in Rows /\ log' \in Seq(Entry)
        /\ AllSound(bundle'.proposals) /\ AllSound(review'.approved)
    BY <1>1, Facts
  <1>8. pc[p] # "write" /\ to # "write"
    BY <1>1, <1>3
  <1>. QED BY <1>1, <1>2, <1>3, <1>5, <1>6, <1>7, <1>8, StepKeeps

LEMMA StartKeeps ==
  ASSUME GovInv, NEW p \in Procs, NEW op \in Offered[p], Start(p, op)
  PROVE  GovInv'
  <1> DEFINE c == [Idle EXCEPT !.op = op]
             to == IF p \in Cli \/ op = "select" THEN "registry" ELSE "body"
  <1>1. /\ pc[p] = "idle" /\ cmd' = [cmd EXCEPT ![p] = c] /\ pc' = [pc EXCEPT ![p] = to]
        /\ UNCHANGED <<db, tx, log, mem, bundle, review>>
    BY DEF Start, set, goto
  <1>2. Whole(c) /\ c.op = op /\ c.boot = FALSE
    <2>1. Idle.op = "none" /\ Idle.boot = FALSE /\ DOMAIN Idle = {"op", "boot", "todo", "value"}
      BY DEF Idle
    <2>2. DOMAIN c = {"op", "boot", "todo", "value"} /\ c.op = op /\ c.boot = Idle.boot
      BY <2>1
    <2>3. c = [f \in {"op", "boot", "todo", "value"} |-> c[f]]
      BY <2>1
    <2> HIDE DEF c
    <2>. QED BY <2>1, <2>2, <2>3 DEF Whole
  <1>3. p \in Web => op \in {"select", "decide", "review"}
    BY GovernanceAssumption
  <1>4. to \in {"registry", "body"} /\ (to = "body" => op \in {"decide", "review"})
    BY <1>3 DEF Procs
  <1> HIDE DEF c, to
  <1>5. LocalsOK(to, c, db.registry)
    BY <1>2, <1>4 DEF LocalsOK, Whole, PastRegistry
  <1>6. mem' = [mem EXCEPT ![p] = mem[p]]
    BY <1>1, Facts
  <1>7. /\ mem[p] \in Memory /\ db' \in Rows /\ log' \in Seq(Entry)
        /\ AllSound(bundle'.proposals) /\ AllSound(review'.approved)
    BY <1>1, Facts
  <1>8. to \in Steps
    BY <1>4 DEF Steps
  <1>. QED BY <1>1, <1>4, <1>5, <1>6, <1>7, <1>8, StepKeeps

(* The commands, each in its own way. *)
LEMMA OptimizeKeeps ==
  ASSUME GovInv, NEW p \in Procs, run_meta_optimizer(p)
  PROVE  GovInv'
  <1>1. pc[p] = "body" /\ stop(p) /\ UNCHANGED <<db, tx, log, review>>
    BY DEF run_meta_optimizer
  <1>2. PICK ev \in Telemetries :
          bundle' = [events |-> ev,
                     proposals |-> build_optimization_proposals(mem[p].registry,
                                     load_route_capability_profiles(db.registry), ev)]
    BY DEF run_meta_optimizer
  <1>3. ev \in Seq(TelemetryEvent)
    BY GovernanceAssumption
  <1>4. AllSound(bundle'.proposals)
    BY <1>2, <1>3, ProposalsAreSound DEF AllSound
  <1>5. AllSound(review'.approved)
    BY <1>1, Facts
  <1>. QED BY <1>1, <1>4, <1>5, StopKeeps

LEMMA DecideKeeps ==
  ASSUME GovInv, NEW p \in Procs, review_optimization_proposals(p)
  PROVE  GovInv'
  <1>1. pc[p] = "body" /\ stop(p) /\ UNCHANGED <<db, tx, log, bundle>>
    BY DEF review_optimization_proposals
  <1>2. PICK decision \in {"approved", "rejected", "deferred"}, selected \in selections(bundle.proposals) :
          review' = [events |-> bundle.events,
                     approved |-> approved_by(decision, selected, bundle.proposals)]
    BY DEF review_optimization_proposals
  <1>3. review'.approved \subseteq bundle.proposals
    BY <1>2 DEF approved_by, selections
  <1>4. AllSound(bundle.proposals)
    BY Facts
  <1>5. AllSound(bundle'.proposals) /\ AllSound(review'.approved)
    BY <1>1, <1>3, <1>4 DEF AllSound
  <1>. QED BY <1>1, <1>5, StopKeeps

LEMMA SelectKeeps ==
  ASSUME GovInv, NEW p \in Procs, select_route_command(p)
  PROVE  GovInv'
  <1>1. pc[p] = "body" /\ stop(p) /\ UNCHANGED <<db, tx, log, bundle, review>>
    BY DEF select_route_command
  <1>. QED BY <1>1, Facts, StopKeeps

(* A command with something to write goes to its transaction. *)
LEMMA PrepareKeeps ==
  ASSUME GovInv, NEW p \in Procs, NEW c, NEW v,
         pc[p] \in {"body", "load_profiles"}, cmd[p].op \in Changes, ~cmd[p].boot,
         db.registry # Empty,
         c = planned(cmd[p], FullTodo(cmd[p].op), v),
         ValueOK([op |-> cmd[p].op, value |-> v]),
         proceed(p, "begin", c),
         UNCHANGED <<db, tx, log, bundle, review>>
  PROVE  GovInv'
  <1>1. Whole(cmd[p])
    BY Facts DEF LocalsOK, Whole
  <1>2. Whole(c) /\ c.op = cmd[p].op /\ c.boot = cmd[p].boot /\ c.todo = FullTodo(cmd[p].op) /\ c.value = v
    BY <1>1, Planned
  <1>3. ValueOK(c)
    BY <1>2 DEF ValueOK
  <1>4. c.boot \in BOOLEAN
    BY <1>2, Facts DEF LocalsOK
  <1>5. LocalsOK("begin", c, db.registry)
    BY <1>2, <1>3, <1>4 DEF LocalsOK, Whole, Reading
  <1>6. pc[p] # "write" /\ "begin" \in Steps /\ "begin" # "write"
    BY DEF Steps
  <1>. QED BY <1>5, <1>6, ProceedKeeps

LEMMA RegistryCommandKeeps ==
  ASSUME GovInv, NEW p \in Procs, apply_route_registry_command(p)
  PROVE  GovInv'
  <1>1. /\ pc[p] = "body" /\ cmd[p].op = "registry" /\ ~cmd[p].boot
        /\ UNCHANGED <<db, tx, log, bundle, review>>
    BY DEF apply_route_registry_command, Ready
  <1>2. db.registry # Empty
    BY <1>1, Facts DEF LocalsOK, PastRegistry
  <1>3. PICK file \in RegistryFiles :
          \/ /\ normalize_route_registry_payload(file)
             /\ proceed(p, "begin", planned(cmd[p], <<"registry">>, [registry |-> file]))
          \/ stop(p)
    BY DEF apply_route_registry_command
  <1>4. CASE stop(p)
    BY <1>1, <1>4, Facts, StopKeeps
  <1>5. CASE /\ normalize_route_registry_payload(file)
             /\ proceed(p, "begin", planned(cmd[p], <<"registry">>, [registry |-> file]))
    <2>1. file \in Registries /\ DOMAIN file # {}
      BY <1>5, GovernanceAssumption, RegistryIs DEF normalize_route_registry_payload
    <2>2. ValueOK([op |-> "registry", value |-> [registry |-> file]])
      BY <2>1 DEF ValueOK
    <2> DEFINE v == [registry |-> file]
               c == planned(cmd[p], <<"registry">>, v)
    <2>3. c = planned(cmd[p], FullTodo(cmd[p].op), v) /\ cmd[p].op \in Changes
      BY <1>1 DEF FullTodo, Changes
    <2>4. proceed(p, "begin", c)
      BY <1>5
    <2>5. ValueOK([op |-> cmd[p].op, value |-> v])
      BY <1>1, <2>2
    <2> HIDE DEF c, v
    <2>. QED BY <1>1, <1>2, <2>3, <2>4, <2>5, PrepareKeeps
  <1>. QED BY <1>3, <1>4, <1>5

LEMMA PolicyCommandKeeps ==
  ASSUME GovInv, NEW p \in Procs, apply_route_policy_command(p)
  PROVE  GovInv'
  <1>1. /\ pc[p] = "body" /\ cmd[p].op = "policy" /\ ~cmd[p].boot
        /\ UNCHANGED <<db, tx, log, bundle, review>>
    BY DEF apply_route_policy_command, Ready
  <1>2. db.registry # Empty
    BY <1>1, Facts DEF LocalsOK, PastRegistry
  <1>3. PICK file \in PolicyFiles :
          proceed(p, "begin", planned(cmd[p], <<"policy">>, [policy |-> file]))
    BY DEF apply_route_policy_command
  <1>4. ValueOK([op |-> "policy", value |-> [policy |-> file]])
    BY GovernanceAssumption DEF ValueOK
  <1> DEFINE v == [policy |-> file]
             c == planned(cmd[p], <<"policy">>, v)
  <1>5. c = planned(cmd[p], FullTodo(cmd[p].op), v) /\ cmd[p].op \in Changes
    BY <1>1 DEF FullTodo, Changes
  <1>6. proceed(p, "begin", c)
    BY <1>3
  <1>7. ValueOK([op |-> cmd[p].op, value |-> v])
    BY <1>1, <1>4
  <1> HIDE DEF c, v
  <1>. QED BY <1>1, <1>2, <1>5, <1>6, <1>7, PrepareKeeps

(* A report gives weights, a change a profile. *)
LEMMA ReportedTypes ==
  ASSUME NEW w \in Weights, NEW report \in WeightReports
  PROVE  reported_weights(w, report) \in Weights
  <1>1. ASSUME NEW n \in RouteName PROVE reported_weights(w, report)[n] \in Nat
    <2>1. n \in DOMAIN report => report[n] \in Nat
      BY GovernanceAssumption
    <2>. QED BY <2>1 DEF reported_weights, Weights, Full
  <1>2. reported_weights(w, report) = [n \in RouteName |-> reported_weights(w, report)[n]]
    BY DEF reported_weights
  <1>. QED BY <1>1, <1>2 DEF Weights

LEMMA ChangedHas ==
  ASSUME NEW profile \in Profile, NEW change \in ProfileChange
  PROVE  /\ changed_profile(profile, change) \in Profile
         /\ (\A f \in profile.unsupported : profile.scores[f] = None) =>
              \A f \in changed_profile(profile, change).unsupported :
                 changed_profile(profile, change).scores[f] = None
  <1> DEFINE scored == IF change.family = None THEN profile.scores
                       ELSE [profile.scores EXCEPT ![change.family] = change.score]
             scores == [f \in Families |-> IF f \in change.mark \cup {change.clear} THEN None ELSE scored[f]]
             unsupported == ((profile.unsupported \ {change.family}) \cup change.mark) \ change.unmark
  <1>1. changed_profile(profile, change) = [scores |-> scores, unsupported |-> unsupported]
    BY DEF changed_profile
  <1>2. /\ profile.scores \in [Families -> Nat \cup {None}] /\ profile.unsupported \subseteq Families
        /\ change.score \in Nat /\ change.mark \subseteq Families
    BY DEF Profile, ProfileChange
  <1>3. \A f \in Families : /\ scored[f] \in Nat \cup {None}
                            /\ f # change.family => scored[f] = profile.scores[f]
    BY <1>2
  <1> HIDE DEF scored
  <1>4. scores \in [Families -> Nat \cup {None}]
    BY <1>3
  <1>5. unsupported \in SUBSET Families
    BY <1>2
  <1>6. ASSUME \A f \in profile.unsupported : profile.scores[f] = None, NEW f \in unsupported
        PROVE  scores[f] = None
    BY <1>2, <1>3, <1>6
  <1> HIDE DEF scores, unsupported
  <1>. QED BY <1>1, <1>4, <1>5, <1>6 DEF Profile

LEMMA ChangedTypes ==
  ASSUME NEW g \in Profiles, NEW change \in ProfileChange
  PROVE  /\ changed_profiles(g, change) \in Profiles
         /\ \A n \in RouteName : changed_profiles(g, change)[n]
                                   = IF n = change.route THEN changed_profile(g[n], change) ELSE g[n]
  <1>1. change.route \in RouteName /\ g[change.route] \in Profile
    BY DEF ProfileChange, Profiles
  <1>2. changed_profile(g[change.route], change) \in Profile
    BY <1>1, ChangedHas
  <1>. QED BY <1>1, <1>2 DEF changed_profiles, Profiles

LEMMA WeightsCommandKeeps ==
  ASSUME GovInv, NEW p \in Procs, route_weights_command(p)
  PROVE  GovInv'
  <1>1. /\ pc[p] = "body" /\ cmd[p].op = "weights"
        /\ UNCHANGED <<db, tx, log, bundle, review>>
    BY DEF route_weights_command
  <1>2. db.registry # Empty /\ ~cmd[p].boot
    BY <1>1, Facts DEF LocalsOK, PastRegistry, Reading
  <1> DEFINE now == load_route_weights(mem[p].registry)
  <1>3. PICK report \in WeightReports :
          \/ proceed(p, "begin", planned(cmd[p], <<"weights">>, [weights |-> reported_weights(now, report)]))
          \/ stop(p)
    BY DEF route_weights_command
  <1>4. CASE stop(p)
    BY <1>1, <1>4, Facts, StopKeeps
  <1>5. CASE proceed(p, "begin", planned(cmd[p], <<"weights">>, [weights |-> reported_weights(now, report)]))
    <2> DEFINE v == [weights |-> reported_weights(now, report)]
               c == planned(cmd[p], <<"weights">>, v)
    <2>1. now \in Weights
      <3>1. mem[p].registry \in Registries
        BY Facts DEF Memory
      <3>. QED BY <3>1, LoadWeightsType
    <2>2. v.weights \in Weights
      <3> HIDE DEF now
      <3>. QED BY <2>1, ReportedTypes
    <2>3. proceed(p, "begin", c)
      BY <1>5
    <2> HIDE DEF v
    <2>4. c = planned(cmd[p], FullTodo(cmd[p].op), v) /\ cmd[p].op \in Changes
      BY <1>1 DEF FullTodo, Changes
    <2>5. ValueOK([op |-> cmd[p].op, value |-> v])
      BY <1>1, <2>2 DEF ValueOK
    <2> HIDE DEF c
    <2>. QED BY <1>1, <1>2, <2>3, <2>4, <2>5, PrepareKeeps
  <1>. QED BY <1>3, <1>4, <1>5

LEMMA ProfilesCommandKeeps ==
  ASSUME GovInv, NEW p \in Procs, route_capabilities_command(p)
  PROVE  GovInv'
  <1>1. /\ pc[p] = "body" /\ cmd[p].op = "profiles"
        /\ UNCHANGED <<db, tx, log, bundle, review>>
    BY DEF route_capabilities_command
  <1>2. db.registry # Empty /\ ~cmd[p].boot
    BY <1>1, Facts DEF LocalsOK, PastRegistry, Reading
  <1> DEFINE now == load_route_capability_profiles(db.registry)
  <1>3. PICK change \in ProfileChanges :
          \/ proceed(p, "begin", planned(cmd[p], <<"profiles">>, [profiles |-> changed_profiles(now, change)]))
          \/ stop(p)
    BY DEF route_capabilities_command
  <1>4. CASE stop(p)
    BY <1>1, <1>4, Facts, StopKeeps
  <1>5. CASE proceed(p, "begin", planned(cmd[p], <<"profiles">>, [profiles |-> changed_profiles(now, change)]))
    <2> DEFINE v == [profiles |-> changed_profiles(now, change)]
               c == planned(cmd[p], <<"profiles">>, v)
    <2>1. now \in Profiles /\ change \in ProfileChange
      <3>1. db.registry \in Registries
        BY Facts DEF Rows
      <3>. QED BY <3>1, LoadProfilesType, GovernanceAssumption
    <2>2. v.profiles \in Profiles
      <3> HIDE DEF now
      <3>. QED BY <2>1, ChangedTypes
    <2>3. proceed(p, "begin", c)
      BY <1>5
    <2> HIDE DEF v
    <2>4. c = planned(cmd[p], FullTodo(cmd[p].op), v) /\ cmd[p].op \in Changes
      BY <1>1 DEF FullTodo, Changes
    <2>5. ValueOK([op |-> cmd[p].op, value |-> v])
      BY <1>1, <2>2 DEF ValueOK
    <2> HIDE DEF c
    <2>. QED BY <1>1, <1>2, <2>3, <2>4, <2>5, PrepareKeeps
  <1>. QED BY <1>3, <1>4, <1>5

LEMMA AuditCommandKeeps ==
  ASSUME GovInv, NEW p \in Procs, set_audit_trigger_policy_command(p)
  PROVE  GovInv'
  <1>1. /\ pc[p] = "body" /\ cmd[p].op = "audit"
        /\ UNCHANGED <<db, tx, log, bundle, review>>
    BY DEF set_audit_trigger_policy_command
  <1>2. db.registry # Empty /\ ~cmd[p].boot
    BY <1>1, Facts DEF LocalsOK, PastRegistry, Reading
  <1>2a. AuditRequests \subseteq [field : {"enabled", "on_degraded"}, to : BOOLEAN]
    BY GovernanceAssumption
  <1>2b. PICK request \in AuditRequests :
          proceed(p, "begin", planned(cmd[p], <<"audit">>,
            [audit |-> [db.audit EXCEPT ![request.field] = request.to]]))
    BY DEF set_audit_trigger_policy_command
  <1>3. PICK field \in {"enabled", "on_degraded"}, b \in BOOLEAN :
          proceed(p, "begin", planned(cmd[p], <<"audit">>, [audit |-> [db.audit EXCEPT ![field] = b]]))
    BY <1>2a, <1>2b
  <1>4. [db.audit EXCEPT ![field] = b] \in AuditTriggerPolicy
    <2>1. db.audit \in AuditTriggerPolicy
      BY Facts DEF Rows
    <2>. QED BY <2>1 DEF AuditTriggerPolicy
  <1>5. ValueOK([op |-> "audit", value |-> [audit |-> [db.audit EXCEPT ![field] = b]]])
    BY <1>4 DEF ValueOK
  <1> DEFINE v == [audit |-> [db.audit EXCEPT ![field] = b]]
             c == planned(cmd[p], <<"audit">>, v)
  <1>6. c = planned(cmd[p], FullTodo(cmd[p].op), v) /\ cmd[p].op \in Changes
    BY <1>1 DEF FullTodo, Changes
  <1>7. proceed(p, "begin", c)
    BY <1>3
  <1>8. ValueOK([op |-> cmd[p].op, value |-> v])
    BY <1>1, <1>5
  <1> HIDE DEF c, v
  <1>. QED BY <1>1, <1>2, <1>6, <1>7, <1>8, PrepareKeeps

LEMMA RoundsCommandKeeps ==
  ASSUME GovInv, NEW p \in Procs, set_mps_policy_command(p)
  PROVE  GovInv'
  <1>1. /\ pc[p] = "body" /\ cmd[p].op = "rounds"
        /\ UNCHANGED <<db, tx, log, bundle, review>>
    BY DEF set_mps_policy_command
  <1>2. db.registry # Empty /\ ~cmd[p].boot
    BY <1>1, Facts DEF LocalsOK, PastRegistry, Reading
  <1>3. PICK value \in RoundRequests :
          \/ /\ value \in 1 .. 3
             /\ proceed(p, "begin", planned(cmd[p], <<"rounds">>, [rounds |-> value]))
          \/ stop(p)
    BY DEF set_mps_policy_command, validate_mps_policy_value
  <1>4. CASE stop(p)
    BY <1>1, <1>4, Facts, StopKeeps
  <1>5. CASE /\ value \in 1 .. 3
             /\ proceed(p, "begin", planned(cmd[p], <<"rounds">>, [rounds |-> value]))
    <2>1. ValueOK([op |-> "rounds", value |-> [rounds |-> value]])
      BY <1>5 DEF ValueOK
    <2> DEFINE v == [rounds |-> value]
               c == planned(cmd[p], <<"rounds">>, v)
    <2>2. c = planned(cmd[p], FullTodo(cmd[p].op), v) /\ cmd[p].op \in Changes
      BY <1>1 DEF FullTodo, Changes
    <2>3. proceed(p, "begin", c)
      BY <1>5
    <2>4. ValueOK([op |-> cmd[p].op, value |-> v])
      BY <1>1, <2>1
    <2> HIDE DEF c, v
    <2>. QED BY <1>1, <1>2, <2>2, <2>3, <2>4, PrepareKeeps
  <1>. QED BY <1>3, <1>4, <1>5

(* Weights that are loaded have their type, *)
LEMMA LoadWeightsKeeps ==
  ASSUME GovInv, NEW p \in Procs, LoadWeights(p)
  PROVE  GovInv'
  <1> DEFINE v == [approved |-> review.approved, events |-> review.events,
                   weights |-> load_route_weights(db.registry)]
             c == [cmd[p] EXCEPT !.value = v]
  <1>1. /\ pc[p] = "body" /\ cmd[p].op = "review" /\ ~cmd[p].boot
        /\ UNCHANGED <<db, tx, log, bundle, review>>
        /\ stop(p) \/ proceed(p, "load_profiles", c)
    BY DEF LoadWeights, Ready
  <1>2. db.registry # Empty
    BY <1>1 DEF LoadWeights, Ready, Empties, reads
  <1>3. CASE stop(p)
    BY <1>1, <1>3, Facts, StopKeeps
  <1>4. CASE proceed(p, "load_profiles", c)
    <2>1. Whole(cmd[p]) /\ cmd[p].boot \in BOOLEAN
      BY Facts DEF LocalsOK, Whole
    <2>2. Whole(c) /\ c.op = "review" /\ c.boot = cmd[p].boot /\ c.value = v
      BY <1>1, <2>1, ValueWith
    <2>3. AllSound(v.approved) /\ v.weights \in Weights
      <3>1. db.registry \in Registries /\ AllSound(review.approved)
        BY Facts DEF Rows
      <3>. QED BY <3>1, LoadWeightsType
    <2> HIDE DEF c, v
    <2>4. LocalsOK("load_profiles", c, db.registry)
      BY <1>1, <1>2, <2>1, <2>2, <2>3 DEF LocalsOK, Whole
    <2>5. pc[p] # "write" /\ "load_profiles" \in Steps /\ "load_profiles" # "write"
      BY <1>1 DEF Steps
    <2>. QED BY <1>1, <1>4, <2>4, <2>5, ProceedKeeps
  <1>. QED BY <1>1, <1>3, <1>4

(* and what is approved keeps the types of what was loaded. *)
LEMMA LoadProfilesKeeps ==
  ASSUME GovInv, NEW p \in Procs, LoadProfiles(p)
  PROVE  GovInv'
  <1> DEFINE v == cmd[p].value
             loaded == load_route_capability_profiles(db.registry)
             new == [approved |-> v.approved, events |-> v.events,
                     loaded |-> [weights |-> v.weights, profiles |-> loaded],
                     weights |-> approved_weights(v.weights, v.approved),
                     profiles |-> approved_profiles(loaded, v.approved)]
  <1>1. /\ pc[p] = "load_profiles" /\ ~cmd[p].boot
        /\ UNCHANGED <<db, tx, log, bundle, review>>
        /\ \/ stop(p)
           \/ proceed(p, "begin", planned(cmd[p], <<"weights", "profiles">>, new))
    BY DEF LoadProfiles, Ready
  <1>2. /\ cmd[p].op = "review" /\ AllSound(v.approved) /\ v.weights \in Weights
        /\ db.registry # Empty
    BY <1>1, Facts DEF LocalsOK, PastRegistry
  <1>3. CASE stop(p)
    BY <1>1, <1>3, Facts, StopKeeps
  <1>4. CASE proceed(p, "begin", planned(cmd[p], <<"weights", "profiles">>, new))
    <2>1. loaded \in Profiles
      <3>1. db.registry \in Registries
        BY Facts DEF Rows
      <3>. QED BY <3>1, LoadProfilesType
    <2> HIDE DEF loaded
    <2>2. new.weights \in Weights /\ new.profiles \in Profiles
      <3> HIDE DEF v
      <3>. QED BY <1>2, <2>1, ApprovedTypes
    <2> HIDE DEF new
    <2>3. ValueOK([op |-> "review", value |-> new])
      BY <2>2 DEF ValueOK
    <2> DEFINE c == planned(cmd[p], <<"weights", "profiles">>, new)
    <2>4. c = planned(cmd[p], FullTodo(cmd[p].op), new) /\ cmd[p].op \in Changes
      BY <1>2 DEF FullTodo, Changes
    <2>5. proceed(p, "begin", c)
      BY <1>4
    <2>6. ValueOK([op |-> cmd[p].op, value |-> new])
      BY <1>2, <2>3
    <2> HIDE DEF c
    <2>. QED BY <1>1, <1>2, <2>4, <2>5, <2>6, PrepareKeeps
  <1>. QED BY <1>1, <1>3, <1>4

LEMMA BeginKeeps ==
  ASSUME GovInv, NEW p \in Procs, Begin(p)
  PROVE  GovInv'
  <1>1. /\ pc[p] = "begin" /\ ~cmd[p].boot /\ tx.owner = None /\ tx' = [owner |-> p, rows |-> db]
        /\ pc' = [pc EXCEPT ![p] = "write"] /\ UNCHANGED <<db, log, mem, bundle, review, cmd>>
    BY DEF Begin, Ready, goto
  <1>2. LocalsOK("begin", cmd[p], db.registry)
    BY <1>1, Facts
  <1>3. LocalsOK("write", cmd[p], db.registry)
    BY <1>1, <1>2 DEF LocalsOK, PastRegistry
  <1>4. WriteOK(cmd[p], db, db)
    BY <1>2 DEF LocalsOK, WriteOK
  <1>5. cmd' = [cmd EXCEPT ![p] = cmd[p]] /\ mem' = [mem EXCEPT ![p] = mem[p]]
    BY <1>1, Facts
  <1>6. /\ mem[p] \in Memory /\ db' \in Rows /\ log' \in Seq(Entry)
        /\ AllSound(bundle'.proposals) /\ AllSound(review'.approved)
    BY <1>1, Facts
  <1>7. "write" \in Steps
    BY DEF Steps
  <1>. QED BY <1>1, <1>3, <1>4, <1>5, <1>6, <1>7, StepKeeps

LEMMA LockedKeeps ==
  ASSUME GovInv, NEW p \in Procs, Locked(p)
  PROVE  GovInv'
  <1>1. pc[p] = "begin" /\ stop(p) /\ UNCHANGED <<db, tx, log, bundle, review>>
    BY DEF Locked
  <1>. QED BY <1>1, Facts, StopKeeps

(* The result of a change has the types of rows. *)
LEMMA ResultTypes ==
  ASSUME NEW c, c.op \in Changes, ValueOK(c), NEW rows \in Rows
  PROVE  /\ Result(c, rows) \in Rows
         /\ c.op = "registry" => LET new == Result(c, rows)
                                IN /\ new.registry = c.value.registry /\ new.policy = rows.policy
                                   /\ new.audit = rows.audit /\ new.rounds = rows.rounds
         /\ c.op = "policy" => LET new == Result(c, rows)
                              IN /\ new.registry = rows.registry /\ new.policy = c.value.policy
                                 /\ new.audit = rows.audit /\ new.rounds = rows.rounds
         /\ c.op = "audit" => LET new == Result(c, rows)
                             IN /\ new.registry = rows.registry /\ new.policy = rows.policy
                                /\ new.audit = c.value.audit /\ new.rounds = rows.rounds
         /\ c.op = "rounds" => LET new == Result(c, rows)
                              IN /\ new.registry = rows.registry /\ new.policy = rows.policy
                                 /\ new.audit = rows.audit /\ new.rounds = c.value.rounds
         /\ c.op = "weights" =>
              LET new == Result(c, rows)
              IN /\ new.registry = save_route_weights(rows.registry, c.value.weights)
                 /\ new.policy = rows.policy
                 /\ new.audit = rows.audit /\ new.rounds = rows.rounds
         /\ c.op = "profiles" =>
              LET new == Result(c, rows)
              IN /\ new.registry = save_route_capability_profiles(rows.registry, c.value.profiles)
                 /\ new.policy = rows.policy
                 /\ new.audit = rows.audit /\ new.rounds = rows.rounds
         /\ c.op = "review" => LET new == Result(c, rows)
                              IN /\ new.registry = Built(rows.registry, c.value.weights, c.value.profiles)
                                 /\ new.policy = rows.policy
                                 /\ new.audit = rows.audit /\ new.rounds = rows.rounds
  <1>1. CASE c.op = "registry"
    <2>1. Result(c, rows) = save_route_registry(rows, c.value.registry) /\ c.value.registry \in Registries
      BY <1>1 DEF Result, ValueOK
    <2>. QED BY <1>1, <2>1, RowsWithRegistry
  <1>2. CASE c.op = "policy"
    <2>1. Result(c, rows) = save_route_policy(rows, c.value.policy) /\ c.value.policy \in RoutePolicy \cup {None}
      BY <1>2 DEF Result, ValueOK
    <2>. QED BY <1>2, <2>1, RowsWithPolicy
  <1>3. CASE c.op = "audit"
    <2>1. /\ Result(c, rows) = save_audit_trigger_policy(rows, c.value.audit)
          /\ c.value.audit \in AuditTriggerPolicy
      BY <1>3 DEF Result, ValueOK
    <2>. QED BY <1>3, <2>1, RowsWithAudit
  <1>4. CASE c.op = "rounds"
    <2>1. Result(c, rows) = save_mps_policy(rows, c.value.rounds) /\ c.value.rounds \in 0 .. 3
      BY <1>4 DEF Result, ValueOK
    <2>. QED BY <1>4, <2>1, RowsWithRounds
  <1>5. CASE c.op = "review"
    <2> DEFINE reg == Built(rows.registry, c.value.weights, c.value.profiles)
    <2>1. Result(c, rows) = save_route_registry(rows, reg)
      BY <1>5 DEF Result
    <2>2. reg \in Registries
      <3>1. rows.registry \in Registries /\ c.value.weights \in Weights /\ c.value.profiles \in Profiles
        BY <1>5 DEF ValueOK, Rows
      <3>. QED BY <3>1, BuiltHas
    <2> HIDE DEF reg
    <2>3. LET new == Result(c, rows)
          IN /\ new \in Rows /\ new.registry = reg /\ new.policy = rows.policy
             /\ new.audit = rows.audit /\ new.rounds = rows.rounds
      BY <2>1, <2>2, RowsWithRegistry
    <2>. QED BY <1>5, <2>3 DEF reg
  <1>6. rows.registry \in Registries /\ blank_profiles \in Profiles
        /\ load_route_weights(rows.registry) \in Weights
    <2>1. rows.registry \in Registries
      BY DEF Rows
    <2>. QED BY <2>1, BlankProfiles, LoadWeightsType
  <1>7. CASE c.op = "weights"
    <2> DEFINE reg == save_route_weights(rows.registry, c.value.weights)
    <2>1. Result(c, rows) = save_route_registry(rows, reg)
      BY <1>7 DEF Result
    <2>2. reg \in Registries
      <3>1. c.value.weights \in Weights
        BY <1>7 DEF ValueOK
      <3>. QED BY <1>6, <3>1, SaveTypes
    <2> HIDE DEF reg
    <2>3. LET new == Result(c, rows)
          IN /\ new \in Rows /\ new.registry = reg /\ new.policy = rows.policy
             /\ new.audit = rows.audit /\ new.rounds = rows.rounds
      BY <2>1, <2>2, RowsWithRegistry
    <2>. QED BY <1>7, <2>3 DEF reg
  <1>8. CASE c.op = "profiles"
    <2> DEFINE reg == save_route_capability_profiles(rows.registry, c.value.profiles)
    <2>1. Result(c, rows) = save_route_registry(rows, reg)
      BY <1>8 DEF Result
    <2>2. reg \in Registries
      <3>1. c.value.profiles \in Profiles
        BY <1>8 DEF ValueOK
      <3>. QED BY <1>6, <3>1, SaveTypes
    <2> HIDE DEF reg
    <2>3. LET new == Result(c, rows)
          IN /\ new \in Rows /\ new.registry = reg /\ new.policy = rows.policy
             /\ new.audit = rows.audit /\ new.rounds = rows.rounds
      BY <2>1, <2>2, RowsWithRegistry
    <2>. QED BY <1>8, <2>3 DEF reg
  <1>. QED BY <1>1, <1>2, <1>3, <1>4, <1>5, <1>7, <1>8 DEF Changes

(* What one save writes into the transaction. *)
Saved(c, rows, kind, new, todo) ==
  \/ c.op \in Changes \ {"review"} /\ kind = c.op /\ new = Result(c, rows) /\ todo = <<>>
  \/ /\ c.op = "review" /\ kind = "weights" /\ todo = <<"profiles">>
     /\ new = save_route_registry(rows, save_route_weights(rows.registry, c.value.weights))
  \/ c.op = "review" /\ kind = "profiles" /\ new = Result(c, rows) /\ todo = <<>>

LEMMA SaveWrites ==
  ASSUME GovInv, NEW p \in Procs, Save(p)
  PROVE  LET kind == Head(cmd[p].todo)
             new == save(tx.rows, kind, cmd[p].value[kind])
             todo == Tail(cmd[p].todo)
         IN /\ pc[p] = "write" /\ tx.owner = p /\ kind \in Kinds /\ new \in Rows
            /\ Saved(cmd[p], db, kind, new, todo) /\ WriteOK([cmd[p] EXCEPT !.todo = todo], new, db)
            /\ kind = "policy" => new.policy # None
            /\ tx' = [owner |-> p, rows |-> new]
            /\ mem' = [mem EXCEPT ![p] = apply_route(mem[p], new, kind)]
            /\ cmd' = [cmd EXCEPT ![p] = [cmd[p] EXCEPT !.todo = todo]]
            /\ UNCHANGED <<db, log, bundle, review, pc>>
  <1> DEFINE kind == Head(cmd[p].todo)
             new == save(tx.rows, kind, cmd[p].value[kind])
             todo == Tail(cmd[p].todo)
             c == [cmd[p] EXCEPT !.todo = todo]
  <1>1. /\ pc[p] = "write" /\ cmd[p].todo # <<>> /\ tx' = [tx EXCEPT !.rows = new]
        /\ mem' = [mem EXCEPT ![p] = apply_route(mem[p], new, kind)] /\ cmd' = [cmd EXCEPT ![p] = c]
        /\ UNCHANGED <<db, log, bundle, review, pc>>
    BY DEF Save, set
  <1>2. /\ tx.owner = p /\ tx = [owner |-> tx.owner, rows |-> tx.rows]
        /\ WriteOK(cmd[p], tx.rows, db) /\ db \in Rows
    <2>1. tx.owner = p /\ WriteOK(cmd[p], tx.rows, db) /\ None \notin Procs /\ db \in Rows
      BY <1>1, Facts
    <2>2. tx # NoTx
      BY <2>1 DEF NoTx
    <2>. QED BY <2>1, <2>2 DEF GovInv, TxInv
  <1>3. Whole(cmd[p]) /\ cmd[p].op \in Changes /\ ValueOK(cmd[p])
    BY <1>1, Facts DEF LocalsOK, Whole
  <1>4. Whole(c) /\ c.op = cmd[p].op /\ c.todo = todo /\ c.value = cmd[p].value
    <2>1. c = [cmd[p] EXCEPT !.todo = todo]
      OBVIOUS
    <2> HIDE DEF c, todo
    <2>. QED BY <1>3, <2>1, TodoWith
  <1>5. tx' = [owner |-> p, rows |-> new]
    BY <1>1, <1>2
  <1>6. kind \in Kinds /\ Saved(cmd[p], db, kind, new, todo)
    <2>1. CASE cmd[p].op # "review"
      <3>1. cmd[p].todo = <<cmd[p].op>> /\ tx.rows = db
        BY <1>1, <1>2, <2>1 DEF WriteOK, FullTodo
      <3>2. kind = cmd[p].op /\ todo = <<>>
        BY <3>1
      <3>3. new = Result(cmd[p], db)
        <4>1. CASE cmd[p].op \in {"weights", "profiles"}
          BY <3>1, <3>2, <4>1 DEF save, Result, save_route_registry
        <4>2. CASE cmd[p].op \notin {"weights", "profiles"}
          BY <1>3, <2>1, <3>1, <3>2, <4>2 DEF save, Result, Changes
        <4>. QED BY <4>1, <4>2
      <3> HIDE DEF kind, todo, new
      <3>. QED BY <1>3, <2>1, <3>2, <3>3 DEF Saved, Kinds, Changes
    <2>2. CASE cmd[p].op = "review" /\ cmd[p].todo = <<"weights", "profiles">>
      <3>1. tx.rows = db
        BY <1>2, <2>2 DEF WriteOK, FullTodo
      <3>2. kind = "weights" /\ todo = <<"profiles">>
        BY <2>2
      <3>3. new = save_route_registry(db, save_route_weights(db.registry, cmd[p].value.weights))
        BY <3>1, <3>2 DEF save, save_route_registry
      <3> HIDE DEF kind, todo, new
      <3>. QED BY <2>2, <3>2, <3>3 DEF Saved, Kinds
    <2>3. CASE cmd[p].op = "review" /\ cmd[p].todo = <<"profiles">>
      <3>1. tx.rows = save_route_registry(db, save_route_weights(db.registry, cmd[p].value.weights))
        BY <1>2, <2>3 DEF WriteOK, FullTodo
      <3>2. kind = "profiles" /\ todo = <<>>
        BY <2>3
      <3>3. new = [tx.rows EXCEPT !.registry = save_route_capability_profiles(@, cmd[p].value.profiles)]
        BY <3>2 DEF save
      <3>4. new = Result(cmd[p], db)
        BY <1>2, <2>3, <3>1, <3>3 DEF Result, Built, Rows, save_route_registry
      <3> HIDE DEF kind, todo, new
      <3>. QED BY <2>3, <3>2, <3>4 DEF Saved, Kinds
    <2>. QED BY <1>1, <1>2, <2>1, <2>2, <2>3 DEF WriteOK, FullTodo
  <1> HIDE DEF kind, todo, new
  <1>7. new \in Rows
    <2>1. CASE new = Result(cmd[p], db)
      BY <1>2, <1>3, <2>1, ResultTypes
    <2>2. CASE /\ cmd[p].op = "review"
               /\ new = save_route_registry(db, save_route_weights(db.registry, cmd[p].value.weights))
      <3>1. save_route_weights(db.registry, cmd[p].value.weights) \in Registries
        <4>1. db.registry \in Registries /\ cmd[p].value.weights \in Weights /\ cmd[p].value.profiles \in Profiles
          BY <1>2, <1>3, <2>2 DEF Rows, ValueOK
        <4>. QED BY <4>1, SaveTypes
      <3>. QED BY <1>2, <2>2, <3>1, RowsWithRegistry
    <2>. QED BY <1>6, <2>1, <2>2 DEF Saved
  <1>8. kind = "policy" => new.policy # None
    <2> SUFFICES ASSUME kind = "policy" PROVE new.policy # None
      OBVIOUS
    <2>1. cmd[p].op = "policy" /\ new = Result(cmd[p], db)
      BY <1>6 DEF Saved
    <2>2. new.policy = cmd[p].value.policy /\ cmd[p].value.policy \in RoutePolicy
      BY <1>2, <1>3, <2>1, ResultTypes DEF ValueOK
    <2>. QED BY <2>2, GovernanceAssumption
  <1>9. WriteOK(c, new, db)
    <2>1. Result(c, db) = Result(cmd[p], db)
      BY <1>4 DEF Result
    <2> HIDE DEF c
    <2>2. CASE new = Result(cmd[p], db) /\ todo = <<>>
      BY <1>4, <2>1, <2>2 DEF WriteOK
    <2>3. CASE /\ cmd[p].op = "review" /\ todo = <<"profiles">>
               /\ new = save_route_registry(db, save_route_weights(db.registry, cmd[p].value.weights))
      BY <1>4, <2>3 DEF WriteOK
    <2>. QED BY <1>6, <2>2, <2>3 DEF Saved
  <1>. QED BY <1>1, <1>2, <1>5, <1>6, <1>7, <1>8, <1>9 DEF kind, todo, new

LEMMA SaveKeeps ==
  ASSUME GovInv, NEW p \in Procs, Save(p)
  PROVE  GovInv'
  <1> DEFINE kind == Head(cmd[p].todo)
             new == save(tx.rows, kind, cmd[p].value[kind])
             todo == Tail(cmd[p].todo)
             c == [cmd[p] EXCEPT !.todo = todo]
             m == apply_route(mem[p], new, kind)
  <1>1. /\ pc[p] = "write" /\ tx.owner = p /\ kind \in Kinds /\ new \in Rows
        /\ WriteOK(c, new, db)
        /\ kind = "policy" => new.policy # None
        /\ tx' = [owner |-> p, rows |-> new]
        /\ mem' = [mem EXCEPT ![p] = m] /\ cmd' = [cmd EXCEPT ![p] = c]
        /\ UNCHANGED <<db, log, bundle, review, pc>>
    BY SaveWrites
  <1>2. Whole(c) /\ c.op = cmd[p].op /\ c.boot = cmd[p].boot /\ c.value = cmd[p].value
    <2>1. c = [cmd[p] EXCEPT !.todo = todo]
      OBVIOUS
    <2>2. Whole(cmd[p])
      BY Facts DEF LocalsOK, Whole
    <2> HIDE DEF c, todo
    <2>. QED BY <2>1, <2>2, TodoWith
  <1> HIDE DEF kind, new, todo, c, m
  <1>3. m \in Memory
    BY <1>1, Facts, ApplyTypes DEF m
  <1>4. LocalsOK("write", cmd[p], db.registry)
    BY <1>1, Facts
  <1>5. LocalsOK("write", c, db.registry)
    <2>1. ValueOK(cmd[p]) => ValueOK(c)
      BY <1>2 DEF ValueOK
    <2>. QED BY <1>2, <1>4, <2>1 DEF LocalsOK, Whole
  <1>6. pc' = [pc EXCEPT ![p] = "write"]
    BY <1>1, Facts
  <1>7. /\ db' \in Rows /\ log' \in Seq(Entry) /\ "write" \in Steps
        /\ AllSound(bundle'.proposals) /\ AllSound(review'.approved)
    BY <1>1, Facts DEF Steps
  <1>. QED BY <1>1, <1>3, <1>5, <1>6, <1>7, StepKeeps

(* What a commit writes and logs. *)
LEMMA CommitWrites ==
  ASSUME GovInv, NEW p \in Procs, Commit(p)
  PROVE  /\ pc[p] = "write" /\ cmd[p].op \in Changes /\ ValueOK(cmd[p]) /\ db.registry # Empty
         /\ cmd[p].todo = <<>>
         /\ tx.rows = Result(cmd[p], db) /\ db' = tx.rows
         /\ db' \in Rows /\ db'.registry # Empty
         /\ change_log_entry(cmd[p].op, db') \in Entry
         /\ log' = Append(log, change_log_entry(cmd[p].op, db'))
         /\ tx' = NoTx /\ stop(p) /\ UNCHANGED <<bundle, review>>
  <1>1. /\ pc[p] = "write" /\ cmd[p].todo = <<>> /\ db' = tx.rows
        /\ log' = Append(log, change_log_entry(cmd[p].op, tx.rows))
        /\ tx' = NoTx /\ stop(p) /\ UNCHANGED <<bundle, review>>
    BY DEF Commit
  <1>2. /\ cmd[p].op \in Changes /\ ValueOK(cmd[p]) /\ db.registry # Empty /\ db \in Rows
        /\ WriteOK(cmd[p], tx.rows, db)
    BY <1>1, Facts DEF LocalsOK, PastRegistry
  <1>3. db' = Result(cmd[p], db)
    BY <1>1, <1>2 DEF WriteOK, FullTodo
  <1>4. db' \in Rows
    BY <1>2, <1>3, ResultTypes
  <1>5. db'.registry # Empty
    <2>1. db.registry \in Registries /\ db'.registry \in Registries
      BY <1>2, <1>4 DEF Rows
    <2>2. DOMAIN db'.registry # {}
      <3>1. CASE cmd[p].op = "registry"
        BY <1>2, <1>3, <3>1, ResultTypes DEF ValueOK
      <3>2. CASE cmd[p].op \in {"policy", "audit", "rounds"}
        BY <1>2, <1>3, <2>1, <3>2, ResultTypes, EmptyIs
      <3>3. CASE cmd[p].op = "review"
        <4>1. db'.registry = Built(db.registry, cmd[p].value.weights, cmd[p].value.profiles)
          BY <1>2, <1>3, <3>3, ResultTypes
        <4>2. DOMAIN db'.registry = DOMAIN db.registry
          BY <1>2, <2>1, <3>3, <4>1, BuiltHas DEF ValueOK
        <4>. QED BY <1>2, <2>1, <4>2, EmptyIs
      <3>4. CASE cmd[p].op = "weights"
        <4>1. /\ db'.registry = save_route_weights(db.registry, cmd[p].value.weights)
              /\ cmd[p].value.weights \in Weights
          BY <1>2, <1>3, <3>4, ResultTypes DEF ValueOK
        <4>. QED BY <1>2, <2>1, <4>1, EmptyIs DEF save_route_weights
      <3>5. CASE cmd[p].op = "profiles"
        <4>1. /\ db'.registry = save_route_capability_profiles(db.registry, cmd[p].value.profiles)
              /\ cmd[p].value.profiles \in Profiles
          BY <1>2, <1>3, <3>5, ResultTypes DEF ValueOK
        <4>. QED BY <1>2, <2>1, <4>1, EmptyIs DEF save_route_capability_profiles
      <3>. QED BY <1>2, <3>1, <3>2, <3>3, <3>4, <3>5 DEF Changes
    <2>. QED BY <2>1, <2>2, EmptyIs
  <1>6. change_log_entry(cmd[p].op, db') \in Entry
    <2> DEFINE e == change_log_entry(cmd[p].op, db')
    <2>1. /\ db'.registry \in Registries
          /\ load_route_weights(db'.registry) \in Weights
          /\ load_route_capability_profiles(db'.registry) \in Profiles
      <3>1. db'.registry \in Registries
        BY <1>4 DEF Rows
      <3>. QED BY <3>1, LoadWeightsType, LoadProfilesType
    <2>2. CASE cmd[p].op = "registry"
      <3>1. e \in [registry : Registries]
        BY <2>1, <2>2 DEF change_log_entry, Targets, payload
      <3>. QED BY <3>1 DEF Entry
    <2>3. CASE cmd[p].op = "policy"
      <3>1. db'.policy \in RoutePolicy
        BY <1>2, <1>3, <2>3, ResultTypes DEF ValueOK
      <3>2. e \in [policy : RoutePolicy]
        BY <2>3, <3>1 DEF change_log_entry, Targets, payload
      <3>. QED BY <3>2 DEF Entry
    <2>4. CASE cmd[p].op = "audit"
      <3>1. db'.audit \in AuditTriggerPolicy
        BY <1>4 DEF Rows
      <3>2. e \in [audit : AuditTriggerPolicy]
        BY <2>4, <3>1 DEF change_log_entry, Targets, payload
      <3>. QED BY <3>2 DEF Entry
    <2>5. CASE cmd[p].op = "rounds"
      <3>1. db'.rounds \in 1 .. 3
        BY <1>2, <1>3, <2>5, ResultTypes DEF ValueOK
      <3>2. e \in [rounds : 1 .. 3]
        BY <2>5, <3>1 DEF change_log_entry, Targets, payload
      <3>. QED BY <3>2 DEF Entry
    <2>6. CASE cmd[p].op = "review"
      <3>1. e \in [weights : Weights, profiles : Profiles]
        BY <2>1, <2>6 DEF change_log_entry, Targets, payload
      <3>. QED BY <3>1 DEF Entry
    <2>7. CASE cmd[p].op = "weights"
      <3>1. e \in [weights : Weights]
        BY <2>1, <2>7 DEF change_log_entry, Targets, payload
      <3>. QED BY <3>1 DEF Entry
    <2>8. CASE cmd[p].op = "profiles"
      <3>1. e \in [profiles : Profiles]
        BY <2>1, <2>8 DEF change_log_entry, Targets, payload
      <3>. QED BY <3>1 DEF Entry
    <2>. QED BY <1>2, <2>2, <2>3, <2>4, <2>5, <2>6, <2>7, <2>8 DEF Changes
  <1>. QED BY <1>1, <1>2, <1>3, <1>4, <1>5, <1>6

LEMMA CommitKeeps ==
  ASSUME GovInv, NEW p \in Procs, Commit(p)
  PROVE  GovInv'
  <1>1. /\ pc[p] = "write" /\ db' \in Rows /\ db'.registry # Empty
        /\ change_log_entry(cmd[p].op, db') \in Entry
        /\ log' = Append(log, change_log_entry(cmd[p].op, db'))
        /\ tx' = NoTx /\ stop(p) /\ UNCHANGED <<bundle, review>>
    BY CommitWrites
  <1>2. kept(p, mem[p]) \in Memory
    BY Facts DEF kept
  <1>3. /\ pc' = [pc EXCEPT ![p] = "idle"] /\ cmd' = [cmd EXCEPT ![p] = Idle]
        /\ mem' = [mem EXCEPT ![p] = kept(p, mem[p])]
    BY <1>1 DEF stop, goto, set
  <1>4. LocalsOK("idle", Idle, db'.registry) /\ "idle" \in Steps /\ "idle" # "write"
    BY IdleOK DEF Steps
  <1>5. log' \in Seq(Entry) /\ AllSound(bundle'.proposals) /\ AllSound(review'.approved)
    <2>1. log \in Seq(Entry) /\ AllSound(bundle.proposals) /\ AllSound(review.approved)
      BY Facts
    <2> DEFINE e == change_log_entry(cmd[p].op, db')
    <2>2. e \in Entry /\ log' = Append(log, e)
      BY <1>1
    <2> HIDE DEF e
    <2>. QED BY <1>1, <2>1, <2>2
  <1>. QED BY <1>1, <1>2, <1>3, <1>4, <1>5, StepKeeps

LEMMA RollbackKeeps ==
  ASSUME GovInv, NEW p \in Procs, Rollback(p)
  PROVE  GovInv'
  <1> DEFINE to == IF cmd[p].op \in {"audit", "rounds"} THEN "idle" ELSE "registry"
  <1>1. /\ pc[p] = "write" /\ tx' = NoTx /\ cmd' = [cmd EXCEPT ![p] = Idle]
        /\ pc' = [pc EXCEPT ![p] = to] /\ UNCHANGED <<db, log, mem, bundle, review>>
    BY DEF Rollback, set, goto
  <1>2. to \in {"idle", "registry"}
    OBVIOUS
  <1> HIDE DEF to
  <1>3. LocalsOK(to, Idle, db'.registry) /\ to \in Steps /\ to # "write"
    BY <1>2 DEF LocalsOK, Idle, PastRegistry, Reading, Steps
  <1>4. mem' = [mem EXCEPT ![p] = mem[p]] /\ mem[p] \in Memory
    BY <1>1, Facts
  <1>5. /\ db' \in Rows /\ log' \in Seq(Entry)
        /\ AllSound(bundle'.proposals) /\ AllSound(review'.approved)
    BY <1>1, Facts
  <1>. QED BY <1>1, <1>3, <1>4, <1>5, StepKeeps

LEMMA CrashKeeps ==
  ASSUME GovInv, NEW p \in Procs, Crash(p)
  PROVE  GovInv'
  <1>1. /\ pc' = [pc EXCEPT ![p] = "idle"] /\ cmd' = [cmd EXCEPT ![p] = Idle]
        /\ mem' = [mem EXCEPT ![p] = Shipped]
        /\ tx' = IF tx.owner = p THEN NoTx ELSE tx
        /\ UNCHANGED <<db, log, bundle, review>>
    BY DEF Crash, set, goto
  <1>2. LocalsOK("idle", Idle, db'.registry) /\ "idle" \in Steps /\ "idle" # "write"
    BY IdleOK DEF Steps
  <1>3. /\ db' \in Rows /\ log' \in Seq(Entry) /\ Shipped \in Memory
        /\ AllSound(bundle'.proposals) /\ AllSound(review'.approved)
        /\ pc[p] = "write" <=> tx.owner = p
    BY <1>1, Facts
  <1>. QED BY <1>1, <1>2, <1>3, StepKeeps

LEMMA InitialRows ==
  ASSUME Init
  PROVE  db = [registry |-> Empty, policy |-> None, audit |-> Stored.audit,
               rounds |-> Stored.rounds]
  <1> DEFINE rows == [registry |-> Empty, policy |-> None, audit |-> Stored.audit,
                      rounds |-> Stored.rounds]
  <1>1. DOMAIN Stored = {"registry", "policy", "audit", "rounds"}
    BY StoredTypes
  <1>2. db = [Stored EXCEPT !.registry = Empty, !.policy = None]
    BY DEF Init
  <1>3. /\ DOMAIN db = {"registry", "policy", "audit", "rounds"}
        /\ db.registry = Empty /\ db.policy = None
        /\ db.audit = Stored.audit /\ db.rounds = Stored.rounds
    BY <1>1, <1>2
  <1>4. db = [x \in {"registry", "policy", "audit", "rounds"} |-> db[x]]
    BY <1>1, <1>2
  <1>. QED BY <1>3, <1>4

LEMMA GovInit == Init => GovInv
  <1> SUFFICES ASSUME Init PROVE GovInv
    OBVIOUS
  <1>1. Empty \in Registries
    <2>1. Empty \in [{} -> RouteSpec] /\ {} \in SUBSET Routes
      BY DEF Empty
    <2>. QED BY <2>1 DEF Registries
  <1>2. db \in Rows
    <2>1. db = [registry |-> Empty, policy |-> None, audit |-> Stored.audit,
                rounds |-> Stored.rounds]
      BY InitialRows
    <2>. QED BY <1>1, <2>1, StoredTypes DEF Rows
  <1>3. Shipped \in Memory
    <2>1. Shipped.registry \in Registries /\ Shipped.policy \in RoutePolicy
      BY GovernanceAssumption, RegistryIs
    <2>2. Shipped = [registry |-> Shipped.registry, policy |-> Shipped.policy]
      BY GovernanceAssumption
    <2>. QED BY <2>1, <2>2 DEF Memory
  <1>4. pc = [p \in Procs |-> "idle"] /\ cmd = [p \in Procs |-> Idle] /\ tx = NoTx
    BY DEF Init
  <1>5. StateTyped
    <2>1. log \in Seq(Entry) /\ mem \in [Procs -> Memory]
      BY <1>3 DEF Init
    <2>2. AllSound(bundle.proposals) /\ AllSound(review.approved)
      BY DEF Init, AllSound
    <2>3. pc \in [Procs -> Steps]
      BY <1>4 DEF Steps
    <2>4. cmd = [q \in Procs |-> cmd[q]]
      BY <1>4
    <2>. QED BY <1>2, <2>1, <2>2, <2>3, <2>4 DEF StateTyped
  <1>6. LocalsInv
    BY <1>4, IdleOK DEF LocalsInv
  <1>7. TxInv
    <2>1. \A p \in Procs : pc[p] # "write" /\ tx.owner # p
      BY <1>4, GovernanceAssumption DEF NoTx
    <2>. QED BY <1>4, <2>1 DEF TxInv
  <1>. QED BY <1>5, <1>6, <1>7 DEF GovInv

LEMMA GovStep == GovInv /\ [Next]_vars => GovInv'
  <1> SUFFICES ASSUME GovInv, [Next]_vars PROVE GovInv'
    OBVIOUS
  <1>1. CASE UNCHANGED vars
    BY <1>1 DEF vars, GovInv, StateTyped, LocalsInv, TxInv
  <1>2. ASSUME NEW p \in Procs, NEW op \in Offered[p], Start(p, op) PROVE GovInv'
    BY <1>2, StartKeeps
  <1>3. ASSUME NEW p \in Procs, Command(p) PROVE GovInv'
    BY <1>3, SelectKeeps, OptimizeKeeps, DecideKeeps, RegistryCommandKeeps, PolicyCommandKeeps,
       WeightsCommandKeeps, ProfilesCommandKeeps, AuditCommandKeeps, RoundsCommandKeeps, LoadWeightsKeeps, LoadProfilesKeeps DEF Command
  <1>4. ASSUME NEW p \in Procs, Step(p) PROVE GovInv'
    BY <1>3, <1>4, NoticeEmptyKeeps, BootstrapKeeps, RefreshKeeps, BeginKeeps, LockedKeeps, SaveKeeps,
       CommitKeeps, RollbackKeeps DEF Step
  <1>5. ASSUME NEW p \in Procs, Crash(p) PROVE GovInv'
    BY <1>5, CrashKeeps
  <1>. QED BY <1>1, <1>2, <1>4, <1>5 DEF Next

(* What processes hold and what transactions have written so far has the   *)
(* form it should, whatever overlaps, fails or crashes: StateTyped,        *)
(* LocalsInv and TxInv.                                                    *)
THEOREM GovernanceCorrect == Spec => []GovInv
  BY GovInit, GovStep, PTL DEF Spec

(* The rows of a transaction are those it began with and what it saved.    *)
LEMMA ViewIsRows ==
  ASSUME NEW c, NEW view, NEW rows \in Rows, c.op \in Changes, ValueOK(c), WriteOK(c, view, rows)
  PROVE  view \in Rows
  <1>1. Result(c, rows) \in Rows
    BY ResultTypes
  <1>2. ASSUME c.op = "review"
        PROVE  save_route_registry(rows, save_route_weights(rows.registry, c.value.weights)) \in Rows
    <2>1. save_route_weights(rows.registry, c.value.weights) \in Registries
      BY <1>2, SaveTypes DEF Rows, ValueOK
    <2>. QED BY <2>1, RowsWithRegistry
  <1>. QED BY <1>1, <1>2 DEF WriteOK

(* TypeOK, for any processes, files and telemetry.                         *)
THEOREM TypeCorrect == Spec => []TypeOK
  <1>1. GovInv => TypeOK
    <2> SUFFICES ASSUME GovInv PROVE TypeOK
      OBVIOUS
    <2>1. ASSUME NEW rows \in Rows PROVE IsRows(rows)
      <3>1. rows.registry \in Registries
        BY DEF Rows
      <3>2. IsRegistry(rows.registry)
        BY <3>1, RegistryIs
      <3>. QED BY <3>2 DEF Rows, IsRows
    <2>2. IsRows(db)
      BY <2>1 DEF GovInv, StateTyped
    <2>3. tx # NoTx => tx.owner \in Procs /\ IsRows(tx.rows)
      <3> SUFFICES ASSUME tx # NoTx PROVE tx.owner \in Procs /\ IsRows(tx.rows)
        OBVIOUS
      <3>1. tx.owner \in Procs
        BY DEF GovInv, TxInv
      <3> DEFINE p == tx.owner
      <3>2. pc[p] = "write" /\ WriteOK(cmd[p], tx.rows, db) /\ db \in Rows
        BY <3>1, Facts
      <3>3. cmd[p].op \in Changes /\ ValueOK(cmd[p])
        BY <3>1, <3>2, Facts DEF LocalsOK
      <3> HIDE DEF p
      <3>4. tx.rows \in Rows
        BY <3>2, <3>3, ViewIsRows
      <3>. QED BY <2>1, <3>1, <3>4
    <2>4. \A i \in DOMAIN log : DOMAIN log[i] \subseteq Kinds
      <3>1. log \in Seq(Entry)
        BY DEF GovInv, StateTyped
      <3>2. \A e \in Entry : DOMAIN e \subseteq Kinds
        BY DEF Entry, Kinds
      <3>. QED BY <3>1, <3>2
    <2>5. ASSUME NEW p \in Procs
          PROVE  /\ IsRegistry(mem[p].registry) /\ mem[p].policy \in RoutePolicy
                 /\ cmd[p].boot \in BOOLEAN
      <3>1. mem[p].registry \in Registries /\ mem[p].policy \in RoutePolicy
        BY Facts DEF Memory
      <3>2. cmd[p].boot \in BOOLEAN
        BY Facts DEF LocalsOK
      <3>. QED BY <3>1, <3>2, RegistryIs
    <2>6. pc \in [Procs -> Steps]
      BY DEF GovInv, StateTyped
    <2>. QED BY <2>2, <2>3, <2>4, <2>5, <2>6 DEF TypeOK
  <1>. QED BY <1>1, GovernanceCorrect, PTL

(* Route selection: SupportedRouteIsFound of every registry, policy and    *)
(* task.                                                                   *)
THEOREM SupportedRouteIsChosen == Spec => []SupportedRouteIsFound
  <1>1. GovInv => SupportedRouteIsFound
    <2> SUFFICES ASSUME GovInv, NEW p \in Selecting, NEW t \in Tasks, NEW o \in Overrides,
                        t.required # None, o # None \/ t.mode = "auto",
                        NEW r \in DOMAIN mem[p].registry,
                        t.family \notin mem[p].registry[r].unsupported
                 PROVE  t.family \notin mem[p].registry[select_route(mem[p].registry, mem[p].policy, t, o,
                                                           None, DEFAULT_EXECUTOR).base].unsupported
      BY DEF SupportedRouteIsFound
    <2>1. IsRegistry(mem[p].registry)
      BY RegistryIs DEF GovInv, StateTyped, Memory, Selecting
    <2>2. t.family \in Families
      BY GovernanceAssumption DEF TaskInputs
    <2>3. Supporting(mem[p].registry, t.family) # {}
      BY DEF Supporting
    <2>. QED BY <2>1, <2>2, <2>3, SelectionSupports
  <1>. QED BY <1>1, GovernanceCorrect, PTL

-----------------------------------------------------------------------------
(* The change logs replay to the committed rows *)

(* The rows are those of a replay, apart from what was not yet written.    *)
Follows(rows, told) ==
  /\ IF rows.registry = Empty THEN told.registry = Stored.registry ELSE rows.registry = told.registry
  /\ IF rows.policy = None THEN told.policy = Stored.policy ELSE rows.policy = told.policy
  /\ rows.audit = told.audit /\ rows.rounds = told.rounds

Replays == Follows(db, Replay(log, Len(log)))

LEMMA OthersLeaveRows ==
  ASSUME NEW p \in Procs,
         Command(p) \/ NoticeEmpty(p) \/ refresh(p) \/ Begin(p) \/ Locked(p) \/ Save(p)
         \/ Rollback(p) \/ Crash(p)
  PROVE  UNCHANGED <<db, log>>
  <1>1. Command(p) => UNCHANGED <<db, log>>
    BY DEF Command, select_route_command, run_meta_optimizer, review_optimization_proposals,
           apply_route_registry_command, apply_route_policy_command,
           route_weights_command, route_capabilities_command, set_audit_trigger_policy_command, set_mps_policy_command, LoadWeights, LoadProfiles
  <1>2. NoticeEmpty(p) \/ refresh(p) \/ Begin(p) \/ Locked(p) => UNCHANGED <<db, log>>
    BY DEF NoticeEmpty, refresh, Begin, Locked
  <1>3. Save(p) \/ Rollback(p) \/ Crash(p) => UNCHANGED <<db, log>>
    BY DEF Save, Rollback, Crash
  <1>. QED BY <1>1, <1>2, <1>3

(* What a transaction logs is what it committed. *)
LEMMA EntryTells ==
  ASSUME NEW op \in Changes, NEW rows
  PROVE  LET e == change_log_entry(op, rows)
         IN /\ DOMAIN e = IF op = "review" THEN {"weights", "profiles"} ELSE {op}
            /\ op = "review" => /\ e["weights"] = load_route_weights(rows.registry)
                                /\ e["profiles"] = load_route_capability_profiles(rows.registry)
            /\ op = "registry" => e["registry"] = rows.registry
            /\ op = "weights" => e["weights"] = load_route_weights(rows.registry)
            /\ op = "profiles" => e["profiles"] = load_route_capability_profiles(rows.registry)
            /\ op = "policy" => e["policy"] = rows.policy
            /\ op = "audit" => e["audit"] = rows.audit
            /\ op = "rounds" => e["rounds"] = rows.rounds
  BY DEF change_log_entry, Targets, payload, Changes

(* A review builds new weights and profiles into the routes that the log   *)
(* tells.                                                                  *)
LEMMA ReviewReplays ==
  ASSUME NEW routes \in Registries, NEW w \in Weights, NEW f \in Profiles,
         NEW v \in Weights, NEW g \in Profiles,
         NEW old, old = Built(routes, w, f), NEW new, new = Built(old, v, g)
  PROVE  Built(routes, load_route_weights(new), load_route_capability_profiles(new)) = new
  <1>1. new = Built(routes, v, g)
    BY BuiltAgain
  <1>. QED BY <1>1, BuiltLoaded

LEMMA CommitReplays ==
  ASSUME GovInv, Replays, NEW p \in Procs, Commit(p)
  PROVE  Replays'
  <1> DEFINE c == cmd[p]
             e == change_log_entry(c.op, db')
             n == Len(log)
             old == Replay(log, n)
             new == Replay(Append(log, e), n + 1)
             routes == Logged(log, "registry", n, Stored.registry)
  <1>1. /\ c.op \in Changes /\ ValueOK(c) /\ db.registry # Empty /\ db' = Result(c, db)
        /\ db'.registry # Empty /\ e \in Entry /\ log' = Append(log, e)
    BY CommitWrites
  <1>2. db \in Rows /\ log \in Seq(Entry) /\ Len(log) \in Nat
    BY Facts
  <1>3. /\ DOMAIN e = IF c.op = "review" THEN {"weights", "profiles"} ELSE {c.op}
        /\ c.op = "review" => /\ e["weights"] = load_route_weights(db'.registry)
                              /\ e["profiles"] = load_route_capability_profiles(db'.registry)
        /\ c.op = "registry" => e["registry"] = db'.registry
        /\ c.op = "weights" => e["weights"] = load_route_weights(db'.registry)
        /\ c.op = "profiles" => e["profiles"] = load_route_capability_profiles(db'.registry)
        /\ c.op = "policy" => e["policy"] = db'.policy
        /\ c.op = "audit" => e["audit"] = db'.audit
        /\ c.op = "rounds" => e["rounds"] = db'.rounds
    BY <1>1, EntryTells
  <1> HIDE DEF e, c
  <1>4. /\ new.policy = IF "policy" \in DOMAIN e THEN e["policy"] ELSE old.policy
        /\ new.audit = IF "audit" \in DOMAIN e THEN e["audit"] ELSE old.audit
        /\ new.rounds = IF "rounds" \in DOMAIN e THEN e["rounds"] ELSE old.rounds
        /\ DOMAIN e = {"registry"} => new.registry = e["registry"]
        /\ DOMAIN e = {"weights", "profiles"} => new.registry = Built(routes, e["weights"], e["profiles"])
        /\ DOMAIN e = {"weights"} => new.registry = save_route_weights(old.registry, e["weights"])
        /\ DOMAIN e = {"profiles"} =>
             new.registry = save_route_capability_profiles(old.registry, e["profiles"])
        /\ DOMAIN e \cap {"registry", "weights", "profiles"} = {} => new.registry = old.registry
    BY <1>1, <1>2, ReplayNew
  <1>5. /\ routes \in Registries
        /\ \E w \in Weights, f \in Profiles : old.registry = Built(routes, w, f)
    BY <1>2, ReplayBuilt
  <1>6. Follows(db, old) /\ db.registry = old.registry
    BY <1>1 DEF Replays, Follows
  <1>7. Replay(log', Len(log')) = new
    BY <1>1, <1>2
  <1> HIDE DEF old, new, routes, n
  <1>8. CASE c.op = "registry"
    <2>1. /\ db'.policy = db.policy /\ db'.audit = db.audit /\ db'.rounds = db.rounds
      BY <1>1, <1>2, <1>8, ResultTypes
    <2>2. /\ new.registry = db'.registry /\ new.policy = old.policy /\ new.audit = old.audit
          /\ new.rounds = old.rounds
      BY <1>3, <1>4, <1>8
    <2>. QED BY <1>1, <1>6, <1>7, <2>1, <2>2 DEF Replays, Follows
  <1>9. CASE c.op = "policy"
    <2>1. /\ db'.registry = db.registry /\ db'.audit = db.audit /\ db'.rounds = db.rounds
          /\ db'.policy = c.value.policy /\ c.value.policy \in RoutePolicy
      BY <1>1, <1>2, <1>9, ResultTypes DEF ValueOK
    <2>2. /\ new.registry = old.registry /\ new.policy = db'.policy /\ new.audit = old.audit
          /\ new.rounds = old.rounds
      BY <1>3, <1>4, <1>9
    <2>. QED BY <1>1, <1>6, <1>7, <2>1, <2>2, GovernanceAssumption DEF Replays, Follows
  <1>10. CASE c.op = "audit"
    <2>1. db'.registry = db.registry /\ db'.policy = db.policy /\ db'.rounds = db.rounds
      BY <1>1, <1>2, <1>10, ResultTypes
    <2>2. /\ new.registry = old.registry /\ new.policy = old.policy /\ new.audit = db'.audit
          /\ new.rounds = old.rounds
      BY <1>3, <1>4, <1>10
    <2>. QED BY <1>1, <1>6, <1>7, <2>1, <2>2 DEF Replays, Follows
  <1>11. CASE c.op = "rounds"
    <2>1. db'.registry = db.registry /\ db'.policy = db.policy /\ db'.audit = db.audit
      BY <1>1, <1>2, <1>11, ResultTypes
    <2>2. /\ new.registry = old.registry /\ new.policy = old.policy /\ new.audit = old.audit
          /\ new.rounds = db'.rounds
      BY <1>3, <1>4, <1>11
    <2>. QED BY <1>1, <1>6, <1>7, <2>1, <2>2 DEF Replays, Follows
  <1>12. CASE c.op = "review"
    <2>1. /\ db'.registry = Built(db.registry, c.value.weights, c.value.profiles)
          /\ db'.policy = db.policy /\ db'.audit = db.audit /\ db'.rounds = db.rounds
          /\ c.value.weights \in Weights /\ c.value.profiles \in Profiles
      BY <1>1, <1>2, <1>12, ResultTypes DEF ValueOK
    <2>2. /\ new.policy = old.policy /\ new.audit = old.audit /\ new.rounds = old.rounds
          /\ new.registry = Built(routes, load_route_weights(db'.registry),
                                  load_route_capability_profiles(db'.registry))
      BY <1>3, <1>4, <1>12
    <2>3. PICK w \in Weights, f \in Profiles : old.registry = Built(routes, w, f)
      BY <1>5
    <2>4. new.registry = db'.registry
      BY <1>5, <1>6, <2>1, <2>2, <2>3, ReviewReplays
    <2>. QED BY <1>1, <1>6, <1>7, <2>1, <2>2, <2>4 DEF Replays, Follows
  <1>13. db.registry \in Registries /\ blank_profiles \in Profiles
         /\ load_route_weights(db.registry) \in Weights
    <2>1. db.registry \in Registries
      BY <1>2 DEF Rows
    <2>. QED BY <2>1, BlankProfiles, LoadWeightsType
  <1>14. CASE c.op = "weights"
    <2>1. /\ db'.registry = save_route_weights(db.registry, c.value.weights)
          /\ db'.policy = db.policy /\ db'.audit = db.audit /\ db'.rounds = db.rounds
          /\ c.value.weights \in Weights
      BY <1>1, <1>2, <1>14, ResultTypes DEF ValueOK
    <2>2. /\ new.policy = old.policy /\ new.audit = old.audit /\ new.rounds = old.rounds
          /\ new.registry = save_route_weights(db.registry, load_route_weights(db'.registry))
      BY <1>3, <1>4, <1>6, <1>14
    <2>3. new.registry = db'.registry
      BY <1>13, <2>1, <2>2, SavedIsLoaded
    <2>. QED BY <1>1, <1>6, <1>7, <2>1, <2>2, <2>3 DEF Replays, Follows
  <1>15. CASE c.op = "profiles"
    <2>1. /\ db'.registry = save_route_capability_profiles(db.registry, c.value.profiles)
          /\ db'.policy = db.policy /\ db'.audit = db.audit /\ db'.rounds = db.rounds
          /\ c.value.profiles \in Profiles
      BY <1>1, <1>2, <1>15, ResultTypes DEF ValueOK
    <2>2. /\ new.policy = old.policy /\ new.audit = old.audit /\ new.rounds = old.rounds
          /\ new.registry = save_route_capability_profiles(db.registry,
                              load_route_capability_profiles(db'.registry))
      BY <1>3, <1>4, <1>6, <1>15
    <2>3. new.registry = db'.registry
      BY <1>13, <2>1, <2>2, SavedIsLoaded
    <2>. QED BY <1>1, <1>6, <1>7, <2>1, <2>2, <2>3 DEF Replays, Follows
  <1>. QED BY <1>1, <1>8, <1>9, <1>10, <1>11, <1>12, <1>14, <1>15 DEF Changes

LEMMA BootstrapReplays ==
  ASSUME GovInv, Replays, NEW p \in Procs, Bootstrap(p)
  PROVE  Replays'
  <1>1. log' = log
    BY DEF Bootstrap
  <1>2. /\ db'.audit = db.audit /\ db'.rounds = db.rounds
        /\ db'.registry \in {db.registry, IF db.registry = Empty THEN Stored.registry ELSE db.registry}
        /\ db'.policy \in {db.policy, IF db.policy = None THEN Stored.policy ELSE db.policy}
        /\ Stored.registry # Empty
    BY BootstrapWrites
  <1>3. Stored.policy # None
    BY StoredTypes
  <1>. QED BY <1>1, <1>2, <1>3 DEF Replays, Follows

LEMMA ReplayOfNothing ==
  /\ Replay(<<>>, 0).registry = Stored.registry /\ Replay(<<>>, 0).policy = Stored.policy
  /\ Replay(<<>>, 0).audit = Stored.audit /\ Replay(<<>>, 0).rounds = Stored.rounds
  <1>1. \A kind : Latest(<<>>, kind, 0) = 0
    BY LatestIs
  <1>. QED BY <1>1 DEF Replay, Logged

LEMMA InitReplays == Init => Replays
  <1> SUFFICES ASSUME Init PROVE Replays
    OBVIOUS
  <1>1. log = <<>> /\ Len(log) = 0
    BY DEF Init
  <1>2. /\ db.registry = Empty /\ db.policy = None
        /\ db.audit = Stored.audit /\ db.rounds = Stored.rounds
    BY InitialRows
  <1>. QED BY <1>1, <1>2, ReplayOfNothing DEF Replays, Follows

LEMMA ReplaysStep == GovInv /\ Replays /\ [Next]_vars => Replays'
  <1> SUFFICES ASSUME GovInv, Replays, [Next]_vars PROVE Replays'
    OBVIOUS
  <1>1. CASE UNCHANGED vars
    BY <1>1 DEF vars, Replays
  <1>2. ASSUME NEW p \in Procs, NEW op \in Offered[p], Start(p, op) PROVE Replays'
    BY <1>2 DEF Start, Replays
  <1>3. ASSUME NEW p \in Procs, Step(p) \/ Crash(p) PROVE Replays'
    <2>1. CASE UNCHANGED <<db, log>>
      BY <2>1 DEF Replays
    <2>. QED BY <1>3, <2>1, OthersLeaveRows, BootstrapReplays, CommitReplays DEF Step
  <1>. QED BY <1>1, <1>2, <1>3 DEF Next

(* Applying the payloads of the change logs to the stored metadata yields  *)
(* the committed rows, for every number of processes, commands and files:  *)
(* LogReplaysToTruth.                                                      *)
THEOREM LogTellsTheTruth == Spec => []LogReplaysToTruth
  <1>1. Init => Replays
    BY InitReplays
  <1>2. GovInv /\ Replays => LogReplaysToTruth
    <2> SUFFICES ASSUME GovInv, Replays, db.registry # Empty
                 PROVE  db = [Replay(log, Len(log)) EXCEPT !.policy = IF db.policy = None THEN None ELSE @]
      BY DEF LogReplaysToTruth
    <2> DEFINE told == Replay(log, Len(log))
    <2>1. told = [registry |-> told.registry, policy |-> told.policy, audit |-> told.audit,
                  rounds |-> told.rounds]
      BY DEF Replay
    <2>2. db = [registry |-> db.registry, policy |-> db.policy, audit |-> db.audit,
                rounds |-> db.rounds]
      BY DEF GovInv, StateTyped, Rows
    <2>3. Follows(db, told)
      BY DEF Replays
    <2> HIDE DEF told
    <2>4. db = [told EXCEPT !.policy = IF db.policy = None THEN None ELSE @]
      BY <2>1, <2>2, <2>3 DEF Follows
    <2>. QED BY <2>4 DEF told
  <1>. QED BY <1>1, <1>2, GovInit, GovStep, ReplaysStep, PTL DEF Spec

-----------------------------------------------------------------------------
(* What processes hold in memory was committed *)

Past(entries) == {Shipped} \cup {Replay(entries, n) : n \in 0 .. Len(entries)}

(* Routes, weights and profiles that were each committed some time. *)
Composed(reg, past) ==
  \E r, w, f \in past : reg = Built(r.registry, load_route_weights(w.registry),
                                    load_route_capability_profiles(f.registry))
Held(policy, past) == \E rows \in past : policy = rows.policy

(* A writer has what was committed, and of what it saved already, what its *)
(* transaction is about to commit.                                         *)
WriterPolicy(c, policy, view, past) ==
  IF c.op = "policy" /\ c.todo = <<>> THEN policy = view.policy ELSE Held(policy, past)

WriterRegistry(c, reg, view, past) ==
  /\ c.todo = FullTodo(c.op) \/ c.op \in {"policy", "audit", "rounds"} => Composed(reg, past)
  /\ c.op = "registry" /\ c.todo = <<>> => reg = view.registry
  /\ c.op = "profiles" /\ c.todo = <<>> =>
       \E r, w \in past : reg = Built(r.registry, load_route_weights(w.registry),
                                     load_route_capability_profiles(view.registry))
  /\ (c.op = "review" /\ c.todo = <<"profiles">>) \/ (c.op = "weights" /\ c.todo = <<>>) =>
       \E r, f \in past : reg = Built(r.registry, load_route_weights(view.registry),
                                     load_route_capability_profiles(f.registry))
  /\ c.op = "review" /\ c.todo = <<>> =>
       \E r \in past : reg = Built(r.registry, load_route_weights(view.registry),
                                  load_route_capability_profiles(view.registry))

(* After a rollback memory is not trusted before it is read again: the     *)
(* registry until its SELECT, the policy until its own.                    *)
MemoryOK(step, c, m, view, past) ==
  /\ step \notin {"write", "registry"} => Composed(m.registry, past)
  /\ step \notin {"write", "registry", "policy"} => Held(m.policy, past)
  /\ step = "write" => /\ WriterPolicy(c, m.policy, view, past)
                       /\ WriterRegistry(c, m.registry, view, past)

MemoryInv == \A p \in Procs : MemoryOK(pc[p], cmd[p], mem[p], tx.rows, Past(log))

TypedPast(past) == \A rows \in past : rows.registry \in Registries

LEMMA PastIsTyped ==
  ASSUME NEW l \in Seq(Entry)
  PROVE  TypedPast(Past(l)) /\ Shipped \in Past(l)
  <1>1. Shipped.registry \in Registries
    BY GovernanceAssumption, RegistryIs
  <1>2. \A n \in 0 .. Len(l) : Replay(l, n).registry \in Registries
    BY ReplayBuilt
  <1>. QED BY <1>1, <1>2 DEF Past, TypedPast

LEMMA PastGrows ==
  ASSUME NEW l \in Seq(Entry), NEW e \in Entry
  PROVE  /\ Past(l) \subseteq Past(Append(l, e))
         /\ Replay(Append(l, e), Len(l) + 1) \in Past(Append(l, e))
  <1>1. Len(l) \in Nat /\ Len(Append(l, e)) = Len(l) + 1
    OBVIOUS
  <1>2. \A n \in 0 .. Len(l) : Replay(Append(l, e), n) = Replay(l, n) /\ n \in 0 .. Len(l) + 1
    BY <1>1, ReplayKept
  <1>3. Len(l) + 1 \in 0 .. Len(l) + 1
    BY <1>1
  <1>. QED BY <1>1, <1>2, <1>3 DEF Past

LEMMA MoreIsComposed ==
  ASSUME NEW past, NEW more, past \subseteq more, NEW step, NEW c, NEW m, NEW view,
         MemoryOK(step, c, m, view, past)
  PROVE  MemoryOK(step, c, m, view, more)
  <1>1. \A reg : Composed(reg, past) => Composed(reg, more)
    BY DEF Composed
  <1>2. \A policy : Held(policy, past) => Held(policy, more)
    BY DEF Held
  <1>3. WriterPolicy(c, m.policy, view, past) => WriterPolicy(c, m.policy, view, more)
    BY <1>2 DEF WriterPolicy
  <1>4. WriterRegistry(c, m.registry, view, past) => WriterRegistry(c, m.registry, view, more)
    BY <1>1 DEF WriterRegistry
  <1>. QED BY <1>1, <1>2, <1>3, <1>4 DEF MemoryOK

LEMMA CommittedIsComposed ==
  ASSUME NEW past, TypedPast(past), NEW rows \in past
  PROVE  Composed(rows.registry, past)
  <1>1. rows.registry = Built(rows.registry, load_route_weights(rows.registry),
                              load_route_capability_profiles(rows.registry))
    BY BuiltFromItself DEF TypedPast
  <1>. QED BY <1>1 DEF Composed

(* Committed weights or profiles taken over into composed routes leave     *)
(* them composed.                                                          *)
LEMMA LoadsTyped ==
  ASSUME NEW past, TypedPast(past), NEW rows \in past
  PROVE  /\ rows.registry \in Registries
         /\ load_route_weights(rows.registry) \in Weights
         /\ load_route_capability_profiles(rows.registry) \in Profiles
  BY LoadWeightsType, LoadProfilesType DEF TypedPast

LEMMA WeightsCompose ==
  ASSUME NEW past, TypedPast(past), NEW reg, Composed(reg, past), NEW v \in Weights
  PROVE  \E r, f \in past : save_route_weights(reg, v)
                              = Built(r.registry, v, load_route_capability_profiles(f.registry))
  <1>1. PICK r \in past, w \in past, f \in past :
          reg = Built(r.registry, load_route_weights(w.registry), load_route_capability_profiles(f.registry))
    BY DEF Composed
  <1>2. /\ r.registry \in Registries /\ load_route_weights(w.registry) \in Weights
        /\ load_route_capability_profiles(f.registry) \in Profiles
    BY LoadsTyped
  <1> DEFINE a == r.registry
             b == load_route_weights(w.registry)
             g == load_route_capability_profiles(f.registry)
  <1>3. a \in Registries /\ b \in Weights /\ g \in Profiles /\ reg = Built(a, b, g)
    BY <1>1, <1>2
  <1> HIDE DEF a, b, g
  <1>4. save_route_weights(reg, v) = Built(a, v, g)
    BY <1>3, BuiltAgain
  <1>. QED BY <1>4 DEF a, g

LEMMA ProfilesCompose ==
  ASSUME NEW past, TypedPast(past), NEW r \in past, NEW w \in Weights, NEW f \in past,
         NEW g \in Profiles
  PROVE  save_route_capability_profiles(
           Built(r.registry, w, load_route_capability_profiles(f.registry)), g)
             = Built(r.registry, w, g)
  <1> DEFINE a == r.registry
             h == load_route_capability_profiles(f.registry)
  <1>1. a \in Registries /\ h \in Profiles
    BY LoadsTyped
  <1> HIDE DEF a, h
  <1>2. save_route_capability_profiles(Built(a, w, h), g) = Built(a, w, g)
    BY <1>1, BuiltAgain
  <1>. QED BY <1>2 DEF a, h

(* A step moves one process and lengthens the log at most. *)
LEMMA MemoryStep ==
  ASSUME GovInv, MemoryInv, NEW p \in Procs, NEW to, NEW c, NEW m,
         pc' = [pc EXCEPT ![p] = to], cmd' = [cmd EXCEPT ![p] = c], mem' = [mem EXCEPT ![p] = m],
         tx' = tx \/ tx.owner \in {None, p}, Past(log) \subseteq Past(log'),
         MemoryOK(to, c, m, tx'.rows, Past(log'))
  PROVE  MemoryInv'
  <1>1. /\ mem \in [Procs -> Memory] /\ pc \in [Procs -> Steps] /\ cmd = [q \in Procs |-> cmd[q]]
        /\ None \notin Procs
    BY Facts
  <1>2. /\ pc'[p] = to /\ cmd'[p] = c /\ mem'[p] = m
        /\ \A q \in Procs \ {p} : pc'[q] = pc[q] /\ cmd'[q] = cmd[q] /\ mem'[q] = mem[q]
    BY <1>1
  <1>3. ASSUME NEW q \in Procs \ {p}
        PROVE  MemoryOK(pc'[q], cmd'[q], mem'[q], tx'.rows, Past(log'))
    <2>1. MemoryOK(pc[q], cmd[q], mem[q], tx.rows, Past(log))
      BY DEF MemoryInv
    <2>2. MemoryOK(pc[q], cmd[q], mem[q], tx.rows, Past(log'))
      BY <2>1, MoreIsComposed
    <2>3. pc[q] = "write" => tx' = tx
      BY <1>1, Facts
    <2>. QED BY <1>2, <2>2, <2>3 DEF MemoryOK
  <1>. QED BY <1>2, <1>3 DEF MemoryInv

(* The shipped metadata counts as committed. *)
LEMMA ShippedIsPast ==
  ASSUME NEW l \in Seq(Entry), NEW step, step # "write", NEW c, NEW view
  PROVE  MemoryOK(step, c, Shipped, view, Past(l))
  <1>1. TypedPast(Past(l)) /\ Shipped \in Past(l)
    BY PastIsTyped
  <1>2. Composed(Shipped.registry, Past(l))
    BY <1>1, CommittedIsComposed
  <1>. QED BY <1>1, <1>2 DEF MemoryOK, Held

(* Once they are there, the committed rows are past. *)
LEMMA RowsArePast ==
  ASSUME GovInv, Replays
  PROVE  /\ TypedPast(Past(log)) /\ Replay(log, Len(log)) \in Past(log)
         /\ db.registry # Empty => Replay(log, Len(log)).registry = db.registry
         /\ db.policy # None => Replay(log, Len(log)).policy = db.policy
  <1>1. log \in Seq(Entry) /\ Len(log) \in 0 .. Len(log)
    BY DEF GovInv, StateTyped
  <1>2. Replay(log, Len(log)) \in Past(log)
    BY <1>1 DEF Past
  <1>. QED BY <1>1, <1>2, PastIsTyped DEF Replays, Follows

(* A process that holds committed metadata may go anywhere with it, or end. *)
LEMMA HolderMoves ==
  ASSUME GovInv, MemoryInv, NEW p \in Procs, pc[p] \notin {"write", "registry", "policy"},
         NEW to, NEW c, NEW m \in {mem[p], kept(p, mem[p])}, to = "write" => m = mem[p] /\ c.todo = FullTodo(c.op),
         pc' = [pc EXCEPT ![p] = to], cmd' = [cmd EXCEPT ![p] = c], mem' = [mem EXCEPT ![p] = m],
         tx' = tx \/ tx.owner \in {None, p}, log' = log
  PROVE  MemoryInv'
  <1>1. Composed(mem[p].registry, Past(log)) /\ Held(mem[p].policy, Past(log))
    BY DEF MemoryInv, MemoryOK
  <1>2. to # "write" \/ c.todo = FullTodo(c.op) => MemoryOK(to, c, mem[p], tx'.rows, Past(log))
    BY <1>1 DEF MemoryOK, WriterPolicy, WriterRegistry, FullTodo
  <1>3. to # "write" => MemoryOK(to, c, Shipped, tx'.rows, Past(log))
    BY ShippedIsPast, Facts
  <1>4. MemoryOK(to, c, m, tx'.rows, Past(log))
    BY <1>2, <1>3 DEF kept
  <1>. QED BY <1>4, MemoryStep

LEMMA CommandMoves ==
  ASSUME GovInv, NEW p \in Procs, Command(p)
  PROVE  /\ pc[p] \in {"body", "load_profiles"} /\ tx' = tx /\ log' = log
         /\ \E to, c : \E m \in {mem[p], kept(p, mem[p])} :
              /\ to # "write" /\ pc' = [pc EXCEPT ![p] = to] /\ cmd' = [cmd EXCEPT ![p] = c]
              /\ mem' = [mem EXCEPT ![p] = m]
  <1>1. /\ pc[p] \in {"body", "load_profiles"} /\ tx' = tx /\ log' = log
        /\ stop(p) \/ (\E c : proceed(p, "begin", c)) \/ (\E c : proceed(p, "load_profiles", c))
    <2>1. CASE select_route_command(p) \/ run_meta_optimizer(p) \/ review_optimization_proposals(p)
      BY <2>1 DEF select_route_command, run_meta_optimizer, review_optimization_proposals
    <2>2. CASE apply_route_registry_command(p)
      BY <2>2 DEF apply_route_registry_command
    <2>3. CASE apply_route_policy_command(p)
      BY <2>3 DEF apply_route_policy_command
    <2>4. CASE set_audit_trigger_policy_command(p)
      BY <2>4 DEF set_audit_trigger_policy_command
    <2>5. CASE set_mps_policy_command(p)
      BY <2>5 DEF set_mps_policy_command
    <2>6. CASE LoadWeights(p)
      BY <2>6 DEF LoadWeights
    <2>7. CASE LoadProfiles(p)
      BY <2>7 DEF LoadProfiles
    <2>8. CASE route_weights_command(p)
      BY <2>8 DEF route_weights_command
    <2>9. CASE route_capabilities_command(p)
      BY <2>9 DEF route_capabilities_command
    <2>. QED BY <2>1, <2>2, <2>3, <2>4, <2>5, <2>6, <2>7, <2>8, <2>9 DEF Command
  <1>2. mem = [mem EXCEPT ![p] = mem[p]]
    BY Facts
  <1>3. CASE stop(p)
    BY <1>1, <1>3 DEF stop, goto, set
  <1>4. ASSUME NEW to \in {"begin", "load_profiles"}, NEW c, proceed(p, to, c)
        PROVE  /\ to # "write" /\ pc' = [pc EXCEPT ![p] = to] /\ cmd' = [cmd EXCEPT ![p] = c]
               /\ mem' = [mem EXCEPT ![p] = mem[p]]
    BY <1>2, <1>4 DEF proceed, goto, set
  <1>. QED BY <1>1, <1>3, <1>4

LEMMA CommandHolds ==
  ASSUME GovInv, MemoryInv, NEW p \in Procs, Command(p)
  PROVE  MemoryInv'
  <1>1. /\ pc[p] \in {"body", "load_profiles"} /\ tx' = tx /\ log' = log
        /\ \E to, c : \E m \in {mem[p], kept(p, mem[p])} :
             /\ to # "write" /\ pc' = [pc EXCEPT ![p] = to] /\ cmd' = [cmd EXCEPT ![p] = c]
             /\ mem' = [mem EXCEPT ![p] = m]
    BY CommandMoves
  <1>2. PICK to, c : \E m \in {mem[p], kept(p, mem[p])} :
             /\ to # "write" /\ pc' = [pc EXCEPT ![p] = to] /\ cmd' = [cmd EXCEPT ![p] = c]
             /\ mem' = [mem EXCEPT ![p] = m]
    BY <1>1
  <1>3. PICK m \in {mem[p], kept(p, mem[p])} :
          /\ to # "write" /\ pc' = [pc EXCEPT ![p] = to] /\ cmd' = [cmd EXCEPT ![p] = c]
          /\ mem' = [mem EXCEPT ![p] = m]
    BY <1>2
  <1>4. pc[p] \notin {"write", "registry", "policy"} /\ to # "write"
    BY <1>1, <1>3
  <1>. QED BY <1>1, <1>3, <1>4, HolderMoves

LEMMA StartHolds ==
  ASSUME GovInv, MemoryInv, NEW p \in Procs, NEW op, Start(p, op)
  PROVE  MemoryInv'
  <1> DEFINE to == IF p \in Cli \/ op = "select" THEN "registry" ELSE "body"
             c == [Idle EXCEPT !.op = op]
  <1>1. /\ pc[p] = "idle" /\ pc' = [pc EXCEPT ![p] = to] /\ cmd' = [cmd EXCEPT ![p] = c]
        /\ UNCHANGED <<tx, log, mem>>
    BY DEF Start, goto, set
  <1>2. mem' = [mem EXCEPT ![p] = mem[p]] /\ to # "write"
    BY <1>1, Facts
  <1> HIDE DEF to, c
  <1>. QED BY <1>1, <1>2, HolderMoves

(* A step within a read, apart from the reading itself. *)
LEMMA ReaderHolds ==
  ASSUME GovInv, MemoryInv, NEW p \in Procs, pc[p] # "write", NEW c,
         cmd' = [cmd EXCEPT ![p] = c], UNCHANGED <<tx, log, mem, pc>>
  PROVE  MemoryInv'
  <1>1. MemoryOK(pc[p], cmd[p], mem[p], tx.rows, Past(log))
    BY DEF MemoryInv
  <1>2. MemoryOK(pc[p], c, mem[p], tx'.rows, Past(log'))
    BY <1>1 DEF MemoryOK
  <1>3. pc' = [pc EXCEPT ![p] = pc[p]] /\ mem' = [mem EXCEPT ![p] = mem[p]]
    BY Facts
  <1>. QED BY <1>2, <1>3, MemoryStep

LEMMA RefreshHolds ==
  ASSUME GovInv, Replays, MemoryInv, NEW p \in Procs, refresh(p)
  PROVE  MemoryInv'
  <1> DEFINE m == apply_route(mem[p], db, pc[p])
             done == pc[p] = "profiles" /\ cmd[p].op = "none"
             to == IF pc[p] = "registry" THEN "policy" ELSE IF pc[p] = "policy" THEN "weights"
                   ELSE IF pc[p] = "weights" THEN "profiles" ELSE IF done THEN "idle" ELSE "body"
             n == IF done THEN kept(p, m) ELSE m
             past == Past(log)
             now == Replay(log, Len(log))
  <1>1. /\ pc[p] \in {"registry", "policy", "weights", "profiles"}
        /\ db.registry # Empty /\ (pc[p] = "policy" => db.policy # None)
        /\ mem' = [mem EXCEPT ![p] = n] /\ pc' = [pc EXCEPT ![p] = to]
        /\ UNCHANGED <<db, tx, log, bundle, review, cmd>>
    BY RefreshReads
  <1>2. /\ TypedPast(past) /\ now \in past /\ now.registry = db.registry
        /\ db.policy # None => now.policy = db.policy
    BY <1>1, RowsArePast
  <1>3. db \in Rows /\ mem[p] \in Memory /\ log \in Seq(Entry)
    BY Facts
  <1>4. /\ pc[p] = "registry" => m.registry = db.registry /\ m.policy = mem[p].policy
        /\ pc[p] = "policy" => m.registry = mem[p].registry /\ m.policy = db.policy
        /\ pc[p] = "weights" =>
             /\ m.registry = save_route_weights(mem[p].registry, load_route_weights(db.registry))
             /\ m.policy = mem[p].policy
        /\ pc[p] = "profiles" =>
             /\ m.registry = save_route_capability_profiles(mem[p].registry,
                               load_route_capability_profiles(db.registry))
             /\ m.policy = mem[p].policy
    <2> DEFINE kind == pc[p]
    <2>1. kind \in Kinds /\ (kind = "policy" => db.policy # None)
      BY <1>1 DEF Kinds
    <2>2. m = apply_route(mem[p], db, kind)
      OBVIOUS
    <2> HIDE DEF kind, m
    <2>3. /\ kind = "registry" => m.registry = db.registry /\ m.policy = mem[p].policy
          /\ kind = "policy" => m.registry = mem[p].registry /\ m.policy = db.policy
          /\ kind = "weights" =>
               /\ m.registry = save_route_weights(mem[p].registry, load_route_weights(db.registry))
               /\ m.policy = mem[p].policy
          /\ kind = "profiles" =>
               /\ m.registry = save_route_capability_profiles(mem[p].registry,
                                 load_route_capability_profiles(db.registry))
               /\ m.policy = mem[p].policy
      BY <1>3, <2>1, <2>2, ApplyTypes
    <2>. QED BY <2>3 DEF kind
  <1>5. MemoryOK(pc[p], cmd[p], mem[p], tx.rows, past)
    BY DEF MemoryInv
  <1> HIDE DEF m, past, now
  <1>6. MemoryOK(to, cmd[p], m, tx.rows, past)
    <2>1. CASE pc[p] = "registry"
      <3>1. Composed(m.registry, past)
        BY <1>2, <1>4, <2>1, CommittedIsComposed
      <3>. QED BY <2>1, <3>1 DEF MemoryOK
    <2>2. CASE pc[p] = "policy"
      <3>1. Held(m.policy, past)
        BY <1>1, <1>2, <1>4, <2>2 DEF Held
      <3>. QED BY <1>4, <1>5, <2>2, <3>1 DEF MemoryOK
    <2>3. CASE pc[p] = "weights"
      <3>1. Composed(mem[p].registry, past) /\ Held(mem[p].policy, past)
        BY <1>5, <2>3 DEF MemoryOK
      <3>2. load_route_weights(now.registry) \in Weights
        BY <1>2, LoadsTyped
      <3>3. Composed(m.registry, past)
        BY <1>2, <1>4, <2>3, <3>1, <3>2, WeightsCompose DEF Composed
      <3>. QED BY <1>4, <2>3, <3>1, <3>3 DEF MemoryOK
    <2>4. CASE pc[p] = "profiles"
      <3>1. Composed(mem[p].registry, past) /\ Held(mem[p].policy, past)
        BY <1>5, <2>4 DEF MemoryOK
      <3>2. PICK r \in past, w \in past, f \in past :
              mem[p].registry = Built(r.registry, load_route_weights(w.registry),
                                      load_route_capability_profiles(f.registry))
        BY <3>1 DEF Composed
      <3>3. /\ load_route_weights(w.registry) \in Weights
            /\ load_route_capability_profiles(now.registry) \in Profiles
        BY <1>2, LoadsTyped
      <3>4. m.registry = Built(r.registry, load_route_weights(w.registry),
                               load_route_capability_profiles(now.registry))
        BY <1>2, <1>4, <2>4, <3>2, <3>3, ProfilesCompose
      <3>5. Composed(m.registry, past)
        BY <1>2, <3>4 DEF Composed
      <3>. QED BY <1>4, <2>4, <3>1, <3>5 DEF MemoryOK
    <2>. QED BY <1>1, <2>1, <2>2, <2>3, <2>4
  <1>7. MemoryOK(to, cmd[p], n, tx.rows, past)
    <2>1. to # "write"
      BY <1>1
    <2>2. MemoryOK(to, cmd[p], Shipped, tx.rows, past)
      BY <1>3, <2>1, ShippedIsPast DEF past
    <2> HIDE DEF to
    <2>. QED BY <1>6, <2>2 DEF kept
  <1>8. cmd' = [cmd EXCEPT ![p] = cmd[p]]
    BY <1>1, Facts
  <1> HIDE DEF to, n
  <1>. QED BY <1>1, <1>7, <1>8, MemoryStep DEF past

LEMMA BeginHolds ==
  ASSUME GovInv, MemoryInv, NEW p \in Procs, Begin(p)
  PROVE  MemoryInv'
  <1>1. /\ pc[p] = "begin" /\ tx.owner = None /\ pc' = [pc EXCEPT ![p] = "write"]
        /\ UNCHANGED <<log, mem, cmd>>
    BY DEF Begin, goto
  <1>2. cmd' = [cmd EXCEPT ![p] = cmd[p]] /\ mem' = [mem EXCEPT ![p] = mem[p]]
    BY <1>1, Facts
  <1>3. cmd[p].todo = FullTodo(cmd[p].op)
    BY <1>1, Facts DEF LocalsOK
  <1>. QED BY <1>1, <1>2, <1>3, HolderMoves

LEMMA LockedHolds ==
  ASSUME GovInv, MemoryInv, NEW p \in Procs, Locked(p)
  PROVE  MemoryInv'
  <1>1. pc[p] = "begin" /\ stop(p) /\ UNCHANGED <<tx, log>>
    BY DEF Locked
  <1>2. /\ pc' = [pc EXCEPT ![p] = "idle"] /\ cmd' = [cmd EXCEPT ![p] = Idle]
        /\ mem' = [mem EXCEPT ![p] = kept(p, mem[p])]
    BY <1>1 DEF stop, goto, set
  <1>. QED BY <1>1, <1>2, HolderMoves

LEMMA CrashHolds ==
  ASSUME GovInv, MemoryInv, NEW p \in Procs, Crash(p)
  PROVE  MemoryInv'
  <1>1. /\ pc' = [pc EXCEPT ![p] = "idle"] /\ cmd' = [cmd EXCEPT ![p] = Idle]
        /\ mem' = [mem EXCEPT ![p] = Shipped] /\ log' = log
        /\ tx' = tx \/ tx.owner \in {None, p}
    BY DEF Crash, set, goto
  <1>2. MemoryOK("idle", Idle, Shipped, tx'.rows, Past(log'))
    BY <1>1, ShippedIsPast, Facts
  <1>. QED BY <1>1, <1>2, MemoryStep

(* A change of a policy leaves the routes in memory alone; whatever else   *)
(* was taken over is read again.                                           *)
LEMMA RollbackHolds ==
  ASSUME GovInv, MemoryInv, NEW p \in Procs, Rollback(p)
  PROVE  MemoryInv'
  <1> DEFINE to == IF cmd[p].op \in {"audit", "rounds"} THEN "idle" ELSE "registry"
  <1>1. /\ pc[p] = "write" /\ cmd' = [cmd EXCEPT ![p] = Idle]
        /\ pc' = [pc EXCEPT ![p] = to] /\ UNCHANGED <<log, mem>>
    BY DEF Rollback, set, goto
  <1>2. MemoryOK("write", cmd[p], mem[p], tx.rows, Past(log))
    BY <1>1 DEF MemoryInv
  <1>3. MemoryOK(to, Idle, mem[p], tx'.rows, Past(log'))
    <2>1. CASE cmd[p].op \in {"audit", "rounds"}
      BY <1>1, <1>2, <2>1 DEF MemoryOK, WriterPolicy, WriterRegistry
    <2>2. CASE cmd[p].op \notin {"audit", "rounds"}
      BY <1>1, <2>2 DEF MemoryOK
    <2>. QED BY <2>1, <2>2
  <1>4. mem' = [mem EXCEPT ![p] = mem[p]] /\ tx.owner \in {None, p}
    BY <1>1, Facts
  <1> HIDE DEF to
  <1>. QED BY <1>1, <1>3, <1>4, MemoryStep

(* Saving the profiles of a review completes what was taken over with its  *)
(* weights.                                                                *)
LEMMA ReviewTakenOver ==
  ASSUME NEW past, TypedPast(past), NEW rows \in Registries, NEW v \in Weights, NEW g \in Profiles,
         NEW reg, NEW half, half = save_route_weights(rows, v),
         NEW new, new = Built(rows, v, g),
         \E r, f \in past : reg = Built(r.registry, load_route_weights(half),
                                       load_route_capability_profiles(f.registry))
  PROVE  \E r \in past :
           save_route_capability_profiles(reg, load_route_capability_profiles(new))
             = Built(r.registry, load_route_weights(new), load_route_capability_profiles(new))
  <1>1. load_route_weights(half) = load_route_weights(new)
    BY BuiltLoaded
  <1>2. new \in Registries
    BY BuiltHas
  <1>3. load_route_weights(new) \in Weights /\ load_route_capability_profiles(new) \in Profiles
    BY <1>2, LoadWeightsType, LoadProfilesType
  <1>4. PICK r \in past, f \in past :
          reg = Built(r.registry, load_route_weights(new), load_route_capability_profiles(f.registry))
    BY <1>1
  <1>5. save_route_capability_profiles(reg, load_route_capability_profiles(new))
          = Built(r.registry, load_route_weights(new), load_route_capability_profiles(new))
    BY <1>3, <1>4, ProfilesCompose
  <1>. QED BY <1>5

LEMMA SaveHolds ==
  ASSUME GovInv, MemoryInv, NEW p \in Procs, Save(p)
  PROVE  MemoryInv'
  <1> DEFINE kind == Head(cmd[p].todo)
             new == save(tx.rows, kind, cmd[p].value[kind])
             todo == Tail(cmd[p].todo)
             c == [cmd[p] EXCEPT !.todo = todo]
             m == apply_route(mem[p], new, kind)
             past == Past(log)
  <1>1. /\ pc[p] = "write" /\ tx.owner = p /\ kind \in Kinds /\ new \in Rows
        /\ Saved(cmd[p], db, kind, new, todo)
        /\ kind = "policy" => new.policy # None
        /\ tx' = [owner |-> p, rows |-> new]
        /\ mem' = [mem EXCEPT ![p] = m] /\ cmd' = [cmd EXCEPT ![p] = c]
        /\ UNCHANGED <<db, log, bundle, review, pc>>
    BY SaveWrites
  <1>2. /\ db \in Rows /\ mem[p] \in Memory /\ log \in Seq(Entry) /\ pc = [pc EXCEPT ![p] = "write"]
        /\ Whole(cmd[p]) /\ ValueOK(cmd[p]) /\ WriteOK(cmd[p], tx.rows, db)
    BY <1>1, Facts DEF LocalsOK, Whole
  <1>3. Whole(c) /\ c.op = cmd[p].op /\ c.todo = todo /\ c.value = cmd[p].value
    <2>1. c = [cmd[p] EXCEPT !.todo = todo]
      OBVIOUS
    <2>2. Whole(cmd[p])
      BY <1>2
    <2> HIDE DEF c, todo
    <2>. QED BY <2>1, <2>2, TodoWith
  <1>4. /\ kind = "registry" => m.registry = new.registry /\ m.policy = mem[p].policy
        /\ kind = "policy" => m.registry = mem[p].registry /\ m.policy = new.policy
        /\ kind = "weights" =>
             /\ m.registry = save_route_weights(mem[p].registry, load_route_weights(new.registry))
             /\ m.policy = mem[p].policy
        /\ kind = "profiles" =>
             /\ m.registry = save_route_capability_profiles(mem[p].registry,
                               load_route_capability_profiles(new.registry))
             /\ m.policy = mem[p].policy
        /\ kind \in {"audit", "rounds"} => m = mem[p]
    <2>1. m = apply_route(mem[p], new, kind)
      OBVIOUS
    <2> HIDE DEF kind, new, m, todo, c
    <2>. QED BY <1>1, <1>2, <2>1, ApplyTypes
  <1>5. /\ WriterPolicy(cmd[p], mem[p].policy, tx.rows, past)
        /\ WriterRegistry(cmd[p], mem[p].registry, tx.rows, past)
    BY <1>1 DEF MemoryInv, MemoryOK
  <1>6. /\ cmd[p].todo # <<>>
        /\ cmd[p].op # "review" => cmd[p].todo = FullTodo(cmd[p].op)
        /\ cmd[p].op = "review" /\ kind = "weights" => cmd[p].todo = FullTodo(cmd[p].op)
        /\ cmd[p].op = "review" /\ kind = "profiles" =>
             /\ cmd[p].todo = <<"profiles">>
             /\ tx.rows = save_route_registry(db, save_route_weights(db.registry, cmd[p].value.weights))
    <2>1. cmd[p].todo # <<>>
      BY DEF Save
    <2>2. CASE cmd[p].todo = FullTodo(cmd[p].op)
      BY <2>1, <2>2 DEF FullTodo
    <2>3. CASE /\ cmd[p].op = "review" /\ cmd[p].todo = <<"profiles">>
               /\ tx.rows = save_route_registry(db, save_route_weights(db.registry, cmd[p].value.weights))
      BY <2>1, <2>3
    <2>. QED BY <1>2, <2>1, <2>2, <2>3 DEF WriteOK
  <1>7. TypedPast(past)
    BY <1>2, PastIsTyped
  <1> HIDE DEF kind, new, todo, c, m, past
  <1>8. WriterPolicy(c, m.policy, new, past)
    <2>1. CASE kind = "policy"
      BY <1>1, <1>3, <1>4, <2>1 DEF WriterPolicy, Saved, Kinds
    <2>2. CASE kind # "policy"
      <3>1. cmd[p].op # "policy" /\ m.policy = mem[p].policy
        BY <1>1, <1>4, <2>2 DEF Saved, Kinds
      <3>. QED BY <1>3, <1>5, <3>1 DEF WriterPolicy
    <2>. QED BY <2>1, <2>2
  <1>9. WriterRegistry(c, m.registry, new, past)
    <2>1. CASE cmd[p].op = "registry"
      <3>1. kind = "registry" /\ todo = <<>>
        BY <1>1, <2>1 DEF Saved
      <3>. QED BY <1>3, <1>4, <2>1, <3>1 DEF WriterRegistry, FullTodo
    <2>2. CASE cmd[p].op \in {"policy", "audit", "rounds"}
      <3>1. kind = cmd[p].op
        BY <1>1, <2>2 DEF Saved
      <3>2. m.registry = mem[p].registry /\ Composed(mem[p].registry, past)
        BY <1>4, <1>5, <2>2, <3>1 DEF WriterRegistry
      <3>. QED BY <1>3, <2>2, <3>2 DEF WriterRegistry
    <2>3. CASE cmd[p].op = "review" /\ kind = "weights"
      <3>1. todo = <<"profiles">>
        BY <1>1, <2>3 DEF Saved
      <3>2. Composed(mem[p].registry, past)
        BY <1>5, <1>6, <2>3 DEF WriterRegistry
      <3>3. load_route_weights(new.registry) \in Weights
        BY <1>1, LoadWeightsType DEF Rows
      <3>4. \E r, f \in past : m.registry = Built(r.registry, load_route_weights(new.registry),
                                                 load_route_capability_profiles(f.registry))
        BY <1>4, <1>7, <2>3, <3>2, <3>3, WeightsCompose
      <3>. QED BY <1>3, <2>3, <3>1, <3>4 DEF WriterRegistry, FullTodo
    <2>4. CASE cmd[p].op = "review" /\ kind = "profiles"
      <3> DEFINE rows == db.registry
                 v == cmd[p].value.weights
                 g == cmd[p].value.profiles
                 half == save_route_weights(rows, v)
      <3>1. rows \in Registries /\ v \in Weights /\ g \in Profiles
        BY <1>2, <2>4 DEF ValueOK, Rows
      <3>2. todo = <<>> /\ new = Result(cmd[p], db)
        BY <1>1, <2>4 DEF Saved
      <3>3. new.registry = Built(rows, v, g)
        BY <1>2, <2>4, <3>2, ResultTypes DEF Changes
      <3>4. tx.rows.registry = half
        <4>1. half \in Registries
          BY <3>1, SaveTypes
        <4>2. tx.rows = save_route_registry(db, half)
          BY <1>6, <2>4
        <4> HIDE DEF half
        <4>. QED BY <1>2, <4>1, <4>2, RowsWithRegistry
      <3>5. \E r, f \in past : mem[p].registry = Built(r.registry, load_route_weights(half),
                                                      load_route_capability_profiles(f.registry))
        BY <1>5, <1>6, <2>4, <3>4 DEF WriterRegistry
      <3>6. m.registry = save_route_capability_profiles(mem[p].registry,
                           load_route_capability_profiles(new.registry))
        BY <1>4, <2>4
      <3>7. \E r \in past :
              m.registry = Built(r.registry, load_route_weights(new.registry),
                                 load_route_capability_profiles(new.registry))
        <4>1. half = save_route_weights(rows, v)
          OBVIOUS
        <4> HIDE DEF rows, v, g, half
        <4>. QED BY <1>7, <3>1, <3>3, <3>5, <3>6, <4>1, ReviewTakenOver
      <3>. QED BY <1>3, <2>4, <3>2, <3>7 DEF WriterRegistry, FullTodo
    <2>5. CASE cmd[p].op = "weights"
      <3>1. kind = "weights" /\ todo = <<>>
        BY <1>1, <2>5 DEF Saved
      <3>2. Composed(mem[p].registry, past)
        BY <1>5, <1>6, <2>5 DEF WriterRegistry
      <3>3. load_route_weights(new.registry) \in Weights
        BY <1>1, LoadWeightsType DEF Rows
      <3>4. \E r, f \in past : m.registry = Built(r.registry, load_route_weights(new.registry),
                                                 load_route_capability_profiles(f.registry))
        BY <1>4, <1>7, <3>1, <3>2, <3>3, WeightsCompose
      <3>. QED BY <1>3, <2>5, <3>1, <3>4 DEF WriterRegistry, FullTodo
    <2>6. CASE cmd[p].op = "profiles"
      <3>1. kind = "profiles" /\ todo = <<>>
        BY <1>1, <2>6 DEF Saved
      <3>2. PICK r \in past, w \in past, f \in past :
              mem[p].registry = Built(r.registry, load_route_weights(w.registry),
                                      load_route_capability_profiles(f.registry))
        BY <1>5, <1>6, <2>6 DEF WriterRegistry, Composed
      <3>3. /\ load_route_weights(w.registry) \in Weights
            /\ load_route_capability_profiles(new.registry) \in Profiles
        BY <1>1, <1>7, LoadsTyped, LoadProfilesType DEF Rows
      <3>4. m.registry = Built(r.registry, load_route_weights(w.registry),
                               load_route_capability_profiles(new.registry))
        BY <1>4, <1>7, <3>1, <3>2, <3>3, ProfilesCompose
      <3>. QED BY <1>3, <2>6, <3>1, <3>4 DEF WriterRegistry, FullTodo
    <2>. QED BY <1>1, <2>1, <2>2, <2>3, <2>4, <2>5, <2>6 DEF Saved, Changes
  <1>10. MemoryOK("write", c, m, tx'.rows, Past(log'))
    BY <1>1, <1>8, <1>9 DEF MemoryOK, past
  <1>11. pc' = [pc EXCEPT ![p] = "write"]
    BY <1>1, <1>2
  <1>. QED BY <1>1, <1>10, <1>11, MemoryStep

(* What was taken over became past with the commit. *)
LEMMA CommitHolds ==
  ASSUME GovInv, Replays, MemoryInv, NEW p \in Procs, Commit(p)
  PROVE  MemoryInv'
  <1> DEFINE e == change_log_entry(cmd[p].op, db')
             past == Past(log)
             more == Past(log')
             now == Replay(log', Len(log'))
  <1>1. /\ pc[p] = "write" /\ cmd[p].op \in Changes /\ cmd[p].todo = <<>>
        /\ db' = tx.rows /\ db' \in Rows /\ db'.registry # Empty /\ e \in Entry
        /\ log' = Append(log, e) /\ stop(p)
    BY CommitWrites
  <1>2. log \in Seq(Entry)
    BY Facts
  <1> HIDE DEF e
  <1>3. log' \in Seq(Entry) /\ past \subseteq more /\ now \in more
    <2>1. Len(log') = Len(log) + 1
      BY <1>1, <1>2
    <2>. QED BY <1>1, <1>2, <2>1, PastGrows
  <1>4. TypedPast(past) /\ TypedPast(more)
    BY <1>2, <1>3, PastIsTyped
  <1>5. now.registry = db'.registry /\ (db'.policy # None => now.policy = db'.policy)
    BY <1>1, CommitReplays DEF Replays, Follows
  <1>6. /\ WriterPolicy(cmd[p], mem[p].policy, tx.rows, past)
        /\ WriterRegistry(cmd[p], mem[p].registry, tx.rows, past)
    BY <1>1 DEF MemoryInv, MemoryOK
  <1>7. mem[p].policy # None
    BY Facts, GovernanceAssumption DEF Memory
  <1>8. /\ Shipped \in Past(log') /\ mem[p] \in Memory
        /\ pc' = [pc EXCEPT ![p] = "idle"] /\ cmd' = [cmd EXCEPT ![p] = Idle]
        /\ mem' = [mem EXCEPT ![p] = kept(p, mem[p])] /\ tx.owner \in {None, p}
    BY <1>1, <1>3, Facts, PastIsTyped DEF stop, goto, set
  <1> HIDE DEF past, more, now
  <1>9. Held(mem[p].policy, more)
    <2>1. CASE cmd[p].op = "policy"
      BY <1>1, <1>3, <1>5, <1>6, <1>7, <2>1 DEF WriterPolicy, Held
    <2>2. CASE cmd[p].op # "policy"
      BY <1>3, <1>6, <2>2 DEF WriterPolicy, Held
    <2>. QED BY <2>1, <2>2
  <1>10. Composed(mem[p].registry, more)
    <2>1. CASE cmd[p].op = "registry"
      <3>1. mem[p].registry = now.registry
        BY <1>1, <1>5, <1>6, <2>1 DEF WriterRegistry
      <3>. QED BY <1>3, <1>4, <3>1, CommittedIsComposed
    <2>2. CASE cmd[p].op = "review"
      <3>1. \E r \in past :
              mem[p].registry = Built(r.registry, load_route_weights(now.registry),
                                      load_route_capability_profiles(now.registry))
        BY <1>1, <1>5, <1>6, <2>2 DEF WriterRegistry
      <3>. QED BY <1>3, <3>1 DEF Composed
    <2>3. CASE cmd[p].op \in {"policy", "audit", "rounds"}
      <3>1. Composed(mem[p].registry, past)
        BY <1>6, <2>3 DEF WriterRegistry
      <3>. QED BY <1>3, <3>1 DEF Composed
    <2>4. CASE cmd[p].op = "weights"
      <3>1. \E r, f \in past :
              mem[p].registry = Built(r.registry, load_route_weights(now.registry),
                                      load_route_capability_profiles(f.registry))
        BY <1>1, <1>5, <1>6, <2>4 DEF WriterRegistry
      <3>. QED BY <1>3, <3>1 DEF Composed
    <2>5. CASE cmd[p].op = "profiles"
      <3>1. \E r, w \in past :
              mem[p].registry = Built(r.registry, load_route_weights(w.registry),
                                      load_route_capability_profiles(now.registry))
        BY <1>1, <1>5, <1>6, <2>5 DEF WriterRegistry
      <3>. QED BY <1>3, <3>1 DEF Composed
    <2>. QED BY <1>1, <2>1, <2>2, <2>3, <2>4, <2>5 DEF Changes
  <1>11. MemoryOK("idle", Idle, kept(p, mem[p]), tx'.rows, more)
    <2>1. MemoryOK("idle", Idle, mem[p], tx'.rows, more)
      BY <1>9, <1>10 DEF MemoryOK
    <2>2. MemoryOK("idle", Idle, Shipped, tx'.rows, more)
      BY <1>3, ShippedIsPast DEF more
    <2>. QED BY <2>1, <2>2 DEF kept
  <1>. QED BY <1>3, <1>8, <1>11, MemoryStep DEF past, more

LEMMA MemoryInvStep == GovInv /\ Replays /\ MemoryInv /\ [Next]_vars => MemoryInv'
  <1> SUFFICES ASSUME GovInv, Replays, MemoryInv, [Next]_vars PROVE MemoryInv'
    OBVIOUS
  <1>1. CASE UNCHANGED vars
    BY <1>1 DEF vars, MemoryInv
  <1>2. ASSUME NEW p \in Procs, NEW op \in Offered[p], Start(p, op) PROVE MemoryInv'
    BY <1>2, StartHolds
  <1>3. ASSUME NEW p \in Procs, NoticeEmpty(p) PROVE MemoryInv'
    <2>1. reads(p) # "nothing"
      BY <1>3 DEF NoticeEmpty, Empties
    <2>2. pc[p] # "write"
      BY <2>1 DEF reads
    <2>3. /\ cmd' = [cmd EXCEPT ![p] = [cmd[p] EXCEPT !.boot = TRUE]]
          /\ UNCHANGED <<tx, log, mem, pc>>
      BY <1>3 DEF NoticeEmpty, set
    <2>. QED BY <2>2, <2>3, ReaderHolds
  <1>4. ASSUME NEW p \in Procs, Bootstrap(p) PROVE MemoryInv'
    <2>1. pc[p] # "write"
      BY <1>4, Facts DEF Bootstrap
    <2>2. /\ cmd' = [cmd EXCEPT ![p] = [cmd[p] EXCEPT !.boot = FALSE]]
          /\ UNCHANGED <<tx, log, mem, pc>>
      BY <1>4 DEF Bootstrap, set
    <2>. QED BY <2>1, <2>2, ReaderHolds
  <1>5. ASSUME NEW p \in Procs, Step(p) PROVE MemoryInv'
    BY <1>3, <1>4, <1>5, RefreshHolds, CommandHolds, BeginHolds, LockedHolds, SaveHolds, CommitHolds,
       RollbackHolds DEF Step
  <1>6. ASSUME NEW p \in Procs, Crash(p) PROVE MemoryInv'
    BY <1>6, CrashHolds
  <1>. QED BY <1>1, <1>2, <1>5, <1>6 DEF Next

(* Between its commands and when it acts, a process holds only what was    *)
(* committed or shipped, for every number of processes and commands:       *)
(* MemoryWasCommitted.                                                     *)
THEOREM MemoryHoldsCommitted == Spec => []MemoryWasCommitted
  <1>1. Init => Replays
    BY InitReplays
  <1>2. Init => MemoryInv
    <2> SUFFICES ASSUME Init, NEW p \in Procs
                 PROVE  MemoryOK(pc[p], cmd[p], mem[p], tx.rows, Past(log))
      BY DEF MemoryInv
    <2>1. pc[p] = "idle" /\ mem[p] = Shipped /\ log \in Seq(Entry)
      BY DEF Init
    <2>. QED BY <2>1, ShippedIsPast
  <1>3. MemoryInv => MemoryWasCommitted
    <2> DEFINE routes == {rows.registry : rows \in Past(log)}
               weights == {load_route_weights(reg) : reg \in routes}
               profiles == {load_route_capability_profiles(reg) : reg \in routes}
    <2> SUFFICES ASSUME MemoryInv, NEW p \in Procs, pc[p] \in {"idle", "body"}
                 PROVE  /\ mem[p].policy \in {rows.policy : rows \in Past(log)}
                        /\ \E reg \in routes, w \in weights, f \in profiles :
                             mem[p].registry =
                               save_route_capability_profiles(save_route_weights(reg, w), f)
      BY DEF MemoryWasCommitted, Past
    <2>1. Composed(mem[p].registry, Past(log)) /\ Held(mem[p].policy, Past(log))
      BY DEF MemoryInv, MemoryOK
    <2>2. PICK r \in Past(log), w \in Past(log), f \in Past(log) :
            mem[p].registry = Built(r.registry, load_route_weights(w.registry),
                                    load_route_capability_profiles(f.registry))
      BY <2>1 DEF Composed
    <2>3. /\ r.registry \in routes /\ load_route_weights(w.registry) \in weights
          /\ load_route_capability_profiles(f.registry) \in profiles
      OBVIOUS
    <2>. QED BY <2>1, <2>2, <2>3 DEF Held, Built
  <1>. QED BY <1>1, <1>2, <1>3, GovInit, GovStep, ReplaysStep, MemoryInvStep, PTL DEF Spec

-----------------------------------------------------------------------------
(* What a review commits is what was suggested and approved *)

(* A capability suggestion says what the telemetry says of its route and   *)
(* family.                                                                 *)
Suggested(q, ev) ==
  q.type = "route_capability" =>
    LET stats == RouteTaskFamilyTelemetryStats(ev, q.route, q.family)
    IN /\ ~(stats.events < 2)
       /\ IF stats.successes = 0 THEN q.unsupported
          ELSE ~q.unsupported /\ q.score = _suggest_task_family_score(stats)
AllSuggested(S, ev) == \A q \in S : Suggested(q, ev)

(* No family that is marked unsupported has a score: in a registry, in     *)
(* profiles, and in the metadata that operators provide.                   *)
Unscored(reg) == \A r \in DOMAIN reg : \A f \in reg[r].unsupported : reg[r].scores[f] = None
UnscoredIn(profiles) ==
  \A n \in RouteName : \A f \in profiles[n].unsupported : profiles[n].scores[f] = None
FilesUnscored == Unscored(Stored.registry) /\ \A file \in RegistryFiles : Unscored(file)

(* What every committed registry inherits from the files. *)
RegistryOK(reg) ==
  /\ FilesUnscored => Unscored(reg)
  /\ FallbacksAreKnown(Stored.registry) => FallbacksAreKnown(reg)

ReviewOK(v) ==
  /\ AllSound(v.approved) /\ AllSuggested(v.approved, v.events)
  /\ v.loaded.weights \in Weights /\ v.loaded.profiles \in Profiles
  /\ v.weights = approved_weights(v.loaded.weights, v.approved)
  /\ v.profiles = approved_profiles(v.loaded.profiles, v.approved)
  /\ FilesUnscored => UnscoredIn(v.loaded.profiles)

AdviceOK(step, c) ==
  /\ step = "load_profiles" => AllSuggested(c.value.approved, c.value.events)
  /\ step \in {"begin", "write"} /\ c.op = "review" => ReviewOK(c.value)
  /\ step \in {"begin", "write"} /\ c.op = "registry" => RegistryOK(c.value.registry)
  /\ step \in {"begin", "write"} /\ c.op = "profiles" /\ FilesUnscored => UnscoredIn(c.value.profiles)

AdviceInv ==
  /\ AllSuggested(bundle.proposals, bundle.events) /\ AllSuggested(review.approved, review.events)
  /\ RegistryOK(db.registry)
  /\ \A p \in Procs : AdviceOK(pc[p], cmd[p])

LEMMA ProposalsAreSuggested ==
  ASSUME NEW reg, NEW profiles, NEW ev,
         NEW q \in build_optimization_proposals(reg, profiles, ev)
  PROVE  Suggested(q, ev)
  <1>1. CASE q.type \in {"route", "workflow"}
    BY <1>1 DEF Suggested
  <1>2. ASSUME NEW r, q \in route_weight_proposals(ev, r) PROVE Suggested(q, ev)
    <2>1. \E w : q = [Advice("route_weight", r, "failures") EXCEPT !.weight = w]
      BY <1>2 DEF route_weight_proposals
    <2>2. q.type = "route_weight"
      BY <2>1 DEF Advice
    <2>. QED BY <2>2 DEF Suggested
  <1>3. ASSUME q \in _build_route_capability_proposals(reg, profiles, ev) PROVE Suggested(q, ev)
    <2>1. PICK r \in RouteName, f \in Families :
            FromStats(q, r, f, RouteTaskFamilyTelemetryStats(ev, r, f))
      BY <1>3, CapabilityIs
    <2> DEFINE stats == RouteTaskFamilyTelemetryStats(ev, r, f)
               score == _suggest_task_family_score(stats)
    <2>2. /\ ~(stats.events < 2)
          /\ IF stats.successes = 0 THEN q = Marking(r, f) ELSE q = Scoring(r, f, score)
      BY <2>1 DEF FromStats
    <2> HIDE DEF stats, score
    <2>3. /\ q.route = r /\ q.family = f
          /\ IF stats.successes = 0 THEN q.unsupported = TRUE
             ELSE q.unsupported = FALSE /\ q.score = score
      BY <2>2, MarkingHas, ScoringHas DEF CapabilityFields
    <2>. QED BY <2>2, <2>3 DEF Suggested, stats, score
  <1>. QED BY <1>1, <1>2, <1>3, ProposalsAre

(* What an approval makes of one profile and one family. *)
LEMMA ApprovedIs ==
  ASSUME NEW f \in Profiles, NEW approved, AllSound(approved), NEW n \in RouteName, NEW g \in Families
  PROVE  LET mine == {q \in approved : q.type = "route_capability" /\ q.route = n /\ q.family = g}
             q == CHOOSE q \in mine : TRUE
             new == approved_profiles(f, approved)[n]
             told == f[n].scores[g]
         IN /\ mine = {} => new.scores[g] = told /\ (g \in new.unsupported <=> g \in f[n].unsupported)
            /\ mine # {} =>
                 /\ q \in mine
                 /\ q.unsupported => /\ g \in new.unsupported
                                    /\ new.scores[g] = IF g \in f[n].unsupported THEN told ELSE None
                 /\ ~q.unsupported => g \notin new.unsupported /\ new.scores[g] = q.score
  <1> DEFINE mine == {q \in approved : q.type = "route_capability" /\ q.route = n /\ q.family = g}
             chosen == CHOOSE q \in mine : TRUE
             now == IF mine = {} THEN f[n] ELSE apply_capability(f[n], chosen)
             new == approved_profiles(f, approved)[n]
  <1>1. new.scores[g] = now.scores[g] /\ (g \in new.unsupported <=> g \in now.unsupported)
    BY DEF approved_profiles
  <1>2. mine # {} => chosen \in mine /\ chosen.family = g
    OBVIOUS
  <1> HIDE DEF chosen, mine, new
  <1>3. /\ DOMAIN f[n] = {"scores", "unsupported"} /\ g \in DOMAIN f[n].scores
        /\ f[n] = [scores |-> f[n].scores, unsupported |-> f[n].unsupported]
    <2>1. f[n] \in Profile
      BY DEF Profiles
    <2>. QED BY <2>1 DEF Profile
  <1> DEFINE h == f[n]
             marked == [h EXCEPT !.scores[g] = None, !.unsupported = @ \cup {g}]
             scored == [h EXCEPT !.scores[g] = chosen.score, !.unsupported = @ \ {g}]
  <1>4. marked.scores[g] = None /\ g \in marked.unsupported
    BY <1>3
  <1>5. scored.scores[g] = chosen.score /\ g \notin scored.unsupported
    BY <1>3
  <1>6. mine # {} => now = IF chosen.unsupported THEN IF g \in h.unsupported THEN h ELSE marked ELSE scored
    BY <1>2 DEF apply_capability
  <1> HIDE DEF marked, scored
  <1>. QED BY <1>1, <1>2, <1>4, <1>5, <1>6 DEF mine, chosen, new

LEMMA ApprovedUnscored ==
  ASSUME NEW f \in Profiles, NEW approved, AllSound(approved), UnscoredIn(f)
  PROVE  UnscoredIn(approved_profiles(f, approved))
  <1> SUFFICES ASSUME NEW n \in RouteName, NEW g \in approved_profiles(f, approved)[n].unsupported
               PROVE  approved_profiles(f, approved)[n].scores[g] = None
    BY DEF UnscoredIn
  <1> DEFINE mine == {q \in approved : q.type = "route_capability" /\ q.route = n /\ q.family = g}
             chosen == CHOOSE q \in mine : TRUE
             new == approved_profiles(f, approved)[n]
  <1>1. g \in Families
    BY DEF approved_profiles
  <1>2. /\ mine = {} => /\ new.scores[g] = f[n].scores[g]
                        /\ (g \in new.unsupported <=> g \in f[n].unsupported)
        /\ mine # {} =>
             /\ chosen.unsupported => new.scores[g] = IF g \in f[n].unsupported THEN f[n].scores[g] ELSE None
             /\ ~chosen.unsupported => g \notin new.unsupported
    BY <1>1, ApprovedIs
  <1>3. g \in f[n].unsupported => f[n].scores[g] = None
    BY DEF UnscoredIn
  <1>4. g \in new.unsupported
    OBVIOUS
  <1> HIDE DEF mine, chosen, new
  <1>5. new.scores[g] = None
    BY <1>2, <1>3, <1>4
  <1>. QED BY <1>5 DEF new

(* A step moves one process and leaves suggestions suggested. *)
LEMMA AdviceStep ==
  ASSUME GovInv, AdviceInv, NEW p \in Procs, NEW to, NEW c,
         pc' = [pc EXCEPT ![p] = to], cmd' = [cmd EXCEPT ![p] = c],
         AllSuggested(bundle'.proposals, bundle'.events),
         AllSuggested(review'.approved, review'.events),
         RegistryOK(db'.registry),
         AdviceOK(to, c)
  PROVE  AdviceInv'
  <1>1. pc \in [Procs -> Steps] /\ cmd = [q \in Procs |-> cmd[q]]
    BY Facts
  <1>2. /\ pc'[p] = to /\ cmd'[p] = c
        /\ \A q \in Procs \ {p} : pc'[q] = pc[q] /\ cmd'[q] = cmd[q]
    BY <1>1
  <1>3. \A q \in Procs \ {p} : AdviceOK(pc'[q], cmd'[q])
    BY <1>2 DEF AdviceInv
  <1>. QED BY <1>2, <1>3 DEF AdviceInv

LEMMA AdviceFacts ==
  ASSUME AdviceInv, NEW p \in Procs
  PROVE  /\ AllSuggested(bundle.proposals, bundle.events)
         /\ AllSuggested(review.approved, review.events)
         /\ RegistryOK(db.registry)
         /\ AdviceOK(pc[p], cmd[p])
  BY DEF AdviceInv

LEMMA NoAdvice ==
  ASSUME NEW to, to \notin {"load_profiles", "begin", "write"}, NEW c
  PROVE  AdviceOK(to, c)
  BY DEF AdviceOK

LEMMA SameAdvice ==
  ASSUME NEW step, NEW c, NEW d, d.op = c.op, d.value = c.value, AdviceOK(step, c)
  PROVE  AdviceOK(step, d)
  BY DEF AdviceOK

(* Steps that leave bundle, review and routes alone. *)
LEMMA QuietAdvice ==
  ASSUME GovInv, AdviceInv, NEW p \in Procs, NEW to, NEW c,
         pc' = [pc EXCEPT ![p] = to], cmd' = [cmd EXCEPT ![p] = c],
         UNCHANGED <<db, bundle, review>>, AdviceOK(to, c)
  PROVE  AdviceInv'
  BY AdviceStep, AdviceFacts

LEMMA NoticeEmptyAdvises ==
  ASSUME GovInv, AdviceInv, NEW p \in Procs, NoticeEmpty(p)
  PROVE  AdviceInv'
  <1> DEFINE c == [cmd[p] EXCEPT !.boot = TRUE]
  <1>1. cmd' = [cmd EXCEPT ![p] = c] /\ UNCHANGED <<db, bundle, review, pc>>
    BY DEF NoticeEmpty, set
  <1>2. Whole(cmd[p])
    BY Facts DEF LocalsOK, Whole
  <1>3. c.op = cmd[p].op /\ c.value = cmd[p].value
    BY <1>2, BootWith
  <1> HIDE DEF c
  <1>4. AdviceOK(pc[p], c)
    BY <1>3, AdviceFacts, SameAdvice
  <1>5. pc' = [pc EXCEPT ![p] = pc[p]]
    BY <1>1, Facts
  <1>. QED BY <1>1, <1>4, <1>5, QuietAdvice

LEMMA BootstrapAdvises ==
  ASSUME GovInv, AdviceInv, NEW p \in Procs, Bootstrap(p)
  PROVE  AdviceInv'
  <1> DEFINE c == [cmd[p] EXCEPT !.boot = FALSE]
  <1>1. cmd' = [cmd EXCEPT ![p] = c] /\ UNCHANGED <<bundle, review, pc>>
    BY DEF Bootstrap, set
  <1>2. Whole(cmd[p])
    BY Facts DEF LocalsOK, Whole
  <1>3. c.op = cmd[p].op /\ c.value = cmd[p].value
    BY <1>2, BootWith
  <1> HIDE DEF c
  <1>4. AdviceOK(pc[p], c)
    BY <1>3, AdviceFacts, SameAdvice
  <1>5. pc' = [pc EXCEPT ![p] = pc[p]]
    BY <1>1, Facts
  <1>6. RegistryOK(db'.registry)
    <2>1. db'.registry \in {db.registry, Stored.registry}
      BY BootstrapWrites
    <2>. QED BY <2>1, AdviceFacts DEF FilesUnscored, RegistryOK
  <1>7. /\ AllSuggested(bundle'.proposals, bundle'.events)
        /\ AllSuggested(review'.approved, review'.events)
    BY <1>1, AdviceFacts
  <1>. QED BY <1>1, <1>4, <1>5, <1>6, <1>7, AdviceStep

LEMMA StopAdvises ==
  ASSUME GovInv, AdviceInv, NEW p \in Procs, stop(p), UNCHANGED <<db, bundle, review>>
  PROVE  AdviceInv'
  <1>1. pc' = [pc EXCEPT ![p] = "idle"] /\ cmd' = [cmd EXCEPT ![p] = Idle]
    BY DEF stop, goto, set
  <1>. QED BY <1>1, NoAdvice, QuietAdvice

(* Steps to where nothing is written. *)
LEMMA ElsewhereAdvises ==
  ASSUME GovInv, AdviceInv, NEW p \in Procs,
         refresh(p) \/ Rollback(p) \/ Crash(p) \/ (\E op : Start(p, op))
  PROVE  AdviceInv'
  <1>1. UNCHANGED <<db, bundle, review>>
    BY DEF refresh, Rollback, Crash, Start
  <1>2. \E to \in {"idle", "registry", "policy", "weights", "profiles", "body"} : \E c :
          pc' = [pc EXCEPT ![p] = to] /\ cmd' = [cmd EXCEPT ![p] = c]
    <2>1. CASE refresh(p)
      <3> DEFINE next == [registry |-> "policy", policy |-> "weights", weights |-> "profiles"]
      <3>1. /\ pc[p] \in {"registry", "policy", "weights", "profiles"}
            /\ \E done \in BOOLEAN :
                 pc' = [pc EXCEPT ![p] = IF pc[p] # "profiles" THEN next[pc[p]]
                                        ELSE IF done THEN "idle" ELSE "body"]
        BY <2>1 DEF refresh, goto
      <3>2. pc[p] # "profiles" => next[pc[p]] \in {"policy", "weights", "profiles"}
        BY <3>1
      <3>3. cmd' = [cmd EXCEPT ![p] = cmd[p]]
        BY <2>1, Facts DEF refresh
      <3> HIDE DEF next
      <3>. QED BY <3>1, <3>2, <3>3
    <2>2. CASE Rollback(p) \/ Crash(p)
      BY <2>2 DEF Rollback, Crash, goto, set
    <2>3. CASE \E op : Start(p, op)
      BY <2>3 DEF Start, goto, set
    <2>. QED BY <2>1, <2>2, <2>3
  <1>3. PICK to \in {"idle", "registry", "policy", "weights", "profiles", "body"} : \E c :
          pc' = [pc EXCEPT ![p] = to] /\ cmd' = [cmd EXCEPT ![p] = c]
    BY <1>2
  <1>4. PICK c : cmd' = [cmd EXCEPT ![p] = c] /\ pc' = [pc EXCEPT ![p] = to]
    BY <1>3
  <1>5. AdviceOK(to, c)
    BY NoAdvice
  <1>. QED BY <1>1, <1>3, <1>4, <1>5, QuietAdvice

LEMMA OptimizeAdvises ==
  ASSUME GovInv, AdviceInv, NEW p \in Procs, run_meta_optimizer(p)
  PROVE  AdviceInv'
  <1>1. stop(p) /\ UNCHANGED <<db, review>>
    BY DEF run_meta_optimizer
  <1>2. PICK ev \in Telemetries :
          bundle' = [events |-> ev,
                     proposals |-> build_optimization_proposals(mem[p].registry,
                                     load_route_capability_profiles(db.registry), ev)]
    BY DEF run_meta_optimizer
  <1>3. AllSuggested(bundle'.proposals, bundle'.events)
    BY <1>2, ProposalsAreSuggested DEF AllSuggested
  <1>4. pc' = [pc EXCEPT ![p] = "idle"] /\ cmd' = [cmd EXCEPT ![p] = Idle]
    BY <1>1 DEF stop, goto, set
  <1>5. /\ AllSuggested(review'.approved, review'.events) /\ AdviceOK("idle", Idle)
        /\ RegistryOK(db'.registry)
    BY <1>1, AdviceFacts, NoAdvice
  <1>. QED BY <1>3, <1>4, <1>5, AdviceStep

LEMMA DecideAdvises ==
  ASSUME GovInv, AdviceInv, NEW p \in Procs, review_optimization_proposals(p)
  PROVE  AdviceInv'
  <1>1. stop(p) /\ UNCHANGED <<db, bundle>>
    BY DEF review_optimization_proposals
  <1>2. PICK decision \in {"approved", "rejected", "deferred"}, selected \in selections(bundle.proposals) :
          review' = [events |-> bundle.events,
                     approved |-> approved_by(decision, selected, bundle.proposals)]
    BY DEF review_optimization_proposals
  <1>3. review'.approved \subseteq bundle.proposals /\ review'.events = bundle.events
    BY <1>2 DEF approved_by, selections
  <1>4. AllSuggested(bundle.proposals, bundle.events)
    BY AdviceFacts
  <1>5. AllSuggested(review'.approved, review'.events)
    BY <1>3, <1>4 DEF AllSuggested
  <1>6. pc' = [pc EXCEPT ![p] = "idle"] /\ cmd' = [cmd EXCEPT ![p] = Idle]
    BY <1>1 DEF stop, goto, set
  <1>7. /\ AllSuggested(bundle'.proposals, bundle'.events) /\ AdviceOK("idle", Idle)
        /\ RegistryOK(db'.registry)
    BY <1>1, <1>4, AdviceFacts, NoAdvice
  <1>. QED BY <1>5, <1>6, <1>7, AdviceStep

(* A command that plans a change: a registry, profiles or a review matter   *)
(* here.                                                                    *)
LEMMA PlanAdvises ==
  ASSUME GovInv, AdviceInv, NEW p \in Procs, NEW t, NEW v,
         proceed(p, "begin", planned(cmd[p], t, v)), UNCHANGED <<db, bundle, review>>,
         cmd[p].op = "review" => ReviewOK(v),
         cmd[p].op = "registry" => RegistryOK(v.registry),
         cmd[p].op = "profiles" /\ FilesUnscored => UnscoredIn(v.profiles)
  PROVE  AdviceInv'
  <1> DEFINE c == planned(cmd[p], t, v)
  <1>1. pc' = [pc EXCEPT ![p] = "begin"] /\ cmd' = [cmd EXCEPT ![p] = c]
    BY DEF proceed, goto, set
  <1>2. Whole(cmd[p])
    BY Facts DEF LocalsOK, Whole
  <1>3. c.op = cmd[p].op /\ c.value = v
    BY <1>2, Planned
  <1> HIDE DEF c
  <1>4. AdviceOK("begin", c)
    BY <1>3 DEF AdviceOK
  <1>. QED BY <1>1, <1>4, QuietAdvice

LEMMA PolicyCommandsAdvise ==
  ASSUME GovInv, AdviceInv, NEW p \in Procs,
         \/ apply_route_policy_command(p)
         \/ route_weights_command(p)
         \/ set_audit_trigger_policy_command(p)
         \/ set_mps_policy_command(p)
  PROVE  AdviceInv'
  <1>1. cmd[p].op \notin {"review", "registry", "profiles"} /\ UNCHANGED <<db, bundle, review>>
    BY DEF apply_route_policy_command, route_weights_command, set_audit_trigger_policy_command, set_mps_policy_command
  <1>2. stop(p) \/ \E t, v : proceed(p, "begin", planned(cmd[p], t, v))
    <2>1. CASE apply_route_policy_command(p)
      BY <2>1 DEF apply_route_policy_command
    <2>2. CASE set_audit_trigger_policy_command(p)
      BY <2>2 DEF set_audit_trigger_policy_command
    <2>3. CASE set_mps_policy_command(p)
      BY <2>3 DEF set_mps_policy_command
    <2>4. CASE route_weights_command(p)
      BY <2>4 DEF route_weights_command
    <2>. QED BY <2>1, <2>2, <2>3, <2>4
  <1>3. CASE stop(p)
    BY <1>1, <1>3, StopAdvises
  <1>4. ASSUME NEW t, NEW v, proceed(p, "begin", planned(cmd[p], t, v)) PROVE AdviceInv'
    BY <1>1, <1>4, PlanAdvises
  <1>. QED BY <1>2, <1>3, <1>4

LEMMA RegistryCommandAdvises ==
  ASSUME GovInv, AdviceInv, NEW p \in Procs, apply_route_registry_command(p)
  PROVE  AdviceInv'
  <1>1. cmd[p].op = "registry" /\ UNCHANGED <<db, bundle, review>>
    BY DEF apply_route_registry_command
  <1>2. stop(p) \/ \E file \in RegistryFiles :
                     /\ FallbacksAreKnown(file)
                     /\ proceed(p, "begin", planned(cmd[p], <<"registry">>, [registry |-> file]))
    BY DEF apply_route_registry_command, normalize_route_registry_payload
  <1>3. CASE stop(p)
    BY <1>1, <1>3, StopAdvises
  <1>4. ASSUME NEW file \in RegistryFiles, FallbacksAreKnown(file),
               proceed(p, "begin", planned(cmd[p], <<"registry">>, [registry |-> file]))
        PROVE  AdviceInv'
    <2> DEFINE v == [registry |-> file]
    <2>1. RegistryOK(v.registry)
      BY <1>4 DEF FilesUnscored, RegistryOK
    <2>2. proceed(p, "begin", planned(cmd[p], <<"registry">>, v))
      BY <1>4
    <2> HIDE DEF v
    <2>. QED BY <1>1, <2>1, <2>2, PlanAdvises
  <1>. QED BY <1>2, <1>3, <1>4

LEMMA LoadWeightsAdvises ==
  ASSUME GovInv, AdviceInv, NEW p \in Procs, LoadWeights(p)
  PROVE  AdviceInv'
  <1> DEFINE v == [approved |-> review.approved, events |-> review.events,
                   weights |-> load_route_weights(db.registry)]
             c == [cmd[p] EXCEPT !.value = v]
  <1>1. UNCHANGED <<db, bundle, review>> /\ (stop(p) \/ proceed(p, "load_profiles", c))
    BY DEF LoadWeights
  <1>2. CASE stop(p)
    BY <1>1, <1>2, StopAdvises
  <1>3. CASE proceed(p, "load_profiles", c)
    <2>1. Whole(cmd[p])
      BY Facts DEF LocalsOK, Whole
    <2>2. c.value = v
      BY <2>1, ValueWith
    <2>3. pc' = [pc EXCEPT ![p] = "load_profiles"] /\ cmd' = [cmd EXCEPT ![p] = c]
      BY <1>3 DEF proceed, goto, set
    <2>4. AllSuggested(v.approved, v.events)
      BY AdviceFacts
    <2> HIDE DEF c, v
    <2>5. AdviceOK("load_profiles", c)
      BY <2>2, <2>4 DEF AdviceOK
    <2>. QED BY <1>1, <2>3, <2>5, QuietAdvice
  <1>. QED BY <1>1, <1>2, <1>3

LEMMA UnscoredLoads ==
  ASSUME NEW reg \in Registries, Unscored(reg)
  PROVE  UnscoredIn(load_route_capability_profiles(reg))
  BY DEF Unscored, UnscoredIn, load_route_capability_profiles, blank_profile

(* A changed profile has no score where it is marked. *)
LEMMA ProfilesCommandAdvises ==
  ASSUME GovInv, AdviceInv, NEW p \in Procs, route_capabilities_command(p)
  PROVE  AdviceInv'
  <1>1. cmd[p].op = "profiles" /\ UNCHANGED <<db, bundle, review>>
    BY DEF route_capabilities_command
  <1> DEFINE now == load_route_capability_profiles(db.registry)
  <1>2. PICK change \in ProfileChanges :
          \/ proceed(p, "begin", planned(cmd[p], <<"profiles">>, [profiles |-> changed_profiles(now, change)]))
          \/ stop(p)
    BY DEF route_capabilities_command
  <1>3. CASE stop(p)
    BY <1>1, <1>3, StopAdvises
  <1>4. CASE proceed(p, "begin", planned(cmd[p], <<"profiles">>, [profiles |-> changed_profiles(now, change)]))
    <2> DEFINE v == [profiles |-> changed_profiles(now, change)]
    <2>1. now \in Profiles /\ change \in ProfileChange /\ (FilesUnscored => UnscoredIn(now))
      <3>1. db.registry \in Registries
        BY Facts DEF Rows
      <3>. QED BY <3>1, LoadProfilesType, UnscoredLoads, AdviceFacts, GovernanceAssumption DEF RegistryOK
    <2> HIDE DEF now
    <2>2. ASSUME UnscoredIn(now) PROVE UnscoredIn(changed_profiles(now, change))
      <3> SUFFICES ASSUME NEW n \in RouteName,
                          NEW f \in changed_profiles(now, change)[n].unsupported
                   PROVE  changed_profiles(now, change)[n].scores[f] = None
        BY DEF UnscoredIn
      <3>1. changed_profiles(now, change)[n]
              = IF n = change.route THEN changed_profile(now[n], change) ELSE now[n]
        BY <2>1, ChangedTypes
      <3>2. now[n] \in Profile /\ \A g \in now[n].unsupported : now[n].scores[g] = None
        BY <2>1, <2>2 DEF Profiles, UnscoredIn
      <3>. QED BY <2>1, <3>1, <3>2, ChangedHas
    <2>3. FilesUnscored => UnscoredIn(v.profiles)
      BY <2>1, <2>2
    <2>4. proceed(p, "begin", planned(cmd[p], <<"profiles">>, v))
      BY <1>4
    <2> HIDE DEF v
    <2>. QED BY <1>1, <2>3, <2>4, PlanAdvises
  <1>. QED BY <1>2, <1>3, <1>4

LEMMA LoadProfilesAdvises ==
  ASSUME GovInv, AdviceInv, NEW p \in Procs, LoadProfiles(p)
  PROVE  AdviceInv'
  <1> DEFINE v == cmd[p].value
             loaded == load_route_capability_profiles(db.registry)
             new == [approved |-> v.approved, events |-> v.events,
                     loaded |-> [weights |-> v.weights, profiles |-> loaded],
                     weights |-> approved_weights(v.weights, v.approved),
                     profiles |-> approved_profiles(loaded, v.approved)]
  <1>1. /\ pc[p] = "load_profiles" /\ UNCHANGED <<db, bundle, review>>
        /\ \/ stop(p)
           \/ proceed(p, "begin", planned(cmd[p], <<"weights", "profiles">>, new))
    BY DEF LoadProfiles
  <1>2. /\ cmd[p].op = "review" /\ AllSound(v.approved) /\ v.weights \in Weights
        /\ AllSuggested(v.approved, v.events)
    BY <1>1, Facts, AdviceFacts DEF LocalsOK, AdviceOK
  <1>3. CASE stop(p)
    BY <1>1, <1>3, StopAdvises
  <1>4. CASE proceed(p, "begin", planned(cmd[p], <<"weights", "profiles">>, new))
    <2>1. loaded \in Profiles /\ (FilesUnscored => UnscoredIn(loaded))
      <3>1. db.registry \in Registries
        BY Facts DEF Rows
      <3>. QED BY <3>1, LoadProfilesType, UnscoredLoads, AdviceFacts DEF RegistryOK
    <2> HIDE DEF loaded, v
    <2>2. ReviewOK(new)
      BY <1>2, <2>1 DEF ReviewOK
    <2> HIDE DEF new
    <2>. QED BY <1>1, <1>2, <1>4, <2>2, PlanAdvises
  <1>. QED BY <1>1, <1>3, <1>4

LEMMA CommandAdvises ==
  ASSUME GovInv, AdviceInv, NEW p \in Procs, Command(p)
  PROVE  AdviceInv'
  <1>1. CASE select_route_command(p)
    <2>1. stop(p) /\ UNCHANGED <<db, bundle, review>>
      BY <1>1 DEF select_route_command
    <2>. QED BY <2>1, StopAdvises
  <1>. QED BY <1>1, OptimizeAdvises, DecideAdvises, RegistryCommandAdvises, PolicyCommandsAdvise,
              ProfilesCommandAdvises, LoadWeightsAdvises, LoadProfilesAdvises DEF Command

(* The transaction writes what the command planned. *)
LEMMA BeginAdvises ==
  ASSUME GovInv, AdviceInv, NEW p \in Procs, Begin(p)
  PROVE  AdviceInv'
  <1>1. pc[p] = "begin" /\ pc' = [pc EXCEPT ![p] = "write"] /\ UNCHANGED <<db, bundle, review, cmd>>
    BY DEF Begin, goto
  <1>2. cmd' = [cmd EXCEPT ![p] = cmd[p]]
    BY <1>1, Facts
  <1>3. AdviceOK("write", cmd[p])
    BY <1>1, AdviceFacts DEF AdviceOK
  <1>. QED BY <1>1, <1>2, <1>3, QuietAdvice

LEMMA LockedAdvises ==
  ASSUME GovInv, AdviceInv, NEW p \in Procs, Locked(p)
  PROVE  AdviceInv'
  <1>1. stop(p) /\ UNCHANGED <<db, bundle, review>>
    BY DEF Locked
  <1>. QED BY <1>1, StopAdvises

LEMMA SaveAdvises ==
  ASSUME GovInv, AdviceInv, NEW p \in Procs, Save(p)
  PROVE  AdviceInv'
  <1> DEFINE todo == Tail(cmd[p].todo)
             c == [cmd[p] EXCEPT !.todo = todo]
  <1>1. cmd' = [cmd EXCEPT ![p] = c] /\ UNCHANGED <<db, bundle, review, pc>>
    BY DEF Save, set
  <1>2. Whole(cmd[p]) /\ c = [cmd[p] EXCEPT !.todo = todo]
    BY Facts DEF LocalsOK, Whole
  <1> HIDE DEF c, todo
  <1>3. c.op = cmd[p].op /\ c.value = cmd[p].value
    BY <1>2, TodoWith
  <1>4. AdviceOK(pc[p], c)
    BY <1>3, AdviceFacts, SameAdvice
  <1>5. pc' = [pc EXCEPT ![p] = pc[p]]
    BY <1>1, Facts
  <1>. QED BY <1>1, <1>4, <1>5, QuietAdvice

(* What the commit of a review makes of the routes. *)
LEMMA ReviewWrites ==
  ASSUME GovInv, AdviceInv, NEW p \in Procs, Commit(p), cmd[p].op = "review"
  PROVE  LET v == cmd[p].value
         IN /\ ReviewOK(v) /\ v.weights \in Weights /\ v.profiles \in Profiles
            /\ db'.registry \in Registries /\ DOMAIN db'.registry = DOMAIN db.registry
            /\ \A r \in DOMAIN db.registry :
                 /\ Plain(r) \in RouteName
                 /\ db'.registry[r].fallback = db.registry[r].fallback
                 /\ db'.registry[r].weight = v.weights[Plain(r)]
                 /\ db'.registry[r].scores = v.profiles[Plain(r)].scores
                 /\ db'.registry[r].unsupported = v.profiles[Plain(r)].unsupported
  <1> DEFINE v == cmd[p].value
  <1>1. pc[p] = "write" /\ ValueOK(cmd[p]) /\ db' = Result(cmd[p], db) /\ cmd[p].op \in Changes
    BY CommitWrites
  <1>2. ReviewOK(v)
    BY <1>1, AdviceFacts DEF AdviceOK
  <1>3. v.weights \in Weights /\ v.profiles \in Profiles
    BY <1>1 DEF ValueOK
  <1>4. db \in Rows /\ db.registry \in Registries
    BY Facts DEF Rows
  <1>5. db'.registry = Built(db.registry, v.weights, v.profiles)
    BY <1>1, <1>4, ResultTypes
  <1>6. \A r \in DOMAIN db.registry : Plain(r) \in RouteName
    BY <1>4, RegistryShape
  <1> HIDE DEF v
  <1>7. /\ db'.registry \in Registries /\ DOMAIN db'.registry = DOMAIN db.registry
        /\ \A r \in DOMAIN db.registry :
             /\ db'.registry[r].fallback = db.registry[r].fallback
             /\ db'.registry[r].weight = v.weights[Plain(r)]
             /\ db'.registry[r].scores = v.profiles[Plain(r)].scores
             /\ db'.registry[r].unsupported = v.profiles[Plain(r)].unsupported
    BY <1>3, <1>4, <1>5, BuiltHas DEF Alike
  <1>. QED BY <1>2, <1>3, <1>6, <1>7 DEF v

LEMMA CommitAdvises ==
  ASSUME GovInv, AdviceInv, NEW p \in Procs, Commit(p)
  PROVE  AdviceInv'
  <1>1. /\ pc[p] = "write" /\ cmd[p].op \in Changes /\ ValueOK(cmd[p])
        /\ db' = Result(cmd[p], db) /\ stop(p) /\ UNCHANGED <<bundle, review>>
    BY CommitWrites
  <1>2. db \in Rows /\ AdviceOK(pc[p], cmd[p]) /\ RegistryOK(db.registry)
    BY Facts, AdviceFacts
  <1>3. RegistryOK(db'.registry)
    <2>1. CASE cmd[p].op = "registry"
      <3>1. db'.registry = cmd[p].value.registry
        BY <1>1, <1>2, <2>1, ResultTypes
      <3>. QED BY <1>1, <1>2, <2>1, <3>1 DEF AdviceOK
    <2>2. CASE cmd[p].op \in {"policy", "audit", "rounds"}
      <3>1. db'.registry = db.registry
        BY <1>1, <1>2, <2>2, ResultTypes
      <3>. QED BY <1>2, <3>1
    <2>3. CASE cmd[p].op = "review"
      <3> DEFINE v == cmd[p].value
      <3>1. /\ ReviewOK(v) /\ DOMAIN db'.registry = DOMAIN db.registry
            /\ \A r \in DOMAIN db.registry :
                 /\ Plain(r) \in RouteName
                 /\ db'.registry[r].fallback = db.registry[r].fallback
                 /\ db'.registry[r].scores = v.profiles[Plain(r)].scores
                 /\ db'.registry[r].unsupported = v.profiles[Plain(r)].unsupported
        BY <2>3, ReviewWrites
      <3>2. ASSUME FilesUnscored PROVE Unscored(db'.registry)
        <4>1. UnscoredIn(v.profiles)
          BY <3>1, <3>2, ApprovedUnscored DEF ReviewOK
        <4>. QED BY <3>1, <4>1 DEF Unscored, UnscoredIn
      <3>3. FallbacksAreKnown(db.registry) => FallbacksAreKnown(db'.registry)
        BY <3>1 DEF FallbacksAreKnown
      <3>. QED BY <1>2, <3>2, <3>3 DEF RegistryOK
    <2>4. db.registry \in Registries /\ blank_profiles \in Profiles
          /\ load_route_weights(db.registry) \in Weights
      <3>1. db.registry \in Registries
        BY <1>2 DEF Rows
      <3>. QED BY <3>1, BlankProfiles, LoadWeightsType
    <2>5. CASE cmd[p].op = "weights"
      <3>1. /\ db'.registry = save_route_weights(db.registry, cmd[p].value.weights)
            /\ cmd[p].value.weights \in Weights
        BY <1>1, <1>2, <2>5, ResultTypes DEF ValueOK
      <3>2. /\ DOMAIN db'.registry = DOMAIN db.registry
            /\ \A r \in DOMAIN db.registry :
                 /\ db'.registry[r].fallback = db.registry[r].fallback
                 /\ db'.registry[r].scores = db.registry[r].scores
                 /\ db'.registry[r].unsupported = db.registry[r].unsupported
        BY <2>4, <3>1, SaveTypes, SavedWeights DEF Alike
      <3>3. /\ Unscored(db.registry) => Unscored(db'.registry)
            /\ FallbacksAreKnown(db.registry) => FallbacksAreKnown(db'.registry)
        BY <3>2 DEF Unscored, FallbacksAreKnown
      <3>. QED BY <1>2, <3>3 DEF RegistryOK
    <2>6. CASE cmd[p].op = "profiles"
      <3> DEFINE g == cmd[p].value.profiles
      <3>1. db'.registry = save_route_capability_profiles(db.registry, g) /\ g \in Profiles
        BY <1>1, <1>2, <2>6, ResultTypes DEF ValueOK
      <3>2. FilesUnscored => UnscoredIn(g)
        BY <1>1, <1>2, <2>6 DEF AdviceOK
      <3> HIDE DEF g
      <3>3. /\ DOMAIN db'.registry = DOMAIN db.registry
            /\ \A r \in DOMAIN db.registry :
                 /\ Plain(r) \in RouteName
                 /\ db'.registry[r].fallback = db.registry[r].fallback
                 /\ db'.registry[r].scores = g[Plain(r)].scores
                 /\ db'.registry[r].unsupported = g[Plain(r)].unsupported
        BY <2>4, <3>1, SaveTypes, SavedProfiles, RegistryShape DEF Alike
      <3>4. /\ UnscoredIn(g) => Unscored(db'.registry)
            /\ FallbacksAreKnown(db.registry) => FallbacksAreKnown(db'.registry)
        BY <3>3 DEF Unscored, UnscoredIn, FallbacksAreKnown
      <3>. QED BY <1>2, <3>2, <3>4 DEF RegistryOK
    <2>. QED BY <1>1, <2>1, <2>2, <2>3, <2>5, <2>6 DEF Changes
  <1>4. pc' = [pc EXCEPT ![p] = "idle"] /\ cmd' = [cmd EXCEPT ![p] = Idle]
    BY <1>1 DEF stop, goto, set
  <1>5. /\ AllSuggested(bundle'.proposals, bundle'.events)
        /\ AllSuggested(review'.approved, review'.events)
    BY <1>1, AdviceFacts
  <1>. QED BY <1>3, <1>4, <1>5, NoAdvice, AdviceStep

LEMMA AdviceInvStep == GovInv /\ AdviceInv /\ [Next]_vars => AdviceInv'
  <1> SUFFICES ASSUME GovInv, AdviceInv, [Next]_vars PROVE AdviceInv'
    OBVIOUS
  <1>1. CASE UNCHANGED vars
    BY <1>1 DEF vars, AdviceInv
  <1>2. ASSUME NEW p \in Procs, NEW op, Start(p, op) PROVE AdviceInv'
    BY <1>2, ElsewhereAdvises
  <1>3. ASSUME NEW p \in Procs, Step(p) PROVE AdviceInv'
    BY <1>3, NoticeEmptyAdvises, BootstrapAdvises, ElsewhereAdvises, CommandAdvises, BeginAdvises,
       LockedAdvises, SaveAdvises, CommitAdvises DEF Step
  <1>4. ASSUME NEW p \in Procs, Crash(p) PROVE AdviceInv'
    BY <1>4, ElsewhereAdvises
  <1>. QED BY <1>1, <1>2, <1>3, <1>4 DEF Next

LEMMA AdviceInit == Init => AdviceInv
  <1> SUFFICES ASSUME Init PROVE AdviceInv
    OBVIOUS
  <1>1. bundle.proposals = {} /\ review.approved = {} /\ db.registry = Empty
    BY InitialRows DEF Init
  <1>2. \A p \in Procs : pc[p] = "idle"
    BY DEF Init
  <1>3. RegistryOK(db.registry)
    BY <1>1 DEF RegistryOK, Unscored, FallbacksAreKnown, Empty
  <1>4. \A p \in Procs : AdviceOK(pc[p], cmd[p])
    BY <1>2, NoAdvice
  <1>. QED BY <1>1, <1>3, <1>4 DEF AdviceInv, AllSuggested

(* However registries, reviews and bootstraps follow each other, the       *)
(* committed routes stay closed under fallback when the stored ones are:   *)
(* the loader accepts them (_load_route_registry_from_sqlite).             *)
THEOREM RoutesStayClosed ==
  FallbacksAreKnown(Stored.registry) /\ Spec => []RoutesAreClosed
  <1> SUFFICES ASSUME FallbacksAreKnown(Stored.registry) PROVE Spec => []RoutesAreClosed
    OBVIOUS
  <1>1. AdviceInv => RoutesAreClosed
    BY DEF AdviceInv, RegistryOK, RoutesAreClosed
  <1>. QED BY <1>1, AdviceInit, AdviceInvStep, GovInit, GovStep, PTL DEF Spec

(* Only a commit is logged, and only the process that holds the            *)
(* transaction commits.                                                    *)
LEMMA OnlyItsCommitLogs ==
  ASSUME GovInv, [Next]_vars, log' # log, NEW p \in Procs, pc[p] = "write"
  PROVE  Commit(p)
  <1>1. Next
    BY DEF vars
  <1>2. PICK q \in Procs : (\E op \in Offered[q] : Start(q, op)) \/ Step(q) \/ Crash(q)
    BY <1>1 DEF Next
  <1>3. Commit(q)
    <2>1. ~Bootstrap(q) /\ \A op : ~Start(q, op)
      BY DEF Bootstrap, Start
    <2>. QED BY <1>2, <2>1, OthersLeaveRows DEF Step
  <1>4. pc[q] = "write"
    BY <1>3, CommitWrites
  <1>5. q = p
    BY <1>4, Facts
  <1>. QED BY <1>3, <1>5

LEMMA WeightApproved ==
  ASSUME NEW w \in Weights, NEW approved, AllSound(approved), NEW n \in RouteName
  PROVE  LET mine == {q \in approved : q.type = "route_weight" /\ q.route = n}
         IN IF mine = {} THEN approved_weights(w, approved)[n] = w[n]
            ELSE \E q \in mine : approved_weights(w, approved)[n] = q.weight
  <1> DEFINE mine == {q \in approved : q.type = "route_weight" /\ q.route = n}
             chosen == CHOOSE q \in mine : TRUE
  <1>1. approved_weights(w, approved)[n]
          = IF mine = {} THEN w[n] ELSE IF chosen.weight = 0 THEN Full ELSE chosen.weight
    BY DEF approved_weights
  <1>2. mine # {} => chosen \in mine /\ chosen.weight # 0
    <2>1. mine # {} => chosen \in mine
      OBVIOUS
    <2>2. \A q \in mine : q.weight # 0
      BY DEF AllSound, Sound
    <2> HIDE DEF mine, chosen
    <2>. QED BY <2>1, <2>2
  <1> HIDE DEF chosen
  <1>. QED BY <1>1, <1>2

LEMMA CommitAppliesExactly ==
  ASSUME GovInv, AdviceInv, FilesUnscored, NEW p \in Procs, Commit(p), cmd[p].op = "review",
         load_route_weights(db.registry) = cmd[p].value.loaded.weights,
         load_route_capability_profiles(db.registry) = cmd[p].value.loaded.profiles
  PROVE  AppliedExactly(cmd[p].value.approved)
  <1> DEFINE v == cmd[p].value
             w == v.loaded.weights
             h == v.loaded.profiles
             A == v.approved
  <1>1. /\ ReviewOK(v) /\ DOMAIN db'.registry = DOMAIN db.registry
        /\ \A r \in DOMAIN db.registry :
             /\ Plain(r) \in RouteName
             /\ db'.registry[r].weight = v.weights[Plain(r)]
             /\ db'.registry[r].scores = v.profiles[Plain(r)].scores
             /\ db'.registry[r].unsupported = v.profiles[Plain(r)].unsupported
    BY ReviewWrites
  <1>2. db.registry \in Registries
    BY Facts DEF Rows
  <1>3. \A r \in DOMAIN db.registry :
          /\ w[Plain(r)] = db.registry[r].weight
          /\ h[Plain(r)].scores = db.registry[r].scores
          /\ h[Plain(r)].unsupported = db.registry[r].unsupported
    <2>1. /\ w = load_route_weights(db.registry)
          /\ h = load_route_capability_profiles(db.registry)
      OBVIOUS
    <2> HIDE DEF w, h
    <2>2. \A r \in DOMAIN db.registry : w[Plain(r)] = db.registry[r].weight
      BY <1>2, <2>1, LoadWeightsType
    <2>3. ASSUME NEW r \in DOMAIN db.registry
          PROVE  /\ h[Plain(r)].scores = db.registry[r].scores
                 /\ h[Plain(r)].unsupported = db.registry[r].unsupported
      <3>1. h[Plain(r)] = [scores |-> db.registry[r].scores, unsupported |-> db.registry[r].unsupported]
        BY <1>2, <2>1, LoadProfilesType
      <3>. QED BY <3>1
    <2>. QED BY <2>2, <2>3
  <1>4. /\ AllSound(A) /\ w \in Weights /\ h \in Profiles /\ UnscoredIn(h)
        /\ v.weights = approved_weights(w, A) /\ v.profiles = approved_profiles(h, A)
    BY <1>1 DEF ReviewOK
  <1> HIDE DEF v, w, h, A
  <1>5. ASSUME NEW r \in DOMAIN db.registry
        PROVE  WeightApplied(A, r, db.registry[r], db'.registry[r])
    <2> DEFINE n == Plain(r)
               mine == {q \in A : q.type = "route_weight" /\ q.route = n}
    <2>1. n \in RouteName /\ db'.registry[r].weight = approved_weights(w, A)[n]
          /\ w[n] = db.registry[r].weight
      BY <1>1, <1>3, <1>4
    <2> HIDE DEF n
    <2>2. IF mine = {} THEN approved_weights(w, A)[n] = w[n]
          ELSE \E q \in mine : approved_weights(w, A)[n] = q.weight
      BY <1>4, <2>1, WeightApproved
    <2> HIDE DEF mine
    <2>3. IF mine = {} THEN db'.registry[r].weight = db.registry[r].weight
          ELSE \E q \in mine : db'.registry[r].weight = q.weight
      BY <2>1, <2>2
    <2>. QED BY <2>3 DEF mine, n, WeightApplied
  <1>6. ASSUME NEW r \in DOMAIN db.registry, NEW f \in Families
        PROVE  CapabilityApplied(A, r, f, db.registry[r], db'.registry[r])
    <2> DEFINE n == Plain(r)
               mine == {q \in A : q.type = "route_capability" /\ q.route = n /\ q.family = f}
               chosen == CHOOSE q \in mine : TRUE
               new == approved_profiles(h, A)[n]
    <2>1. /\ n \in RouteName
          /\ db'.registry[r].scores = new.scores /\ db'.registry[r].unsupported = new.unsupported
          /\ h[n].scores = db.registry[r].scores /\ h[n].unsupported = db.registry[r].unsupported
      BY <1>1, <1>3, <1>4
    <2> HIDE DEF n
    <2>2. /\ mine = {} => /\ new.scores[f] = h[n].scores[f]
                          /\ (f \in new.unsupported <=> f \in h[n].unsupported)
          /\ mine # {} =>
               /\ chosen \in mine
               /\ chosen.unsupported => /\ f \in new.unsupported
                                       /\ new.scores[f] = IF f \in h[n].unsupported THEN h[n].scores[f] ELSE None
               /\ ~chosen.unsupported => f \notin new.unsupported /\ new.scores[f] = chosen.score
      BY <1>4, <2>1, ApprovedIs
    <2>3. mine # {} /\ chosen.unsupported => chosen.score = None
      <3>1. \A q \in mine : q.unsupported => q.score = None
        BY <1>4 DEF AllSound, Sound
      <3> HIDE DEF mine, chosen
      <3>. QED BY <2>2, <3>1
    <2>4. f \in h[n].unsupported => h[n].scores[f] = None
      BY <1>4, <2>1 DEF UnscoredIn
    <2> HIDE DEF mine, chosen, new
    <2>5. IF mine = {}
          THEN /\ db'.registry[r].scores[f] = db.registry[r].scores[f]
               /\ (f \in db'.registry[r].unsupported <=> f \in db.registry[r].unsupported)
          ELSE /\ db'.registry[r].scores[f] = chosen.score
               /\ (f \in db'.registry[r].unsupported <=> chosen.unsupported)
      BY <2>1, <2>2, <2>3, <2>4
    <2>. QED BY <2>5 DEF mine, chosen, n, CapabilityApplied
  <1>7. AppliedExactly(A)
    BY <1>1, <1>5, <1>6 DEF AppliedExactly
  <1>. QED BY <1>7 DEF A, v

(* A review changes exactly what was approved, for every number of         *)
(* processes: ReviewChangesWhatWasApproved.  The metadata that operators   *)
(* provide must not score a family they mark unsupported, because marking  *)
(* such a family again leaves its score.                                   *)
THEOREM ReviewsChangeWhatWasApproved ==
  FilesUnscored /\ Spec => ReviewChangesWhatWasApproved
  <1> SUFFICES ASSUME FilesUnscored PROVE Spec => ReviewChangesWhatWasApproved
    OBVIOUS
  <1>1. GovInv /\ AdviceInv /\ [Next]_vars =>
          [\A p \in Procs :
             /\ ReviewCommits(p)
             /\ load_route_weights(db.registry) = cmd[p].value.loaded.weights
             /\ load_route_capability_profiles(db.registry) = cmd[p].value.loaded.profiles
             => AppliedExactly(cmd[p].value.approved)]_vars
    BY OnlyItsCommitLogs, CommitAppliesExactly DEF ReviewCommits
  <1>. QED BY <1>1, GovInit, GovStep, AdviceInit, AdviceInvStep, PTL
           DEF Spec, ReviewChangesWhatWasApproved

(* What was committed for a route and a family is what the same telemetry  *)
(* would suggest.                                                          *)
LEMMA CommitSettles ==
  ASSUME GovInv, AdviceInv, NEW p \in Procs, Commit(p), cmd[p].op = "review",
         NEW q \in cmd[p].value.approved, q.type = "route_capability",
         ~q.route.detached, q.route.base \in DOMAIN db'.registry,
         NEW reg, NEW r \in RouteName, NEW f \in Families, q.route = r, q.family = f
  PROVE  capability_suggestion(reg, load_route_capability_profiles(db'.registry),
                               cmd[p].value.events, r, f) = {}
  <1> DEFINE v == cmd[p].value
             h == v.loaded.profiles
             A == v.approved
             ev == v.events
             profiles == load_route_capability_profiles(db'.registry)
             mine == {a \in A : a.type = "route_capability" /\ a.route = r /\ a.family = f}
             chosen == CHOOSE a \in mine : TRUE
             stats == RouteTaskFamilyTelemetryStats(ev, r, f)
             score == _suggest_task_family_score(stats)
  <1>1. /\ ReviewOK(v) /\ DOMAIN db'.registry = DOMAIN db.registry /\ db'.registry \in Registries
        /\ \A x \in DOMAIN db.registry :
             /\ db'.registry[x].scores = v.profiles[Plain(x)].scores
             /\ db'.registry[x].unsupported = v.profiles[Plain(x)].unsupported
    BY ReviewWrites
  <1>2. AllSound(A) /\ AllSuggested(A, ev) /\ h \in Profiles /\ v.profiles = approved_profiles(h, A)
    BY <1>1 DEF ReviewOK
  <1>3. r.base \in DOMAIN db.registry /\ Plain(r.base) = r
    <2>1. r = [base |-> r.base, detached |-> FALSE]
      BY DEF RouteName
    <2>2. r.base \in DOMAIN db.registry
      BY <1>1
    <2>. QED BY <2>1, <2>2 DEF Plain
  <1>4. q \in mine
    OBVIOUS
  <1>5. chosen \in mine
    BY <1>4
  <1>6. chosen \in A /\ chosen.type = "route_capability" /\ chosen.route = r /\ chosen.family = f
    BY <1>5
  <1> HIDE DEF v, h, A, ev, profiles
  <1>7. /\ chosen.unsupported => f \in approved_profiles(h, A)[r].unsupported
        /\ ~chosen.unsupported => /\ f \notin approved_profiles(h, A)[r].unsupported
                                 /\ approved_profiles(h, A)[r].scores[f] = chosen.score
    BY <1>2, <1>4, ApprovedIs
  <1> HIDE DEF mine, chosen
  <1>8. /\ ~(stats.events < 2)
        /\ IF stats.successes = 0 THEN chosen.unsupported
           ELSE ~chosen.unsupported /\ chosen.score = score
    BY <1>2, <1>6 DEF AllSuggested, Suggested
  <1>9. ~chosen.unsupported => chosen.score \in Nat
    BY <1>2, <1>6 DEF AllSound, Sound
  <1>10. /\ profiles[r].scores = approved_profiles(h, A)[r].scores
         /\ profiles[r].unsupported = approved_profiles(h, A)[r].unsupported
    <2>1. profiles[Plain(r.base)]
            = [scores |-> db'.registry[r.base].scores, unsupported |-> db'.registry[r.base].unsupported]
      BY <1>1, <1>3, LoadProfilesType DEF profiles
    <2>. QED BY <1>1, <1>2, <1>3, <2>1
  <1> HIDE DEF stats, score
  <1>11. CASE stats.successes = 0
    <2>1. f \in profiles[r].unsupported
      BY <1>7, <1>8, <1>10, <1>11
    <2>. QED BY <1>11, <2>1 DEF capability_suggestion, stats, profiles, ev, v
  <1>12. CASE stats.successes # 0
    <2>1. f \notin profiles[r].unsupported /\ profiles[r].scores[f] = score /\ score \in Nat
      BY <1>7, <1>8, <1>9, <1>10, <1>12
    <2>2. score # None /\ score - score < 15
      BY <2>1, RouteAssumption
    <2>3. capability_suggestion(reg, profiles, ev, r, f) = {}
      BY <1>12, <2>1, <2>2 DEF capability_suggestion, stats, score
    <2>. QED BY <2>3 DEF profiles, ev, v
  <1>. QED BY <1>11, <1>12

LEMMA CapabilityNames ==
  ASSUME NEW reg, NEW profiles, NEW ev, NEW r, NEW f,
         NEW q \in capability_suggestion(reg, profiles, ev, r, f)
  PROVE  q.route = r /\ q.family = f
  <1>1. q \in {Marking(r, f), Scoring(r, f, _suggest_task_family_score(RouteTaskFamilyTelemetryStats(ev, r, f)))}
    BY DEF capability_suggestion, Capability, Marking, Scoring
  <1>2. CASE q = Marking(r, f)
    BY <1>2, MarkingHas DEF CapabilityFields
  <1>3. ASSUME NEW score, q = Scoring(r, f, score) PROVE q.route = r /\ q.family = f
    BY <1>3, ScoringHas DEF CapabilityFields
  <1>. QED BY <1>1, <1>2, <1>3

(* The meta optimizer comes to rest after every approved suggestion that   *)
(* was committed, whatever telemetry it read: SuggestionsSettle.           *)
THEOREM ApprovedSuggestionsSettle == Spec => SuggestionsSettle
  <1>1. GovInv /\ AdviceInv /\ [Next]_vars =>
          [\A p \in Procs :
             ReviewCommits(p) =>
               \A q \in cmd[p].value.approved :
                 q.type = "route_capability" /\ ~q.route.detached /\ q.route.base \in DOMAIN db'.registry
                 => \A again \in _build_route_capability_proposals(mem'[p].registry,
                                    load_route_capability_profiles(db'.registry), cmd[p].value.events) :
                      again.route # q.route \/ again.family # q.family]_vars
    <2> SUFFICES ASSUME GovInv, AdviceInv, [Next]_vars, NEW p \in Procs, ReviewCommits(p),
                        NEW q \in cmd[p].value.approved, q.type = "route_capability",
                        ~q.route.detached, q.route.base \in DOMAIN db'.registry,
                        NEW again \in _build_route_capability_proposals(mem'[p].registry,
                                        load_route_capability_profiles(db'.registry), cmd[p].value.events),
                        again.route = q.route, again.family = q.family
                 PROVE  FALSE
      OBVIOUS
    <2>1. Commit(p) /\ cmd[p].op = "review"
      BY OnlyItsCommitLogs DEF ReviewCommits
    <2> DEFINE reg == mem'[p].registry
               profiles == load_route_capability_profiles(db'.registry)
               ev == cmd[p].value.events
    <2>2. PICK r \in RouteName, f \in Families : again \in capability_suggestion(reg, profiles, ev, r, f)
      BY DEF _build_route_capability_proposals
    <2> HIDE DEF reg
    <2>3. again.route = r /\ again.family = f
      <3> HIDE DEF profiles, ev
      <3>. QED BY <2>2, CapabilityNames
    <2>4. q.route = r /\ q.family = f
      BY <2>3
    <2>5. capability_suggestion(reg, profiles, ev, r, f) = {}
      BY <2>1, <2>4, CommitSettles
    <2>. QED BY <2>2, <2>5
  <1>. QED BY <1>1, GovInit, GovStep, AdviceInit, AdviceInvStep, PTL DEF Spec, SuggestionsSettle

=============================================================================
