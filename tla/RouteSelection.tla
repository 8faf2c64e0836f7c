--------------------------- MODULE RouteSelection ---------------------------
(***************************************************************************)
(* The provider router's choice of a route: the registry a process holds   *)
(* in memory, the routing policy, and what select_route makes of them for  *)
(* a task.  Weights and scores are in hundredths.                          *)
(***************************************************************************)
EXTENDS Integers, Sequences, FiniteSets

CONSTANTS RouteOrder,   \* the route names in alphabetical order
          Families,     \* task families: execution, review, planning ...
          Executors,    \* executor names
          Lanes,        \* pairs of executor family and execution site
          Abilities,    \* capability records of routes
          Words,        \* model hints are sets of words
          DEFAULT_EXECUTOR,
          None

Routes == {RouteOrder[i] : i \in DOMAIN RouteOrder}

ASSUME RouteAssumption ==
  /\ RouteOrder \in Seq(Routes)
  /\ \A i, j \in DOMAIN RouteOrder : RouteOrder[i] = RouteOrder[j] => i = j
  /\ RouteOrder # <<>> /\ None \notin Routes \cup Executors \cup Abilities /\ None \notin Nat
  /\ DEFAULT_EXECUTOR \in Executors

Full == 100

(* The detached variant of a route is not registered; its name is.         *)
RouteName == [base : Routes, detached : BOOLEAN]
Plain(r) == [base |-> r, detached |-> FALSE]

RouteSpec == [executor    : Executors,
              model       : SUBSET Words,
              lane        : Lanes,
              ability     : Abilities,
              fallback    : Routes \cup {None},
              weight      : Nat,
              scores      : [Families -> Nat \cup {None}],
              unsupported : SUBSET Families]
IsRegistry(reg) == DOMAIN reg \subseteq Routes /\ reg \in [DOMAIN reg -> RouteSpec]

Modes == {"auto", "live", "http", "deterministic", "detached", "offline", "summary"}
Hints == {"", "high", "low", "routine", "parallel"}
RoutePolicy == [modes    : [Modes -> Routes \cup {None}],
                bias     : [Hints -> Routes \cup {None}],
                strategy : SUBSET Hints,
                summary  : Routes \cup {None}]

(* What select_route reads of a task. *)
TaskInputs == [executor : Executors, model : SUBSET Words, lane : Lanes,
               required : Abilities \cup {None}, family : Families,
               mode : Modes, complexity : Hints]

-----------------------------------------------------------------------------
(* The registry *)

Rank(r) == CHOOSE i \in DOMAIN RouteOrder : RouteOrder[i] = r
first(S) == CHOOSE r \in S : \A s \in S : Rank(r) <= Rank(s)

(* A registered route, or the detached variant of one. *)
route_by_name(reg, name) == name.base \in DOMAIN reg

route_for_mode(reg, policy, mode) ==
  LET r == policy.modes[mode] IN IF r \in DOMAIN reg THEN r ELSE None

(* A mode of the same name as the executor is looked up first; executors   *)
(* and modes share the names "http" and "summary".                          *)
route_for_executor(reg, policy, executor) ==
  LET byMode == IF executor \in Modes THEN route_for_mode(reg, policy, executor) ELSE None
      same == {r \in DOMAIN reg : reg[r].executor = executor}
  IN IF byMode \in same THEN byMode
     ELSE IF same # {} THEN first(same)
     ELSE IF policy.summary \in DOMAIN reg THEN policy.summary
     ELSE first(DOMAIN reg)

_task_family_score(spec, family) ==
  IF spec.scores[family] = None THEN 0 ELSE spec.scores[family]

(* r is listed before s: a higher score, else a higher weight, else the    *)
(* name.                                                                   *)
preferred(reg, family, r, s) ==
  LET a == _task_family_score(reg[r], family)
      b == _task_family_score(reg[s], family)
  IN \/ a > b
     \/ a = b /\ reg[r].weight > reg[s].weight
     \/ a = b /\ reg[r].weight = reg[s].weight /\ Rank(r) < Rank(s)

_sort_routes_by_preference(reg, S, family) ==
  CHOOSE r \in S : \A s \in S \ {r} : preferred(reg, family, r, s)

_filter_supported_task_family(reg, S, family) ==
  {r \in S : family \notin reg[r].unsupported}

(* One text contains the other; a route or a request without a hint never  *)
(* matches.                                                                *)
_filter_model_hint_matches(reg, S, hint) ==
  {r \in S : /\ hint # {} /\ reg[r].model # {}
             /\ (hint \subseteq reg[r].model \/ reg[r].model \subseteq hint)}

_filter_capability_matches(reg, S, required) ==
  {r \in S : required # None /\ reg[r].ability = required}

-----------------------------------------------------------------------------
(* Candidates *)

(* A list of candidates: its members and the one in front. *)
Listed(S, head, kind) == [routes |-> S, head |-> head, kind |-> kind]
Sorted(reg, S, family, kind) ==
  Listed(S, IF S = {} THEN None ELSE _sort_routes_by_preference(reg, S, family), kind)

(* Fault: the last resort forgets the filter. *)
candidate_routes_any(reg, policy, executor, model, lane, required, family) ==
  Listed(DOMAIN reg, _sort_routes_by_preference(reg, DOMAIN reg, family), "no_match")

(* Each filter in turn; executor None stands for the strategy router's own *)
(* name, which no route has.  Without requirements the routes of the       *)
(* task's lane are the answer even when the filter leaves none of them.    *)
candidate_routes(reg, policy, executor, model, lane, required, family) ==
  LET supported(S) == _filter_supported_task_family(reg, S, family)
      exact == supported({r \in DOMAIN reg : reg[r].executor = executor})
      models == _filter_model_hint_matches(reg, exact, model)
      inLane == {r \in DOMAIN reg : reg[r].lane = lane}
      inLaneAble == _filter_capability_matches(reg, supported(inLane), required)
      able == supported(_filter_capability_matches(reg, DOMAIN reg, required))
      left == supported(DOMAIN reg)
  IN IF models # {} THEN Sorted(reg, models, family, "exact_executor_model_hint")
     ELSE IF exact # {} THEN Sorted(reg, exact, family, "exact_executor")
     ELSE IF inLaneAble # {} THEN Sorted(reg, inLaneAble, family, "family_site")
     ELSE IF inLane # {} /\ required = None
          THEN Sorted(reg, supported(inLane), family, "family_site")
     ELSE IF able # {} THEN Sorted(reg, able, family, "capability")
     ELSE IF policy.summary \in left
          THEN Listed({policy.summary}, policy.summary, "summary_fallback")
     ELSE IF left # {} THEN Sorted(reg, left, family, "no_match")
     ELSE Listed(DOMAIN reg, first(DOMAIN reg), "no_match")

(* The biased order: the preferred route, then by weight and name. *)
_apply_complexity_bias(reg, policy, list, complexity) ==
  LET bias == policy.bias[complexity]
      before(r, s) == \/ reg[r].weight > reg[s].weight
                      \/ reg[r].weight = reg[s].weight /\ Rank(r) < Rank(s)
  IN IF list.routes = {} \/ bias = None THEN list.head
     ELSE IF bias \in list.routes THEN bias
     ELSE CHOOSE r \in list.routes : \A s \in list.routes \ {r} : before(r, s)

-----------------------------------------------------------------------------
(* Selection *)

Chosen(r, detached) == [base |-> r, detached |-> detached]

(* override and modeOverride are None when the command gives none; legacy  *)
(* is AIWF_EXECUTOR_MODE, the default executor when it is not set.         *)
select_route(reg, policy, task, override, modeOverride, legacy) ==
  LET mode == IF modeOverride # None THEN modeOverride ELSE task.mode
      modeRoute == route_for_mode(reg, policy, mode)
      byPolicy == override = None /\ mode # "auto"
      executor == IF override # None THEN override
                  ELSE IF mode = "auto" /\ task.executor = DEFAULT_EXECUTOR THEN legacy
                  ELSE task.executor
      asked == candidate_routes(reg, policy, executor, task.model, task.lane,
                                task.required, task.family)
      strategy == candidate_routes(reg, policy, None, {}, task.lane,
                                   task.required, task.family)
      useStrategy == /\ task.complexity \in policy.strategy
                     /\ override = None /\ mode = "auto"
                     /\ task.executor = DEFAULT_EXECUTOR
                     /\ strategy.routes # {}
      list == IF useStrategy THEN strategy ELSE asked
      head == _apply_complexity_bias(reg, policy, list, task.complexity)
  IN IF byPolicy /\ mode = "detached"
     THEN Chosen(route_for_executor(reg, policy, task.executor), TRUE)
     ELSE IF byPolicy /\ modeRoute # None THEN Chosen(modeRoute, FALSE)
     ELSE IF list.routes # {} THEN Chosen(head, FALSE)
     ELSE Chosen(route_for_executor(reg, policy, executor), FALSE)

=============================================================================
