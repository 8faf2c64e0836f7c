--------------------------- MODULE MetaOptimizer ---------------------------
(***************************************************************************)
(* What the meta optimizer proposes from recent telemetry, and what an     *)
(* approved proposal does to route weights and capability profiles.        *)
(* Telemetry is the sequence of executor and fallback events, oldest       *)
(* first.  Rates are compared by cross-multiplication; weights and scores  *)
(* are in hundredths and costs in units of five cents.                     *)
(***************************************************************************)
EXTENDS RouteSelection, SequencesExt

CONSTANT Fingerprints   \* pairs of failure kind and error code

TelemetryEvent == [type     : {"completed", "failed", "fallback"},
                   route    : RouteName,
                   family   : Families \cup {None},
                   feedback : BOOLEAN,        \* a debate retry
                   degraded : BOOLEAN,
                   cost     : Nat,
                   failure  : Fingerprints \cup {None}]

Profile == [scores : [Families -> Nat \cup {None}], unsupported : SUBSET Families]

Proposal == [type        : {"route", "workflow", "route_weight", "route_capability"},
             route       : RouteName \cup {None},
             family      : Families \cup {None},
             weight      : Nat \cup {None},
             score       : Nat \cup {None},
             unsupported : BOOLEAN,
             why         : STRING]

-----------------------------------------------------------------------------
(* The snapshot *)

routes_seen(ev) == {ev[i].route : i \in DOMAIN ev}
executed(ev) == {i \in DOMAIN ev : ev[i].type # "fallback"}
costs(ev, I) == FoldSet(LAMBDA i, sum : ev[i].cost + sum, 0, I)

(* Counters of one route.  A retry with review feedback costs, and is not  *)
(* an executor event; a fallback counts for the route it left.             *)
RouteTelemetryStats(ev, r) ==
  LET mine == {i \in DOMAIN ev : ev[i].route = r}
      events == {i \in mine \cap executed(ev) : ~ev[i].feedback}
      retries == (mine \cap executed(ev)) \ events
  IN [samples  |-> mine,
      events   |-> Cardinality(events),
      failures |-> Cardinality({i \in events : ev[i].type = "failed"}),
      degraded |-> Cardinality({i \in events : ev[i].degraded}),
      fallback |-> Cardinality({i \in mine : ev[i].type = "fallback"}),
      attempts |-> Cardinality(events) + Cardinality(retries),
      cost     |-> costs(ev, mine),
      families |-> {ev[i].family : i \in mine \cap executed(ev)} \ {None}]

TaskFamilyTelemetryStats(ev, f) ==
  LET mine == {i \in executed(ev) : ev[i].family = f}
  IN [attempts |-> Cardinality(mine),
      retries  |-> Cardinality({i \in mine : ev[i].feedback}),
      cost     |-> costs(ev, mine)]

RouteTaskFamilyTelemetryStats(ev, r, f) ==
  LET mine == {i \in executed(ev) : ev[i].route = r /\ ev[i].family = f /\ ~ev[i].feedback}
  IN [events    |-> Cardinality(mine),
      successes |-> Cardinality({i \in mine : ev[i].type = "completed"}),
      failures  |-> Cardinality({i \in mine : ev[i].type = "failed"}),
      degraded  |-> Cardinality({i \in mine : ev[i].degraded})]

failure_fingerprints(ev) ==
  [x \in Fingerprints |->
     Cardinality({i \in DOMAIN ev : ev[i].type = "failed" /\ ~ev[i].feedback /\ ev[i].failure = x})]

-----------------------------------------------------------------------------
(* Proposals *)

Advice(type, r, why) ==
  [type |-> type, route |-> r, family |-> None, weight |-> None, score |-> None,
   unsupported |-> FALSE, why |-> why]

(* Nearest hundredth of a/b. *)
hundredths(a, b) == (200 * a + b) \div (2 * b)

(* The thresholds a route has crossed. *)
crossed(ev, r) ==
  LET stats == RouteTelemetryStats(ev, r)
      rate(count, num, den) == stats.events > 0 /\ den * count >= num * stats.events
  IN [failures  |-> rate(stats.failures, 1, 4),
      fallbacks |-> rate(stats.fallback, 3, 20),
      degraded  |-> rate(stats.degraded, 1, 5),
      cost      |-> stats.attempts > 0 /\ stats.cost >= 5 * stats.attempts]

route_advice(ev, r) ==
  {Advice("route", r, why) : why \in {w \in DOMAIN crossed(ev, r) : crossed(ev, r)[w]}}

(* A failing route is demoted to its success rate, at least a tenth. *)
route_weight_proposals(ev, r) ==
  LET stats == RouteTelemetryStats(ev, r)
      rate == hundredths(stats.events - stats.failures, stats.events)
  IN IF crossed(ev, r).failures
     THEN {[Advice("route_weight", r, "failures") EXCEPT !.weight = IF rate > 10 THEN rate ELSE 10]}
     ELSE {}

each_route_advice(ev, R) ==
  UNION {route_advice(ev, r) \cup route_weight_proposals(ev, r) : r \in R}

(* Of two routes of a family, one costs twice the other. *)
dear_routes(ev, R) ==
  LET stats == [r \in R |-> RouteTelemetryStats(ev, r)]
      of(f) == {r \in R : f \in stats[r].families}
      atMost(r, s) == stats[r].cost * stats[s].attempts <= stats[s].cost * stats[r].attempts
      cheapest(f) == CHOOSE r \in of(f) : \A s \in of(f) : atMost(r, s)
      dearest(f) == CHOOSE r \in of(f) : \A s \in of(f) : atMost(s, r)
      apart(f) == /\ Cardinality(of(f)) >= 2
                  /\ stats[dearest(f)].cost >= 2 * stats[dearest(f)].attempts
                  /\ stats[dearest(f)].cost * stats[cheapest(f)].attempts
                       >= 2 * stats[cheapest(f)].cost * stats[dearest(f)].attempts
  IN {dearest(f) : f \in {f \in Families : apart(f)}}

cost_comparison_advice(ev, R) == {Advice("route", r, "cost_comparison") : r \in dear_routes(ev, R)}

(* The later half of at least four samples costs half as much again. *)
rising_routes(ev, R) ==
  LET early(I) == {i \in I : Cardinality({j \in I : j < i}) < Cardinality(I) \div 2}
      rising(I) == LET E == early(I) L == I \ early(I)
                   IN /\ Cardinality(I) >= 4
                      /\ costs(ev, L) >= 2 * Cardinality(L)
                      /\ 2 * costs(ev, L) * Cardinality(E) >= 3 * costs(ev, E) * Cardinality(L)
  IN {r \in R : rising(RouteTelemetryStats(ev, r).samples)}

cost_trend_advice(ev, R) == {Advice("route", r, "cost_trend") : r \in rising_routes(ev, R)}

(* Families that are retried often, or cost twice the low median. *)
workflow_advice(ev) ==
  LET stats == [f \in Families |-> TaskFamilyTelemetryStats(ev, f)]
      seen == {f \in Families : stats[f].attempts > 0}
      less(f, g) == stats[f].cost * stats[g].attempts < stats[g].cost * stats[f].attempts
      median == CHOOSE f \in seen :
                  LET mid == (Cardinality(seen) - 1) \div 2
                  IN /\ Cardinality({g \in seen : less(g, f)}) <= mid
                     /\ Cardinality({g \in seen : ~less(f, g)}) > mid
      retried(f) == stats[f].attempts >= 3 /\ 10 * stats[f].retries >= 3 * stats[f].attempts
      dear(f) == /\ stats[median].cost > 0
                 /\ stats[f].cost >= 2 * stats[f].attempts
                 /\ stats[f].cost * stats[median].attempts
                      >= 2 * stats[median].cost * stats[f].attempts
  IN {[Advice("workflow", None, "retries") EXCEPT !.family = f] : f \in {f \in seen : retried(f)}}
     \cup {[Advice("workflow", None, "cost") EXCEPT !.family = f] : f \in {f \in seen : dear(f)}}

_suggest_task_family_score(stats) ==
  LET score == hundredths(4 * stats.successes - stats.degraded, 4 * stats.events)
  IN IF score < 0 THEN 0 ELSE IF score > Full THEN Full ELSE score

(* Nothing is proposed for a family a route never completes once it is     *)
(* marked unsupported, for a fresh route without a flaw, or for a score    *)
(* close to the current one.                                               *)
capability_suggestion(reg, profiles, ev, r, f) ==
  LET stats == RouteTaskFamilyTelemetryStats(ev, r, f)
      current == profiles[r].scores[f]
      unsupported == f \in profiles[r].unsupported
      score == _suggest_task_family_score(stats)
      flawless == stats.failures = 0 /\ stats.degraded = 0 /\ score >= 99
      near == current # None /\ current - score < 15 /\ score - current < 15
      propose(s, u) == {[Advice("route_capability", r, "capability")
                           EXCEPT !.family = f, !.score = s, !.unsupported = u]}
  IN IF stats.events < 2 \/ ~route_by_name(reg, r) THEN {}
     ELSE IF stats.successes = 0
          THEN IF stats.failures >= 2 /\ ~unsupported THEN propose(None, TRUE) ELSE {}
     ELSE IF ~unsupported /\ (near \/ (current = None /\ flawless)) THEN {}
     ELSE propose(score, FALSE)

_build_route_capability_proposals(reg, profiles, ev) ==
  UNION {capability_suggestion(reg, profiles, ev, r, f) : r \in RouteName, f \in Families}

fingerprint_advice(ev) ==
  {Advice("route", None, "fingerprint") :
     x \in {x \in Fingerprints : failure_fingerprints(ev)[x] >= 2}}

(* Everything that is proposed, or a note that nothing was found. *)
build_optimization_proposals(reg, profiles, ev) ==
  LET R == routes_seen(ev)
      found == each_route_advice(ev, R) \cup fingerprint_advice(ev)
               \cup cost_comparison_advice(ev, R) \cup cost_trend_advice(ev, R)
               \cup workflow_advice(ev)
               \cup _build_route_capability_proposals(reg, profiles, ev)
      nothing == {Advice("workflow", None, "nothing_found")}
  IN IF found = {} /\ R # {} THEN nothing ELSE found

-----------------------------------------------------------------------------
(* Reviews and what approval does *)

(* Without a selection the decision is everyone's; with one, the others    *)
(* are deferred.                                                           *)
approved_by(decision, selected, proposals) ==
  IF decision # "approved" THEN {} ELSE IF selected = {} THEN proposals ELSE selected

(* Every approved entry that will be applied names a route that is known. *)
entries_valid(reg, approved) ==
  \A q \in approved : q.type \in {"route_weight", "route_capability"} => route_by_name(reg, q.route)

(* Fault: routes without an approved weight go back to the default. *)
approved_weights_only(weights, approved) ==
  [n \in RouteName |->
     LET mine == {q \in approved : q.type = "route_weight" /\ q.route = n}
     IN IF mine = {} THEN Full ELSE (CHOOSE q \in mine : TRUE).weight]

(* A suggested weight of zero counts as none. *)
approved_weights(weights, approved) ==
  [n \in RouteName |->
     LET mine == {q \in approved : q.type = "route_weight" /\ q.route = n}
     IN IF mine = {} THEN weights[n]
        ELSE LET w == (CHOOSE q \in mine : TRUE).weight IN IF w = 0 THEN Full ELSE w]

(* Fault: a new score leaves the family marked unsupported. *)
apply_capability_kept(profile, q) ==
  IF q.unsupported
  THEN [profile EXCEPT !.scores[q.family] = None, !.unsupported = @ \cup {q.family}]
  ELSE [profile EXCEPT !.scores[q.family] = q.score]

apply_capability(profile, q) ==
  IF q.unsupported
  THEN IF q.family \in profile.unsupported THEN profile
       ELSE [profile EXCEPT !.scores[q.family] = None, !.unsupported = @ \cup {q.family}]
  ELSE [profile EXCEPT !.scores[q.family] = q.score, !.unsupported = @ \ {q.family}]

(* There is at most one suggestion for a route and a family, and it touches *)
(* no other family.                                                        *)
approved_profiles(profiles, approved) ==
  [n \in RouteName |->
     LET of(f) == {q \in approved : q.type = "route_capability" /\ q.route = n /\ q.family = f}
         now(f) == IF of(f) = {} THEN profiles[n]
                   ELSE apply_capability(profiles[n], CHOOSE q \in of(f) : TRUE)
     IN [scores |-> [f \in Families |-> now(f).scores[f]],
         unsupported |-> {f \in Families : f \in now(f).unsupported}]]

=============================================================================
