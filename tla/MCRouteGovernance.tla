-------------------------- MODULE MCRouteGovernance --------------------------
(* A chain of three routes, two of them in one lane.  One file drops a      *)
(* route and lowers another, one file has a dangling fallback.              *)
EXTENDS RouteGovernance

CONSTANTS aider, http, summary, cli, web

fresh(executor, lane, ability, fallback) ==
  [executor |-> executor, model |-> {}, lane |-> lane, ability |-> ability,
   fallback |-> fallback, weight |-> 100, scores |-> [f \in Families |-> None],
   unsupported |-> {}]

SmallOffered ==
  [p \in {cli, web} |-> IF p = web THEN {"select", "decide", "review"}
                        ELSE {"optimize", "review", "registry", "policy",
                              "weights", "profiles", "audit", "rounds"}]

SmallOrder == <<aider, http, summary>>

ShippedRegistry ==
  [r \in {aider, http, summary} |->
     CASE r = aider   -> fresh("aider", "cli", "code", summary)
       [] r = http    -> fresh("http", "api", "text", aider)
       [] r = summary -> fresh("local", "cli", "text", None)]

SmallShipped ==
  [registry |-> ShippedRegistry,
   policy |-> [modes |-> [m \in Modes |-> IF m = "live" THEN aider
                                          ELSE IF m = "summary" THEN summary ELSE None],
               bias |-> [h \in Hints |-> IF h = "high" THEN http ELSE None],
               strategy |-> {"high"}, summary |-> summary]]

(* The stored metadata carry a weight, a profile and policies from legacy   *)
(* files.                                                                   *)
SmallStored ==
  [registry |-> [ShippedRegistry EXCEPT ![http].weight = 50, ![http].unsupported = {"execution"}],
   policy |-> [SmallShipped.policy EXCEPT !.bias["high"] = None],
   audit |-> [enabled |-> FALSE, on_degraded |-> TRUE],
   rounds |-> 1]

SmallRegistryFiles ==
  {[r \in {aider, summary} |-> IF r = aider THEN [ShippedRegistry[aider] EXCEPT !.weight = 40]
                               ELSE ShippedRegistry[summary]],
   [r \in {aider} |-> ShippedRegistry[aider]]}

SmallPolicyFiles == {[SmallShipped.policy EXCEPT !.summary = None]}

(* A report with a zero, of a route that a file drops too; a score for a    *)
(* family marked unsupported.                                               *)
SmallWeightReports == {(Plain(aider) :> 0 @@ Plain(http) :> 80)}

SmallProfileChanges ==
  {[route |-> Plain(http), family |-> "execution", score |-> 60, clear |-> None,
    mark |-> {}, unmark |-> {}]}

SmallAuditRequests == {[field |-> "enabled", to |-> TRUE]}

event(type, r, detached) ==
  [type |-> type, route |-> [base |-> r, detached |-> detached], family |-> "execution",
   feedback |-> FALSE, degraded |-> FALSE, cost |-> 0,
   failure |-> IF type = "failed" THEN "timeout" ELSE None]

(* A route that fails a family; a route that half succeeds beside a failed  *)
(* detached run and a retry.                                                *)
SmallTelemetries ==
  {<<event("failed", aider, FALSE), event("failed", aider, FALSE)>>,
   <<event("completed", http, FALSE),
     [event("completed", http, FALSE) EXCEPT !.feedback = TRUE],
     event("failed", aider, TRUE),
     [event("failed", http, FALSE) EXCEPT !.failure = None]>>}

task(executor, lane, required, mode, complexity) ==
  [executor |-> executor, model |-> {}, lane |-> lane, required |-> required,
   family |-> "execution", mode |-> mode, complexity |-> complexity]

SmallTasks ==
  {task(e, l, q, m, c) : e \in {"aider", "http"}, l \in {"cli", "api"},
                         q \in {"text", "none", None}, m \in {"auto"},
                         c \in {"", "high"}}
=============================================================================
