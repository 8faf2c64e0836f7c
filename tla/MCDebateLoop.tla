---------------------------- MODULE MCDebateLoop ----------------------------
(* DebateLoop on a small registry: the chain of an HTTP route, as in       *)
(* routes.default.json, a CLI route that has only the binary fallback and  *)
(* its detached variant, the routes for notes and for the remote mock, and *)
(* a pair of routes that name each other.                                  *)
EXTENDS DebateLoop

CONSTANTS http, cli, detached, summary, note, remote, ping, pong

SmallRoutes == {http, cli, detached, summary, note, remote, ping, pong}
SmallFallbackOf == [r \in SmallRoutes |->
  CASE r = http -> summary
    [] r \in {cli, detached} -> summary
    [] r \in {summary, note, remote} -> NoRoute
    [] r = ping -> pong
    [] r = pong -> ping]
SmallExecutorOf == [r \in SmallRoutes |->
  CASE r \in {http, pong} -> "http"
    [] r \in {cli, detached, ping} -> "cli"
    [] r = summary -> "local"
    [] r = note -> "note-only"
    [] r = remote -> "mock-remote"]
SmallDetached == {detached}
SmallChainEnabled == {http, ping, pong}
SmallStartRoutes == {http, cli, detached, note, remote, ping}

(* Two reviewers, three of them with a name repeated and one empty, none. *)
SmallCards ==
  {[reviewer_routes |-> <<cli, http>>, consensus_policy |-> "majority",
    token_cost_limit |-> 4],
   [reviewer_routes |-> <<http, NoRoute, cli, http, summary>>,
    consensus_policy |-> "majority", token_cost_limit |-> 0],
   [reviewer_routes |-> <<NoRoute, http, cli, http, summary>>,
    consensus_policy |-> "veto", token_cost_limit |-> 0],
   [reviewer_routes |-> <<>>, consensus_policy |-> "majority",
    token_cost_limit |-> 4]}
=============================================================================
