-------------------------- MODULE MCSubtaskFanout --------------------------
(* SubtaskFanout on every graph of three cards, the chains and unrelated   *)
(* cards that planner.plan builds among them.                              *)
EXTENDS SubtaskFanout

CONSTANT unknown

NoDependency == [d \in Cards \cup {unknown} |-> 0]
DependsOn(S) == [d \in Cards \cup {unknown} |-> IF d \in S THEN 1 ELSE 0]

Parallel == [c \in Cards |-> NoDependency]
ParallelGraphs == {Parallel}

(* Every graph whose lists name a card at most twice, or an unknown one. *)
AllGraphs == [Cards -> [Cards -> 0 .. 2]]
SmallGraphs ==
  {[c \in Cards |-> [d \in Cards \cup {unknown} |-> IF d = unknown THEN 0 ELSE g[c][d]]] :
     g \in AllGraphs}
  \cup {[Parallel EXCEPT ![c] = DependsOn({unknown})] : c \in Cards}
=============================================================================
