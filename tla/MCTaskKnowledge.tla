-------------------------- MODULE MCTaskKnowledge --------------------------
(* A task with up to three objects, an operator at the command line and a  *)
(* second process that runs the task.                                      *)
EXTENDS TaskKnowledge

text(words) == [words |-> words, tidy |-> FALSE]

(* Two objects, the artifact of one gone; and one declared canonical. *)
MCRequests ==
  {[items |-> <<text("u"), text("v")>>, stage |-> "verified", source |-> "s",
    artifacts |-> <<"gone", "b">>, reuse |-> TRUE, intent |-> "promote"],
   [items |-> <<text("u")>>, stage |-> "canonical", source |-> None,
    artifacts |-> <<>>, reuse |-> FALSE, intent |-> "none"]}

(* A task is often created with no knowledge at all. *)
MCCreated == MCRequests \cup
  {[items |-> <<>>, stage |-> "raw", source |-> None, artifacts |-> <<>>, reuse |-> FALSE,
    intent |-> "none"]}

(* Objects that share an artifact or a text. *)
MCLegacyRequest ==
  [items |-> <<text("u"), text("v"), text("v")>>, stage |-> "verified", source |-> None,
   artifacts |-> <<"a", "a", "b">>, reuse |-> TRUE, intent |-> "promote"]

MCStagedText == text("v")

MCJudgments == {[judgment |-> "useful", citation |-> 1], [judgment |-> "noisy", citation |-> 0]}

MCOffered == [cli |-> {"create", "handoff", "capture", "decide", "stage", "refresh",
                      "evaluate", "migrate"},
              runner |-> {"run"}]
MCOfferedAlone == [cli |-> {"create", "capture", "stage"}, runner |-> {}]
=============================================================================
