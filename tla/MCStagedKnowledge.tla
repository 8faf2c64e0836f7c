------------------------- MODULE MCStagedKnowledge -------------------------
(* A fragment of a file that is ingested twice, one synthesis config used  *)
(* by two tasks, a wiki draft, and a refinement that supersedes a record   *)
(* by its id, again by the config it shares with another record, and a     *)
(* fragment that may be superseded by then; it refines a record of the     *)
(* config and the draft, and cites the draft's evidence.                   *)
EXTENDS StagedKnowledge

CONSTANTS frag1, frag2, synth1, synth2, draft, refined, fragment, config, e1, e2

SmallCandidates == {frag1, frag2, synth1, synth2, draft, refined}

SmallObjectOf ==
  [c \in SmallCandidates |-> IF c \in {frag1, frag2} THEN fragment
                             ELSE IF c \in {synth1, synth2} THEN config ELSE NoObject]

SmallTaskOf == [c \in SmallCandidates |-> IF c = synth2 THEN "t2" ELSE "t1"]

SmallSupersedes ==
  [c \in SmallCandidates |-> IF c = refined THEN <<synth1, config, frag1>> ELSE <<>>]

SmallRefines ==
  [c \in SmallCandidates |-> IF c = refined THEN {synth2, draft} ELSE {}]

SmallEvidenceOf ==
  [c \in SmallCandidates |-> IF c = draft THEN {e1}
                             ELSE IF c = refined THEN {e1, e2} ELSE {}]
=============================================================================
