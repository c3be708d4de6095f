----------------------------- MODULE MCAdvisor -----------------------------
(* Two problems of the foundation, each also in one of the two pools it     *)
(* opens, one in both of these, and one of three pools further on, of which *)
(* the last builds on two others.  The second catalog leaves one problem of *)
(* the foundation out.                                                      *)
EXTENDS Advisor

MCProblem == 1..4
MCTags ==
  << {Foundation, "stack"}, {Foundation, "two-pointers"}, {"two-pointers", "stack"},
     {"linked-list", "trees", "backtracking"} >>
MCDifficulty == <<1, 0, 0, 1>>
MCCurricula == { <<1, 2, 3, 4>>, <<3, 4, 1>> }
=============================================================================
