---------------------------- MODULE MCExpertCache ----------------------------
(* Bounds for ExpertCache: three experts compete for two slots; the heat    *)
(* wraps after two hits; one expert is in the .bit1 file as Q1_0; any       *)
(* scoreboard may have been saved by an earlier run.                        *)
EXTENDS ExpertCache

CONSTANTS e1, e2, e3

MCExperts == {e1, e2, e3}
MCQ1Experts == {e1}
MCBoards ==
  {b \in [seen : SUBSET MCExperts, hot : SUBSET MCExperts] : b.hot \subseteq b.seen}
=============================================================================
